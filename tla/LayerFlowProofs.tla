-------------------------- MODULE LayerFlowProofs --------------------------
(***************************************************************************)
(* What is typed reaches the document, for any number of keys, in any      *)
(* order: nothing is lost, doubled or moved, nothing is left over, and     *)
(* Enter commits what is shown.                                            *)
(*                                                                         *)
(* The handlers pass on texts that they convert, cut and put together.     *)
(* What the proofs follow through them is a family of texts, those that    *)
(* may stand behind the document: Fit, for the order in which the          *)
(* keystrokes were pressed, and Whole, for all of them.  A lemma for each  *)
(* operator of LayerFlow says that it stays in the family.                 *)
(***************************************************************************)
EXTENDS LayerFlow, SequenceLemmas

-----------------------------------------------------------------------------
\* Texts and their keystrokes.

Keys == 1 .. MaxKeys

LEMMA KeysAreNatural == Keys \subseteq Nat /\ Seq(Keys) \subseteq Seq(Nat)
BY MaxKeysAssumption DEF Keys

LEMMA CharsAre == \A c \in Chars : c.form \in Forms /\ c.keys \in Seq(Keys)
BY DEF Chars, Keys

KeyLists(text) == [i \in DOMAIN text |-> text[i].keys]

LEMMA KeyListType ==
    ASSUME NEW x \in Texts
    PROVE  /\ KeyLists(x) \in Seq(Seq(Keys)) /\ Len(KeyLists(x)) = Len(x)
           /\ \A i \in 1 .. Len(x) : KeyLists(x)[i] = x[i].keys
<1>0. \A i \in 1 .. Len(x) : x[i] \in Chars
  BY DEF Texts
<1>1. \A i \in 1 .. Len(x) : x[i] \in Chars /\ x[i].keys \in Seq(Keys)
  BY <1>0, CharsAre
<1>2. KeyLists(x) = [i \in 1 .. Len(x) |-> x[i].keys] /\ Len(x) \in Nat
  BY DEF KeyLists, Texts
<1> QED BY <1>1, <1>2

LEMMA KeyListsAre ==
    ASSUME NEW x \in Texts, NEW y \in Texts
    PROVE  /\ KeyLists(x) \in Seq(Seq(Keys))
           /\ KeyLists(x \o y) = KeyLists(x) \o KeyLists(y)
<1> DEFINE L == Seq(Keys)
           a == KeyLists(x)
           b == KeyLists(y)
           c == KeyLists(x \o y)
<1>1. /\ Len(x) \in Nat /\ Len(y) \in Nat /\ x \o y \in Texts
      /\ Len(x \o y) = Len(x) + Len(y)
      /\ \A i \in 1 .. Len(x) + Len(y) :
            (x \o y)[i] = IF i <= Len(x) THEN x[i] ELSE y[i - Len(x)]
  BY DEF Texts
<1>2. /\ a \in Seq(L) /\ b \in Seq(L) /\ c \in Seq(L)
      /\ Len(a) = Len(x) /\ Len(b) = Len(y) /\ Len(c) = Len(x) + Len(y)
      /\ \A i \in 1 .. Len(x) : a[i] = x[i].keys
      /\ \A i \in 1 .. Len(y) : b[i] = y[i].keys
      /\ \A i \in 1 .. Len(x) + Len(y) : c[i] = (x \o y)[i].keys
  BY <1>1, KeyListType
<1> HIDE DEF L, a, b, c
<1>3. /\ a \o b \in Seq(L) /\ Len(a \o b) = Len(x) + Len(y)
      /\ \A i \in 1 .. Len(x) + Len(y) :
            (a \o b)[i] = IF i <= Len(x) THEN a[i] ELSE b[i - Len(x)]
  <2>1. a \in Seq(L) /\ b \in Seq(L)
    BY <1>2
  <2>2. /\ a \o b \in Seq(L) /\ Len(a \o b) = Len(a) + Len(b)
        /\ \A i \in 1 .. Len(a) + Len(b) :
              (a \o b)[i] = IF i <= Len(a) THEN a[i] ELSE b[i - Len(a)]
    BY <2>1, ConcatProperties
  <2> QED BY <1>2, <2>2
<1>4. ASSUME NEW i \in 1 .. Len(x) + Len(y) PROVE c[i] = (a \o b)[i]
  <2>1. CASE i <= Len(x)
    BY <1>1, <1>2, <1>3, <2>1
  <2>2. CASE ~(i <= Len(x))
    <3>1. i - Len(x) \in 1 .. Len(y)
      BY <1>1, <2>2
    <3> QED BY <1>1, <1>2, <1>3, <2>2, <3>1
  <2> QED BY <2>1, <2>2
<1>5. c = a \o b
  BY <1>1, <1>2, <1>3, <1>4, SeqEqual
<1> QED BY <1>2, <1>5 DEF L, a, b, c

LEMMA KeystrokesAre ==
    /\ \A x \in Texts : Keystrokes(x) \in Seq(Keys)
    /\ \A x, y \in Texts : Keystrokes(x \o y) = Keystrokes(x) \o Keystrokes(y)
    /\ \A c \in Chars : Keystrokes(<<c>>) = c.keys
    /\ Keystrokes(<<>>) = <<>>
<1>1. \A x \in Texts : Keystrokes(x) = FlattenSeq(KeyLists(x))
  BY DEF Keystrokes, KeyLists
<1>2. ASSUME NEW x \in Texts PROVE Keystrokes(x) \in Seq(Keys)
  BY <1>1, KeyListsAre, FlattenType
<1>3. ASSUME NEW x \in Texts, NEW y \in Texts
      PROVE  Keystrokes(x \o y) = Keystrokes(x) \o Keystrokes(y)
  <2>1. x \o y \in Texts
    BY DEF Texts
  <2>2. KeyLists(x) \in Seq(Seq(Keys)) /\ KeyLists(y) \in Seq(Seq(Keys))
    BY KeyListsAre
  <2>3. FlattenSeq(KeyLists(x) \o KeyLists(y)) = FlattenSeq(KeyLists(x)) \o FlattenSeq(KeyLists(y))
    BY <2>2, FlattenConcat
  <2>4. KeyLists(x \o y) = KeyLists(x) \o KeyLists(y)
    BY KeyListsAre
  <2> QED BY <1>1, <2>1, <2>3, <2>4
<1>4. ASSUME NEW c \in Chars PROVE Keystrokes(<<c>>) = c.keys
  <2>1. <<c>> \in Texts /\ c.keys \in Seq(Keys)
    BY DEF Texts, Chars, Keys
  <2>2. KeyLists(<<c>>) = <<c.keys>>
    BY DEF KeyLists
  <2> QED BY <1>1, <2>1, <2>2, FlattenOne
<1>5. Keystrokes(<<>>) = <<>>
  <2>1. <<>> \in Texts
    BY DEF Texts
  <2>2. KeyLists(<<>>) = <<>>
    BY DEF KeyLists
  <2> QED BY <1>1, <2>1, <2>2, FlattenEmpty
<1> QED BY <1>2, <1>3, <1>4, <1>5

LEMMA TextsAre ==
    /\ <<>> \in Texts
    /\ \A x, y \in Texts : x \o y \in Texts
    /\ \A x \in Texts : x \o <<>> = x /\ <<>> \o x = x
    /\ \A x, y, z \in Texts : (x \o y) \o z = x \o (y \o z)
    /\ \A x, y \in Texts : x \o y = <<>> <=> x = <<>> /\ y = <<>>
    /\ \A c \in Chars : <<c>> \in Texts /\ <<c>> # <<>>
    /\ \A x \in Texts, c \in Chars : Append(x, c) = x \o <<c>>
<1>1. \A x, y, z \in Texts : (x \o y) \o z = x \o (y \o z)
  BY Associative DEF Texts
<1>2. \A x, y \in Texts : x \o y = <<>> <=> x = <<>> /\ y = <<>>
  BY ConcatEqualIffEmpty DEF Texts
<1> QED BY <1>1, <1>2 DEF Texts

LEMMA Regroup ==
    ASSUME NEW x \in Texts, NEW y \in Texts, NEW z \in Texts
    PROVE  (x \o y) \o z = x \o (y \o z) /\ x \o y \in Texts /\ y \o z \in Texts
BY TextsAre

LEMMA NoLetters ==
    ASSUME NEW s, s.draft \in Texts, s.romaji = <<>>
    PROVE  PreeditText(s) = s.draft
BY TextsAre DEF PreeditText

\* A conversion is a text, and keeps the keystrokes.
LEMMA MadeIs ==
    ASSUME NEW form \in Forms, NEW x \in Texts
    PROVE  /\ Made(form, x) \in Texts /\ Made(form, x) # <<>>
           /\ Keystrokes(Made(form, x)) = Keystrokes(x)
<1> DEFINE c == [form |-> form, keys |-> Keystrokes(x)]
<1>1. c \in Chars /\ c.keys = Keystrokes(x)
  BY KeystrokesAre DEF Chars, Keys
<1>2. Made(form, x) = <<c>>
  BY DEF Made
<1> HIDE DEF c
<1> QED BY <1>1, <1>2, TextsAre, KeystrokesAre

LEMMA Adjacent ==
    ASSUME NEW S, NEW s \in Seq(S), NEW i \in Nat, NEW j \in Nat, NEW l \in Nat, NEW k \in Nat,
           1 <= i, i <= l, l = j + 1, j <= k, k <= Len(s)
    PROVE  SubSeq(s, i, j) \o SubSeq(s, l, k) = SubSeq(s, i, k)
<1>1. /\ Len(s) \in Nat /\ i \in 1 .. Len(s) + 1
      /\ j \in i - 1 .. Len(s) /\ k \in j .. Len(s)
  OBVIOUS
<1> QED BY <1>1, ConcatAdjacentSubSeq

\* A text is what one gets when it is cut.
LEMMA CutIs ==
    ASSUME NEW x \in Texts, NEW m \in 0 .. Len(x), NEW n \in m .. Len(x)
    PROVE  /\ SubSeq(x, 1, m) \in Texts /\ SubSeq(x, m + 1, n) \in Texts
           /\ SubSeq(x, n + 1, Len(x)) \in Texts
           /\ x = SubSeq(x, 1, m) \o (SubSeq(x, m + 1, n) \o SubSeq(x, n + 1, Len(x)))
           /\ SubSeq(x, 1, m) \o SubSeq(x, m + 1, n) = SubSeq(x, 1, n)
           /\ m < n => SubSeq(x, m + 1, n) # <<>>
           /\ n < Len(x) => SubSeq(x, n + 1, Len(x)) # <<>>
<1> DEFINE end == Len(x)
           m1 == m + 1
           n1 == n + 1
<1>0. /\ x \in Seq(Chars) /\ end \in Nat /\ m \in Nat /\ n \in Nat /\ m1 \in Nat /\ n1 \in Nat
      /\ 1 \in Nat /\ 1 <= m1 /\ m <= n /\ n <= end /\ m <= end /\ m1 <= n1 /\ end <= Len(x)
      /\ m1 = m + 1 /\ n1 = n + 1 /\ 1 <= 1
  BY DEF Texts
<1>1. \A i, j \in Nat : 1 <= i /\ j <= end =>
          SubSeq(x, i, j) \in Texts /\ (i <= j => SubSeq(x, i, j) # <<>>)
  <2> SUFFICES ASSUME NEW i \in Nat, NEW j \in Nat, 1 <= i, j <= end
               PROVE  SubSeq(x, i, j) \in Texts /\ (i <= j => SubSeq(x, i, j) # <<>>)
    OBVIOUS
  <2>1. \A k \in i .. j : x[k] \in Chars
    BY <1>0
  <2>2. /\ SubSeq(x, i, j) \in Seq(Chars)
        /\ Len(SubSeq(x, i, j)) = IF i <= j THEN j - i + 1 ELSE 0
    BY <2>1, SubSeqProperties
  <2>3. i <= j => Len(SubSeq(x, i, j)) # 0
    BY <2>2
  <2> QED BY <2>2, <2>3 DEF Texts
<1>2. x = SubSeq(x, 1, end)
  BY <1>0, SubSeqFull
<1> HIDE DEF m1, n1, end
<1>3. SubSeq(x, m1, n) \o SubSeq(x, n1, end) = SubSeq(x, m1, end)
  BY <1>0, Adjacent
<1>4. SubSeq(x, 1, m) \o SubSeq(x, m1, end) = SubSeq(x, 1, end)
  BY <1>0, Adjacent
<1>5. SubSeq(x, 1, m) \o SubSeq(x, m1, n) = SubSeq(x, 1, n)
  BY <1>0, Adjacent
<1>6. /\ SubSeq(x, 1, m) \in Texts /\ SubSeq(x, m1, n) \in Texts /\ SubSeq(x, n1, end) \in Texts
      /\ m < n => SubSeq(x, m1, n) # <<>>
      /\ n < end => SubSeq(x, n1, end) # <<>>
  <2>1. n1 <= end <=> n < end
    BY <1>0
  <2>2. m1 <= n <=> m < n
    BY <1>0
  <2>3. SubSeq(x, 1, m) \in Texts
    BY <1>0, <1>1
  <2>4. SubSeq(x, m1, n) \in Texts /\ (m1 <= n => SubSeq(x, m1, n) # <<>>)
    BY <1>0, <1>1
  <2>5. SubSeq(x, n1, end) \in Texts /\ (n1 <= end => SubSeq(x, n1, end) # <<>>)
    <3>1. 1 <= n1 /\ end <= end
      BY <1>0
    <3> QED BY <1>0, <1>1, <3>1
  <2> QED BY <2>1, <2>2, <2>3, <2>4, <2>5
<1> QED BY <1>2, <1>3, <1>4, <1>5, <1>6 DEF m1, n1, end

LEMMA HeadIs ==
    ASSUME NEW x \in Texts, NEW m \in 0 .. Len(x)
    PROVE  /\ SubSeq(x, 1, m) \in Texts /\ SubSeq(x, m + 1, Len(x)) \in Texts
           /\ x = SubSeq(x, 1, m) \o SubSeq(x, m + 1, Len(x))
<1>1. Len(x) \in Nat /\ m \in Nat /\ Len(x) \in m .. Len(x)
  BY DEF Texts
<1>2. /\ SubSeq(x, 1, m) \in Texts /\ SubSeq(x, m + 1, Len(x)) \in Texts
      /\ SubSeq(x, 1, m) \o SubSeq(x, m + 1, Len(x)) = SubSeq(x, 1, Len(x))
  BY <1>1, CutIs
<1>3. SubSeq(x, 1, Len(x)) = x
  BY SubSeqFull DEF Texts
<1> QED BY <1>2, <1>3

LEMMA PrefixIs ==
    ASSUME NEW p \in Texts, NEW x \in Texts, IsPrefix(p, x)
    PROVE  /\ Len(p) \in 0 .. Len(x)
           /\ SubSeq(x, Len(p) + 1, Len(x)) \in Texts
           /\ x = p \o SubSeq(x, Len(p) + 1, Len(x)) /\ SubSeq(x, 1, Len(p)) = p
<1>1. Len(p) \in 0 .. Len(x)
      /\ SubSeq(p, 1, Len(p)) = SubSeq(x, 1, Len(p))
  BY DEF IsPrefix, Texts
<1>2. SubSeq(p, 1, Len(p)) = p
  BY SubSeqFull DEF Texts
<1>3. /\ SubSeq(x, Len(p) + 1, Len(x)) \in Texts
      /\ x = SubSeq(x, 1, Len(p)) \o SubSeq(x, Len(p) + 1, Len(x))
  BY <1>1, HeadIs
<1> QED BY <1>1, <1>2, <1>3

LEMMA PrefixOfConcat ==
    ASSUME NEW x \in Texts, NEW y \in Texts
    PROVE  IsPrefix(x, x \o y) /\ IsPrefix(x, x)
<1>1. SubSeq(x \o y, 1, Len(x)) = x /\ SubSeq(x, 1, Len(x)) = x
  BY DEF Texts
<1>2. Len(x) <= Len(x \o y) /\ Len(x) <= Len(x)
  BY DEF Texts
<1> QED BY <1>1, <1>2 DEF IsPrefix

LEMMA FrontIs ==
    ASSUME NEW x \in Texts, x # <<>>
    PROVE  /\ Front(x) \in Texts /\ Last(x) \in Chars /\ x = Front(x) \o <<Last(x)>>
<1>1. Len(x) \in Nat \ {0} /\ x \in Seq(Chars)
  BY DEF Texts
<1>2. Last(x) \in Chars /\ Front(x) \in Texts
  BY <1>1 DEF Last, Front, Texts
<1>3. SubSeq(x, 1, Len(x)) = SubSeq(x, 1, Len(x) - 1) \o <<x[Len(x)]>>
  BY <1>1, SubSeqRecursiveSecond
<1>4. SubSeq(x, 1, Len(x)) = x
  BY <1>1, SubSeqFull
<1> QED BY <1>2, <1>3, <1>4 DEF Front, Last

\* The letters that become a kana, and those that stay.
LEMMA RomajiIs ==
    ASSUME NEW letters \in Texts, NEW final \in BOOLEAN
    PROVE  /\ Consumed(letters, final) \in 0 .. Len(letters)
           /\ ConvertRomaji(letters, final) \in Texts
           /\ LET n == Consumed(letters, final)
              IN  ConvertRomaji(letters, final) =
                    IF n = 0 THEN <<>> ELSE Made("kana", SubSeq(letters, 1, n))
<1>1. Len(letters) \in Nat /\ (Len(letters) = 0 <=> letters = <<>>)
  BY DEF Texts
<1>2. Consumed(letters, final) \in 0 .. Len(letters)
  <2>1. CASE letters = <<>>
    <3>1. Consumed(letters, final) = 0
      BY <1>1, <2>1 DEF Consumed
    <3> QED BY <1>1, <3>1
  <2>2. CASE Len(letters) = 1
    <3>1. Consumed(letters, final) =
              IF letters[1].form = "a" \/ (letters[1].form = "n" /\ final) THEN 1 ELSE 0
      BY <1>1, <2>2 DEF Consumed
    <3> QED BY <2>2, <3>1
  <2>3. CASE Len(letters) > 1
    <3>1. Consumed(letters, final) \in {0, 1, 2}
      BY <1>1, <2>3 DEF Consumed
    <3> QED BY <1>1, <2>3, <3>1
  <2>4. letters = <<>> \/ Len(letters) = 1 \/ Len(letters) > 1
    <3>1. letters # <<>> => Len(letters) \in Nat \ {0}
      BY EmptySeq DEF Texts
    <3>2. \A n \in Nat \ {0} : n = 1 \/ n > 1
      OBVIOUS
    <3> QED BY <3>1, <3>2
  <2> QED BY <2>1, <2>2, <2>3, <2>4
<1>3. SubSeq(letters, 1, Consumed(letters, final)) \in Texts
  BY <1>1, <1>2, HeadIs
<1>4. "kana" \in Forms
  BY DEF Forms
<1> HIDE DEF Consumed
<1> QED BY <1>2, <1>3, <1>4, MadeIs, TextsAre DEF ConvertRomaji

-----------------------------------------------------------------------------
\* What the invariants say of a state of the input method, for a set A of texts
\* that stand for what was typed: Window of one with an open window, Draft of one
\* without.

State ==
    [draft : Texts, romaji : Texts, carryOpen : BOOLEAN, lockedPrefix : Texts,
     ui : BOOLEAN, tab : Tabs, merged : BOOLEAN, pendingCarry : BOOLEAN,
     spaceTriggered : BOOLEAN, list : Seq(Texts), selection : 1 .. 2,
     clauses : Seq(ClauseTypes), active : 1 .. 2, held : Texts, source : Texts,
     answered : BOOLEAN, kanaKanjiOnly : BOOLEAN, composing : BOOLEAN, shown : Texts]

\* A conversion of a part stays in A.
Family(A) ==
    /\ A \subseteq Texts
    /\ \A form \in Forms : \A x, y, z \in Texts :
          x \o (y \o z) \in A => x \o (Made(form, y) \o z) \in A

\* A part stays in A.
Cuttable(A) == \A x, y, z \in Texts : x \o (y \o z) \in A => y \in A

From(s, j) == s.clauses[j].start
Piece(s, j) ==
    IF j = 1 THEN SubSeq(s.draft, From(s, 1) + 1, From(s, 2))
    ELSE SubSeq(s.draft, From(s, 2) + 1, Len(s.draft))

\* The clauses are conversions of the two parts of the draft after the first start.
Segmented(s) ==
    /\ Len(s.clauses) = 2 /\ s.tab = "Layer1" /\ ~s.merged
    /\ From(s, 1) < From(s, 2) /\ From(s, 2) < Len(s.draft)
    /\ \A j \in 1 .. 2 : /\ s.clauses[j].list = Layer1Candidates(Piece(s, j))
                         /\ s.clauses[j].index \in DOMAIN s.clauses[j].list
    /\ s.list = s.clauses[s.active].list /\ s.selection = s.clauses[s.active].index

ListOf(A, list) ==
    /\ list \in Seq(Texts) /\ Len(list) \in 1 .. 2
    /\ \A i \in DOMAIN list : list[i] \in A /\ list[i] # <<>>

Window(A, s) ==
    /\ s \in State /\ s.ui /\ s.romaji = <<>>
    /\ s.draft \in A /\ s.draft # <<>> /\ s.source \in A /\ s.shown \in A
    /\ ListOf(A, s.list) /\ s.selection \in DOMAIN s.list
    /\ s.clauses = <<>> \/ (Segmented(s) /\ Cuttable(A))
    /\ s.merged => s.list = <<s.draft>> /\ s.clauses = <<>>
    /\ s.tab # "Layer1" => s.clauses = <<>>
    /\ s.tab = "Layer2" => /\ s.held \in A /\ s.held # <<>> /\ s.shown = s.held
                           /\ s.pendingCarry /\ ~s.merged
    /\ s.tab = "Translation" /\ s.answered => s.shown = Translation(s)

Closed(s) ==
    /\ s \in State /\ ~s.ui /\ s.tab = "Layer1" /\ ~s.merged /\ ~s.pendingCarry
    /\ ~s.spaceTriggered /\ s.list = <<>> /\ s.selection = 1 /\ s.clauses = <<>>
    /\ s.active = 1 /\ s.held = <<>> /\ s.source = <<>> /\ ~s.answered

Draft(A, s) ==
    /\ Closed(s) /\ s.shown = PreeditText(s) /\ PreeditText(s) \in A
    /\ PreeditText(s) = <<>> => ~s.carryOpen /\ s.lockedPrefix = <<>>

Good(A, s) == Window(A, s) \/ Draft(A, s)

LEMMA FamilyIs ==
    ASSUME NEW A, Family(A), NEW form \in Forms, NEW x \in Texts, NEW y \in Texts
    PROVE  /\ y \in A => Made(form, y) \in A
           /\ x \o y \in A => x \o Made(form, y) \in A
           /\ x \o y \in A => Made(form, x) \o y \in A
<1>1. /\ <<>> \in Texts /\ Made(form, x) \in Texts /\ Made(form, y) \in Texts
      /\ x \o y \in Texts /\ Made(form, x) \o y \in Texts
  BY TextsAre, MadeIs
<1>2. /\ <<>> \o (y \o <<>>) = y /\ <<>> \o (Made(form, y) \o <<>>) = Made(form, y)
      /\ x \o (y \o <<>>) = x \o y /\ x \o (Made(form, y) \o <<>>) = x \o Made(form, y)
      /\ <<>> \o (x \o y) = x \o y /\ <<>> \o (Made(form, x) \o y) = Made(form, x) \o y
  BY <1>1, TextsAre
<1> QED BY <1>1, <1>2 DEF Family

LEMMA CuttableIs ==
    ASSUME NEW A, Cuttable(A), NEW x \in Texts, NEW y \in Texts, x \o y \in A
    PROVE  x \in A /\ y \in A
<1>1. <<>> \in Texts /\ x \o (y \o <<>>) = x \o y /\ <<>> \o (x \o y) = x \o y
  BY TextsAre
<1> QED BY <1>1 DEF Cuttable

LEMMA ListIs ==
    ASSUME NEW A, A \subseteq Texts, NEW x \in A, x # <<>>
    PROVE  /\ ListOf(A, <<x>>)
           /\ \A y \in A : y # <<>> => ListOf(A, <<x, y>>) /\ ListOf(A, <<y, x>>)
BY DEF ListOf

\* The candidates of a text.
LEMMA ListsAre ==
    ASSUME NEW A, Family(A), NEW x \in A, x # <<>>
    PROVE  /\ ListOf(A, Layer1Candidates(x))
           /\ Layer1Candidates(x)[Len(Layer1Candidates(x))] = x
<1>1. x \in Texts /\ "kanji" \in Forms /\ A \subseteq Texts
  BY DEF Family, Forms
<1>2. Made("kanji", x) \in A /\ Made("kanji", x) \in Texts /\ Made("kanji", x) # <<>>
  BY <1>1, FamilyIs, MadeIs
<1>3. CASE Made("kanji", x) = x
  <2>1. Layer1Candidates(x) = <<x>>
    BY <1>3 DEF Layer1Candidates
  <2> QED BY <1>1, <2>1, ListIs
<1>4. CASE Made("kanji", x) # x
  <2> DEFINE made == Made("kanji", x)
  <2>1. Layer1Candidates(x) = <<made, x>>
    BY <1>4 DEF Layer1Candidates
  <2>2. made \in A /\ made # <<>>
    BY <1>2
  <2> HIDE DEF made
  <2>3. ListOf(A, <<made, x>>)
    BY <1>1, <2>2, ListIs
  <2> QED BY <2>1, <2>3
<1> QED BY <1>3, <1>4

LEMMA LockedListsAre ==
    ASSUME NEW A, Family(A), NEW x \in Texts, NEW y \in Texts, x \o y \in A, x # <<>>
    PROVE  /\ ListOf(A, LockedCandidates(x, y))
           /\ LockedCandidates(x, y)[1] = x \o y
<1> DEFINE made == Made("kanji", y)
           w == x \o y
           u == x \o made
<1>1. "kanji" \in Forms /\ made \in Texts /\ A \subseteq Texts
  BY MadeIs DEF Forms, Family
<1>2. u \in A /\ u # <<>> /\ w \in A /\ w # <<>>
  BY <1>1, FamilyIs, TextsAre
<1>3. LockedCandidates(x, y) \in {<<w>>, <<w, u>>}
  <2>1. CASE y = <<>>
    BY <2>1, TextsAre DEF LockedCandidates
  <2>2. CASE y # <<>>
    BY <2>2 DEF LockedCandidates
  <2> QED BY <2>1, <2>2
<1> HIDE DEF w, u
<1>4. ListOf(A, <<w>>) /\ ListOf(A, <<w, u>>) /\ <<w>>[1] = w /\ <<w, u>>[1] = w
  BY <1>1, <1>2, ListIs
<1>5. ListOf(A, LockedCandidates(x, y)) /\ LockedCandidates(x, y)[1] = w
  BY <1>3, <1>4
<1> QED BY <1>5 DEF w

LEMMA FlattenTwo ==
    ASSUME NEW x \in Texts, NEW y \in Texts
    PROVE  FlattenSeq(<<x, y>>) = x \o y
<1>1. x \in Seq(Chars) /\ y \in Seq(Chars) /\ <<x>> \in Seq(Seq(Chars))
  BY DEF Texts
<1>2. <<x, y>> = Append(<<x>>, y)
  OBVIOUS
<1>3. FlattenSeq(<<x>>) = x
  BY <1>1, FlattenOne
<1>4. FlattenSeq(Append(<<x>>, y)) = FlattenSeq(<<x>>) \o y
  BY <1>1, FlattenAppend
<1> QED BY <1>2, <1>3, <1>4

\* The parts of the draft that the clauses are about.
LEMMA PiecesAre ==
    ASSUME NEW s \in State, Segmented(s)
    PROVE  /\ SubSeq(s.draft, 1, From(s, 1)) \in Texts
           /\ Piece(s, 1) \in Texts /\ Piece(s, 2) \in Texts
           /\ s.draft = SubSeq(s.draft, 1, From(s, 1)) \o (Piece(s, 1) \o Piece(s, 2))
           /\ Piece(s, 1) # <<>> /\ Piece(s, 2) # <<>>
<1>1. s.draft \in Texts /\ s.clauses \in Seq(ClauseTypes)
  BY DEF State
<1>2. s.clauses[1] \in ClauseTypes /\ s.clauses[2] \in ClauseTypes
  BY <1>1 DEF Segmented
<1>3. From(s, 1) \in Nat /\ From(s, 2) \in Nat /\ Len(s.draft) \in Nat
  BY <1>1, <1>2 DEF From, ClauseTypes, Texts
<1>4. From(s, 1) \in 0 .. Len(s.draft) /\ From(s, 2) \in From(s, 1) .. Len(s.draft)
      /\ From(s, 1) < From(s, 2) /\ From(s, 2) < Len(s.draft)
  BY <1>3 DEF Segmented
<1> DEFINE d == s.draft
           m == From(s, 1)
           n == From(s, 2)
<1>5. d \in Texts /\ m \in 0 .. Len(d) /\ n \in m .. Len(d) /\ m < n /\ n < Len(d)
  BY <1>1, <1>4
<1>6. Piece(s, 1) = SubSeq(d, m + 1, n) /\ Piece(s, 2) = SubSeq(d, n + 1, Len(d))
  BY DEF Piece
<1> HIDE DEF d, m, n
<1>7. /\ SubSeq(d, 1, m) \in Texts /\ SubSeq(d, m + 1, n) \in Texts
      /\ SubSeq(d, n + 1, Len(d)) \in Texts
      /\ d = SubSeq(d, 1, m) \o (SubSeq(d, m + 1, n) \o SubSeq(d, n + 1, Len(d)))
      /\ SubSeq(d, m + 1, n) # <<>> /\ SubSeq(d, n + 1, Len(d)) # <<>>
  BY <1>5, CutIs
<1>8. /\ SubSeq(d, 1, m) \in Texts /\ Piece(s, 1) \in Texts /\ Piece(s, 2) \in Texts
      /\ d = SubSeq(d, 1, m) \o (Piece(s, 1) \o Piece(s, 2))
      /\ Piece(s, 1) # <<>> /\ Piece(s, 2) # <<>>
  BY <1>6, <1>7
<1> QED BY <1>8 DEF d, m

\* The selection of Layer1, whole or composed of the clauses, stands for the draft.
LEMMA ComposedIs ==
    ASSUME NEW A, Family(A), NEW s, Window(A, s)
    PROVE  ComposedSelection(s) \in A /\ ComposedSelection(s) # <<>>
<1>1. CASE s.clauses = <<>>
  BY <1>1 DEF Window, ListOf, ComposedSelection
<1>2. CASE s.clauses # <<>>
  <2> DEFINE head == SubSeq(s.draft, 1, From(s, 1))
             p == Piece(s, 1)
             q == Piece(s, 2)
             x == s.clauses[1].list[s.clauses[1].index]
             y == s.clauses[2].list[s.clauses[2].index]
  <2>1. s \in State /\ Segmented(s) /\ Cuttable(A) /\ s.draft \in A /\ A \subseteq Texts
    BY <1>2 DEF Window, Family
  <2>2. /\ head \in Texts /\ p \in Texts /\ q \in Texts /\ p # <<>> /\ q # <<>>
        /\ s.draft = head \o (p \o q)
    BY <2>1, PiecesAre
  <2>3. x \in {p, Made("kanji", p)} /\ y \in {q, Made("kanji", q)}
    <3>1. x \in {Layer1Candidates(p)[i] : i \in DOMAIN Layer1Candidates(p)}
          /\ y \in {Layer1Candidates(q)[i] : i \in DOMAIN Layer1Candidates(q)}
      BY <2>1 DEF Segmented
    <3>2. \A z \in Texts : z # <<>> => \A i \in DOMAIN Layer1Candidates(z) :
              Layer1Candidates(z)[i] \in {z, Made("kanji", z)}
      BY DEF Layer1Candidates
    <3> QED BY <2>2, <3>1, <3>2
  <2>4. s.clauses \in Seq(ClauseTypes) /\ Len(s.clauses) = 2
    BY <2>1 DEF State, Segmented
  <2>5. ComposedSelection(s) =
            head \o FlattenSeq([i \in DOMAIN s.clauses |-> s.clauses[i].list[s.clauses[i].index]])
    BY <1>2 DEF ComposedSelection, From
  <2>6. [i \in DOMAIN s.clauses |-> s.clauses[i].list[s.clauses[i].index]] = <<x, y>>
    <3>1. DOMAIN s.clauses = 1 .. 2
      BY <2>4
    <3> DEFINE Chosen(i) == s.clauses[i].list[s.clauses[i].index]
    <3>2. [i \in 1 .. 2 |-> Chosen(i)] = <<Chosen(1), Chosen(2)>>
      OBVIOUS
    <3> QED BY <3>1, <3>2
  <2> HIDE DEF head, p, q, x, y
  <2>7. /\ Made("kanji", p) \in Texts /\ Made("kanji", q) \in Texts /\ "kanji" \in Forms
        /\ Made("kanji", p) # <<>> /\ Made("kanji", q) # <<>>
    BY <2>2, MadeIs DEF Forms
  <2>8. x \in Texts /\ y \in Texts /\ x # <<>> /\ y # <<>>
    BY <2>2, <2>3, <2>7
  <2>9. ComposedSelection(s) = head \o (x \o y)
    BY <2>5, <2>6, <2>8, FlattenTwo
  <2>10. head \o (x \o q) \in A
    BY <2>1, <2>2, <2>3, <2>7 DEF Family
  <2>11. (head \o x) \o q \in A /\ head \o x \in Texts
    <3>1. head \in Texts /\ x \in Texts /\ q \in Texts
      BY <2>2, <2>8
    <3>2. (head \o x) \o q = head \o (x \o q) /\ head \o x \in Texts
      BY <3>1, Regroup, ZenonT(30)
    <3> QED BY <2>10, <3>2
  <2>12. (head \o x) \o y \in A
    BY <2>2, <2>3, <2>7, <2>11, FamilyIs
  <2>13. head \o (x \o y) \in A /\ x \o y \in Texts /\ x \o y # <<>>
    <3>1. (head \o x) \o y = head \o (x \o y)
      BY <2>2, <2>8, TextsAre
    <3> QED BY <2>2, <2>8, <2>12, <3>1, TextsAre
  <2> QED BY <2>2, <2>9, <2>13, TextsAre
<1> QED BY <1>1, <1>2

-----------------------------------------------------------------------------
\* What the parts of the handlers do.

LEMMA IdleIs == Idle \in State /\ Closed(Idle) /\ Idle.draft = <<>> /\ Idle.romaji = <<>>
                /\ Idle.shown = <<>> /\ ~Idle.carryOpen /\ Idle.lockedPrefix = <<>>
<1>1. Idle \in State
  BY TextsAre DEF Idle, State, Tabs
<1> QED BY <1>1 DEF Idle, Closed

LEMMA CloseIs ==
    ASSUME NEW s \in State, NEW preserve \in BOOLEAN
    PROVE  LET r == CloseCandidateUI(s, preserve)
           IN  /\ Closed(r) /\ r.draft = s.draft /\ r.romaji = s.romaji /\ r.shown = s.shown
               /\ r.kanaKanjiOnly = s.kanaKanjiOnly /\ r.composing = s.composing
               /\ r.carryOpen <=> preserve /\ HasCarry(s)
               /\ r.lockedPrefix = IF preserve /\ HasCarry(s) THEN s.lockedPrefix ELSE <<>>
<1> DEFINE r == CloseCandidateUI(s, preserve)
           keep == preserve /\ HasCarry(s)
<1>1. keep \in BOOLEAN
  BY DEF HasCarry, State
<1>2. r = [Idle EXCEPT !.draft = s.draft, !.romaji = s.romaji, !.kanaKanjiOnly = s.kanaKanjiOnly,
                 !.composing = s.composing, !.shown = s.shown, !.carryOpen = keep,
                 !.lockedPrefix = IF keep THEN s.lockedPrefix ELSE <<>>]
  BY DEF CloseCandidateUI
<1> HIDE DEF r, keep
<1>3. r \in State
  BY <1>1, <1>2, IdleIs, TextsAre, ZenonT(30) DEF State
<1>4. /\ r.draft = s.draft /\ r.romaji = s.romaji /\ r.shown = s.shown
      /\ r.kanaKanjiOnly = s.kanaKanjiOnly /\ r.composing = s.composing
      /\ r.carryOpen = keep /\ r.lockedPrefix = IF keep THEN s.lockedPrefix ELSE <<>>
  BY <1>2 DEF Idle
<1>5. Closed(r)
  BY <1>2, <1>3 DEF Idle, Closed
<1> QED BY <1>4, <1>5 DEF r, keep

LEMMA EndIs ==
    ASSUME NEW s \in State
    PROVE  LET r == EndComposition(s)
           IN  /\ Closed(r) /\ PreeditText(r) = <<>> /\ r.romaji = <<>> /\ r.draft = <<>>
               /\ r.shown = <<>> /\ r.kanaKanjiOnly = s.kanaKanjiOnly /\ ~r.composing
               /\ ~r.carryOpen /\ r.lockedPrefix = <<>>
<1> DEFINE c == CloseCandidateUI(s, FALSE)
           r == EndComposition(s)
<1>1. /\ Closed(c) /\ ~c.carryOpen /\ c.lockedPrefix = <<>> /\ c.kanaKanjiOnly = s.kanaKanjiOnly
  BY CloseIs
<1>2. r = [c EXCEPT !.draft = <<>>, !.romaji = <<>>, !.composing = FALSE, !.shown = <<>>]
  BY DEF EndComposition
<1> HIDE DEF c, r
<1>3. Closed(r)
  BY <1>1, <1>2, TextsAre DEF Closed, State
<1>4. /\ r.draft = <<>> /\ r.romaji = <<>> /\ r.shown = <<>> /\ ~r.composing /\ ~r.carryOpen
      /\ r.lockedPrefix = <<>> /\ r.kanaKanjiOnly = s.kanaKanjiOnly
  BY <1>1, <1>2 DEF Closed, State
<1>5. PreeditText(r) = <<>>
  BY <1>4, TextsAre DEF PreeditText
<1> QED BY <1>3, <1>4, <1>5 DEF r

LEMMA EndDraft ==
    ASSUME NEW s \in State, NEW A, <<>> \in A
    PROVE  Draft(A, EndComposition(s))
BY EndIs DEF Draft

LEMMA ShowIs ==
    ASSUME NEW s, Closed(s)
    PROVE  LET r == ShowPreedit(s)
           IN  /\ Closed(r) /\ r.draft = s.draft /\ r.romaji = s.romaji
               /\ PreeditText(r) = PreeditText(s) /\ r.shown = PreeditText(s) /\ r.composing
               /\ r.carryOpen = s.carryOpen /\ r.lockedPrefix = s.lockedPrefix
               /\ r.kanaKanjiOnly = s.kanaKanjiOnly
<1> DEFINE text == PreeditText(s)
           r == ShowPreedit(s)
<1>1. text \in Texts
  BY TextsAre DEF Closed, State, PreeditText
<1>2. r = [s EXCEPT !.composing = TRUE, !.shown = text]
  BY DEF ShowPreedit
<1> HIDE DEF text, r
<1>3. Closed(r)
  BY <1>1, <1>2 DEF Closed, State
<1>4. /\ r.draft = s.draft /\ r.romaji = s.romaji /\ r.shown = text /\ r.composing
      /\ r.carryOpen = s.carryOpen /\ r.lockedPrefix = s.lockedPrefix
      /\ r.kanaKanjiOnly = s.kanaKanjiOnly
  BY <1>2 DEF Closed, State
<1> QED BY <1>3, <1>4 DEF text, r, PreeditText

LEMMA ShowDraft ==
    ASSUME NEW A, NEW s, Closed(s), PreeditText(s) \in A,
           PreeditText(s) = <<>> => ~s.carryOpen /\ s.lockedPrefix = <<>>
    PROVE  Draft(A, ShowPreedit(s))
BY ShowIs DEF Draft

LEMMA FlushIs ==
    ASSUME NEW s, Closed(s)
    PROVE  LET r == FlushRomaji(s)
           IN  /\ Closed(r) /\ r.draft = s.draft \o ConvertRomaji(s.romaji, TRUE) /\ r.romaji = <<>>
               /\ PreeditText(r) = r.draft /\ r.carryOpen = s.carryOpen
               /\ r.lockedPrefix = s.lockedPrefix /\ r.kanaKanjiOnly = s.kanaKanjiOnly
               /\ r.composing = s.composing
<1> DEFINE kana == ConvertRomaji(s.romaji, TRUE)
           draft == s.draft \o kana
           r == FlushRomaji(s)
<1>1. kana \in Texts /\ draft \in Texts
  BY RomajiIs, TextsAre DEF Closed, State
<1>2. r = [s EXCEPT !.draft = draft, !.romaji = <<>>]
  BY DEF FlushRomaji, Closed, State
<1> HIDE DEF draft, r
<1>3. Closed(r)
  BY <1>1, <1>2, TextsAre DEF Closed, State
<1>4. /\ r.draft = draft /\ r.romaji = <<>> /\ r.carryOpen = s.carryOpen
      /\ r.lockedPrefix = s.lockedPrefix /\ r.kanaKanjiOnly = s.kanaKanjiOnly
      /\ r.composing = s.composing
  BY <1>2 DEF Closed, State
<1> QED BY <1>1, <1>3, <1>4, TextsAre DEF draft, r, PreeditText

\* Back in Layer1, the list and the selection are as they were.
LEMMA ShowLayer1Is ==
    ASSUME NEW A, Family(A), NEW s, Window(A, s), NEW notify \in BOOLEAN
    PROVE  Window(A, ShowLayer1Candidates(s, notify))
<1> DEFINE t == [s EXCEPT !.tab = "Layer1"]
           text == IF notify THEN ComposedSelection(t) ELSE s.shown
           r == ShowLayer1Candidates(s, notify)
<1>1. t \in State /\ t.tab = "Layer1"
  BY DEF Window, State, Tabs
<1>2. /\ t.ui = s.ui /\ t.romaji = s.romaji /\ t.draft = s.draft /\ t.source = s.source
      /\ t.shown = s.shown /\ t.list = s.list /\ t.selection = s.selection
      /\ t.clauses = s.clauses /\ t.active = s.active /\ t.merged = s.merged
  BY DEF Window, State
<1>3. Window(A, t)
  BY <1>1, <1>2 DEF Window, Segmented, From, Piece
<1>4. text \in A /\ text \in Texts
  BY <1>3, ComposedIs DEF Window, Family
<1>5. r = [t EXCEPT !.shown = text]
  BY DEF ShowLayer1Candidates, Window, State
<1> HIDE DEF t, text, r
<1>6. /\ r \in State /\ r.tab = "Layer1" /\ r.shown = text
      /\ r.ui = t.ui /\ r.romaji = t.romaji /\ r.draft = t.draft /\ r.source = t.source
      /\ r.list = t.list /\ r.selection = t.selection
      /\ r.clauses = t.clauses /\ r.active = t.active /\ r.merged = t.merged
  BY <1>1, <1>4, <1>5 DEF State
<1>7. Window(A, r)
  BY <1>1, <1>3, <1>4, <1>6 DEF Window, Segmented, From, Piece
<1> QED BY <1>7 DEF r

LEMMA SwitchIs ==
    ASSUME NEW A, Family(A), NEW s, Window(A, s), NEW text \in A, text # <<>>
    PROVE  LET r == SwitchToLayer2FromLayer1(s, text)
           IN  /\ Window(A, r) /\ r.tab = "Layer2" /\ r.held = text /\ r.shown = text
               /\ r.draft = s.draft /\ r.list = s.list /\ ~r.carryOpen
               /\ r.spaceTriggered = s.spaceTriggered /\ r.kanaKanjiOnly = s.kanaKanjiOnly
<1> DEFINE r == SwitchToLayer2FromLayer1(s, text)
<1>1. text \in Texts
  BY DEF Family
<1>2. r = [s EXCEPT !.carryOpen = FALSE, !.lockedPrefix = <<>>,
                    !.held = text, !.tab = "Layer2", !.merged = FALSE,
                    !.pendingCarry = TRUE, !.clauses = <<>>, !.shown = text]
  BY DEF SwitchToLayer2FromLayer1, ClearCarry
<1> HIDE DEF r
<1>3. r \in State
  <2>1. s \in State /\ <<>> \in Seq(ClauseTypes) /\ <<>> \in Texts
    BY TextsAre DEF Window
  <2> QED BY <1>1, <1>2, <2>1 DEF State, Tabs
<1>4. /\ r.ui = s.ui /\ r.romaji = s.romaji /\ r.draft = s.draft /\ r.source = s.source
      /\ r.list = s.list /\ r.selection = s.selection /\ r.clauses = <<>> /\ ~r.merged
      /\ r.tab = "Layer2" /\ r.held = text /\ r.shown = text /\ r.pendingCarry /\ ~r.carryOpen
      /\ r.spaceTriggered = s.spaceTriggered /\ r.kanaKanjiOnly = s.kanaKanjiOnly
  BY <1>2 DEF Window, State
<1>5. Window(A, r)
  BY <1>3, <1>4 DEF Window
<1> QED BY <1>4, <1>5 DEF r

LEMMA MergeIs ==
    ASSUME NEW A, Family(A), NEW s, Window(A, s), s.tab = "Layer2"
    PROVE  LET r == MergeLayer2Selection(s)
           IN  /\ Window(A, r) /\ r.tab = "Layer1" /\ r.draft = s.held /\ r.lockedPrefix = s.held
               /\ r.merged /\ ~r.pendingCarry /\ r.shown = s.held /\ r.list = <<s.held>>
               /\ r.clauses = <<>> /\ r.selection = 1
               /\ r.spaceTriggered = s.spaceTriggered /\ r.kanaKanjiOnly = s.kanaKanjiOnly
<1> DEFINE r == MergeLayer2Selection(s)
           held == s.held
           one == <<held>>
           first == 1
<1>1. held \in Texts /\ held \in A /\ held # <<>> /\ A \subseteq Texts
  BY DEF Family, Window
<1>2. r = [s EXCEPT !.draft = held, !.lockedPrefix = held, !.list = one, !.selection = first,
              !.merged = TRUE, !.pendingCarry = FALSE, !.source = held,
              !.tab = "Layer1", !.shown = held]
  BY DEF MergeLayer2Selection
<1> HIDE DEF r, held
<1>3. one \in Seq(Texts) /\ ListOf(A, one) /\ 1 \in DOMAIN one
  <2>1. ListOf(A, one)
    BY <1>1, ListIs
  <2> QED BY <2>1 DEF ListOf
<1>4. first \in 1 .. 2 /\ first = 1
  OBVIOUS
<1> HIDE DEF one, first
<1>5. r \in State
  <2>1. s \in State /\ one \in Seq(Texts) /\ first \in 1 .. 2
    BY <1>3, <1>4 DEF Window
  <2> QED BY <1>1, <1>2, <2>1 DEF State, Tabs
<1>6. /\ r.ui = s.ui /\ r.romaji = s.romaji /\ r.draft = held /\ r.source = held
      /\ r.list = one /\ r.selection = first /\ r.clauses = s.clauses /\ r.merged
      /\ r.tab = "Layer1" /\ r.shown = held /\ ~r.pendingCarry /\ r.lockedPrefix = held
      /\ r.spaceTriggered = s.spaceTriggered /\ r.kanaKanjiOnly = s.kanaKanjiOnly
  BY <1>2 DEF Window, State
<1>7. s.clauses = <<>>
  BY DEF Window
<1>8. Window(A, r)
  BY <1>1, <1>3, <1>4, <1>5, <1>6, <1>7 DEF Window, one
<1> QED BY <1>6, <1>4, <1>7, <1>8 DEF r, held, one

LEMMA TranslationIs ==
    ASSUME NEW A, Family(A), NEW s, s.source \in A
    PROVE  Translation(s) \in A /\ Translation(s) \in Texts
<1>1. "english" \in Forms /\ s.source \in Texts
  BY DEF Family, Forms
<1> QED BY <1>1, FamilyIs DEF Translation, Family

LEMMA SwitchToTranslationIs ==
    ASSUME NEW A, Family(A), NEW s, Window(A, s), s.tab = "Layer2" \/ s.merged, NEW known \in BOOLEAN
    PROVE  LET r == SwitchToTranslationTab(s, known)
           IN  Window(A, r) /\ r.tab = "Translation"
<1> DEFINE from == IF s.tab = "Layer2" THEN s.held ELSE s.source
           asked == [s EXCEPT !.carryOpen = FALSE, !.lockedPrefix = <<>>, !.source = from,
                              !.tab = "Translation", !.pendingCarry = FALSE, !.answered = known]
           r == SwitchToTranslationTab(s, known)
<1>1. from \in A /\ from \in Texts
  BY DEF Window, Family
<1>2. asked = [ClearCarry(s) EXCEPT !.source = IF s.tab = "Layer2" THEN s.held ELSE @,
                                       !.tab = "Translation", !.pendingCarry = FALSE,
                                       !.answered = known]
  BY DEF ClearCarry, Window, State
<1>3. r = IF known THEN [asked EXCEPT !.shown = Translation(asked)] ELSE asked
  BY <1>2 DEF SwitchToTranslationTab
<1> HIDE DEF r, from
<1>4. asked \in State
  BY <1>1, TextsAre DEF Window, State, Tabs
<1>5. /\ asked.ui = s.ui /\ asked.romaji = s.romaji /\ asked.draft = s.draft
      /\ asked.source = from /\ asked.list = s.list /\ asked.selection = s.selection
      /\ asked.clauses = s.clauses /\ asked.merged = s.merged
      /\ asked.tab = "Translation" /\ asked.shown = s.shown /\ (asked.answered <=> known)
  BY DEF Window, State
<1> HIDE DEF asked
<1>6. s.clauses = <<>>
  BY DEF Window
<1>7. CASE known
  <2> DEFINE text == Translation(asked)
  <2>1. text \in A /\ text \in Texts
    BY <1>1, <1>5, TranslationIs
  <2>2. r = [asked EXCEPT !.shown = text]
    BY <1>3, <1>7
  <2> HIDE DEF text
  <2>3. /\ r \in State /\ r.shown = text
        /\ r.ui = asked.ui /\ r.romaji = asked.romaji /\ r.draft = asked.draft
        /\ r.source = asked.source /\ r.list = asked.list /\ r.selection = asked.selection
        /\ r.clauses = asked.clauses /\ r.merged = asked.merged /\ r.tab = asked.tab
    BY <1>4, <2>1, <2>2 DEF State
  <2>4. r.shown = Translation(r)
    BY <2>3 DEF text, Translation
  <2> QED BY <1>1, <1>5, <1>6, <2>1, <2>3, <2>4 DEF Window, r
<1>8. CASE ~known
  BY <1>1, <1>3, <1>4, <1>5, <1>6, <1>8 DEF Window, r
<1> QED BY <1>7, <1>8

\* The next candidate, of the window or of the active clause.
LEMMA MoveIs ==
    ASSUME NEW A, Family(A), NEW s, Window(A, s), s.tab = "Layer1"
    PROVE  LET r == MoveSelection(s)
           IN  Window(A, r) /\ r.tab = "Layer1"
<1> DEFINE next == (s.selection % Len(s.list)) + 1
           clauses == IF s.clauses = <<>> THEN <<>>
                      ELSE [s.clauses EXCEPT ![s.active].index = next]
           moved == [s EXCEPT !.selection = next, !.clauses = clauses]
           r == MoveSelection(s)
<1>1. s \in State /\ ListOf(A, s.list) /\ s.selection \in DOMAIN s.list
  BY DEF Window
<1>2. CASE Len(s.list) = 1
  BY <1>2 DEF MoveSelection
<1>3. CASE Len(s.list) # 1
  <2>1. /\ Len(s.list) = 2 /\ DOMAIN s.list = 1 .. 2 /\ next \in 1 .. 2
        /\ ~s.merged
    <3>1. Len(s.list) = 2 /\ DOMAIN s.list = 1 .. 2
      BY <1>1, <1>3 DEF ListOf
    <3>2. s.selection \in 1 .. 2
      BY <1>1, <3>1
    <3>3. next \in 1 .. 2
      BY <3>1, <3>2
    <3>4. ~s.merged
      <4>1. s.merged => s.list = <<s.draft>>
        BY DEF Window
      <4>2. Len(<<s.draft>>) = 1
        OBVIOUS
      <4> QED BY <1>3, <4>1, <4>2
    <3> QED BY <3>1, <3>3, <3>4
  <2>2. moved = [s EXCEPT !.selection = next,
                           !.clauses = IF @ = <<>> THEN @ ELSE [@ EXCEPT ![s.active].index = next]]
    BY <1>1 DEF State
  <2>3. r = [moved EXCEPT !.shown = ComposedSelection(moved)]
    BY <1>3, <2>2 DEF MoveSelection
  <2>4. s.clauses \in Seq(ClauseTypes) /\ s.active \in 1 .. 2
    BY <1>1 DEF State
  <2>5. /\ clauses \in Seq(ClauseTypes)
        /\ clauses = <<>> <=> s.clauses = <<>>
        /\ s.clauses # <<>> =>
             /\ Len(clauses) = 2
             /\ \A j \in 1 .. 2 :
                   /\ clauses[j].start = s.clauses[j].start /\ clauses[j].list = s.clauses[j].list
                   /\ clauses[j].index = IF j = s.active THEN next ELSE s.clauses[j].index
    <3>1. CASE s.clauses = <<>>
      BY <3>1
    <3>2. CASE s.clauses # <<>>
      <4>1. Len(s.clauses) = 2
        BY <3>2 DEF Window, Segmented
      <4>2. clauses = [s.clauses EXCEPT ![s.active].index = next]
        BY <3>2
      <4> HIDE DEF clauses, next
      <4>3. \A j \in 1 .. 2 : s.clauses[j] \in ClauseTypes
        BY <2>4, <4>1
      <4>4. \A j \in 1 .. 2 :
               clauses[j] = IF j = s.active THEN [s.clauses[j] EXCEPT !.index = next] ELSE s.clauses[j]
        BY <2>4, <4>1, <4>2
      <4>5. \A j \in 1 .. 2 : clauses[j] \in ClauseTypes
                 /\ clauses[j].start = s.clauses[j].start /\ clauses[j].list = s.clauses[j].list
                 /\ clauses[j].index = IF j = s.active THEN next ELSE s.clauses[j].index
        BY <2>1, <4>3, <4>4 DEF ClauseTypes
      <4>6. DOMAIN clauses = 1 .. 2 /\ clauses = [j \in 1 .. 2 |-> clauses[j]]
        BY <2>4, <4>1, <4>2
      <4>7. clauses \in Seq(ClauseTypes) /\ Len(clauses) = 2
        <5>1. \A j \in 1 .. 2 : clauses[j] \in ClauseTypes
          BY <4>5
        <5> QED BY ONLY <4>6, <5>1
      <4>8. clauses # <<>>
        BY ONLY <4>7
      <4> QED BY <3>2, <4>5, <4>7, <4>8
    <3> QED BY <3>1, <3>2
  <2> HIDE DEF next, clauses
  <2>6. moved \in State
    BY <1>1, <2>1, <2>5 DEF State
  <2>7. /\ moved.ui = s.ui /\ moved.tab = s.tab /\ moved.romaji = s.romaji
        /\ moved.draft = s.draft /\ moved.source = s.source /\ moved.list = s.list
        /\ moved.merged = s.merged /\ moved.active = s.active /\ moved.shown = s.shown
        /\ moved.selection = next /\ moved.clauses = clauses
    BY <1>1 DEF State
  <2> HIDE DEF moved
  <2>8. Segmented(s) => Segmented(moved)
    BY <1>1, <2>1, <2>4, <2>5, <2>7 DEF Segmented, From, Piece
  <2>9. Window(A, moved)
    BY <2>1, <2>5, <2>6, <2>7, <2>8 DEF Window
  <2> DEFINE text == ComposedSelection(moved)
  <2>10. text \in A /\ text \in Texts
    BY <2>9, ComposedIs DEF Family
  <2> HIDE DEF text
  <2>11. r = [moved EXCEPT !.shown = text]
    BY <2>3 DEF text
  <2> HIDE DEF r
  <2>12. /\ r \in State /\ r.tab = "Layer1" /\ r.shown = text
         /\ r.ui = moved.ui /\ r.romaji = moved.romaji /\ r.draft = moved.draft
         /\ r.source = moved.source /\ r.list = moved.list /\ r.selection = moved.selection
         /\ r.clauses = moved.clauses /\ r.active = moved.active /\ r.merged = moved.merged
    BY <2>6, <2>7, <2>10, <2>11 DEF State
  <2>13. Window(A, r)
    BY <2>7, <2>9, <2>10, <2>12 DEF Window, Segmented, From, Piece
  <2> QED BY <2>12, <2>13 DEF r
<1> QED BY <1>2, <1>3

\* A change of fields that Window does not speak of.
LEMMA SameWindow ==
    ASSUME NEW A, NEW s, Window(A, s), NEW r \in State,
           r.ui = s.ui, r.tab = s.tab, r.romaji = s.romaji, r.draft = s.draft,
           r.source = s.source, r.list = s.list, r.selection = s.selection,
           r.clauses = s.clauses, r.active = s.active, r.merged = s.merged,
           r.held = s.held, r.answered = s.answered, r.shown = s.shown,
           r.pendingCarry = s.pendingCarry
    PROVE  Window(A, r)
BY DEF Window, Segmented, From, Piece, Translation

LEMMA SelectIs ==
    ASSUME NEW s \in State, NEW other \in 1 .. 2, NEW list \in Seq(Texts), NEW index \in 1 .. 2
    PROVE  [s EXCEPT !.active = other, !.list = list, !.selection = index] \in State
BY DEF State

LEMMA ShownIs ==
    ASSUME NEW s \in State, NEW text \in Texts, NEW r, r = [s EXCEPT !.shown = text]
    PROVE  r \in State
BY DEF State

\* The other clause, with its own list and selection.
LEMMA SegmentIs ==
    ASSUME NEW A, Family(A), NEW s, Window(A, s), s.tab = "Layer1", s.clauses # <<>>,
           NEW other \in 1 .. 2, NEW moved, NEW r,
           moved = [s EXCEPT !.active = other, !.list = s.clauses[other].list,
                             !.selection = s.clauses[other].index],
           r = [moved EXCEPT !.shown = ComposedSelection(moved)]
    PROVE  Window(A, r) /\ r.tab = "Layer1"
<1> DEFINE list == s.clauses[other].list
           index == s.clauses[other].index
           text == ComposedSelection(moved)
<1>1. s \in State /\ Segmented(s) /\ Cuttable(A) /\ s.draft \in A /\ A \subseteq Texts
  BY DEF Window, Family
<1>2. /\ Piece(s, 1) \in Texts /\ Piece(s, 2) \in Texts
      /\ s.draft = SubSeq(s.draft, 1, From(s, 1)) \o (Piece(s, 1) \o Piece(s, 2))
      /\ SubSeq(s.draft, 1, From(s, 1)) \in Texts
      /\ Piece(s, 1) # <<>> /\ Piece(s, 2) # <<>>
  BY <1>1, PiecesAre
<1>3. Piece(s, 1) \in A /\ Piece(s, 2) \in A
  <2> DEFINE head == SubSeq(s.draft, 1, From(s, 1))
             x == Piece(s, 1)
             y == Piece(s, 2)
  <2>1. head \in Texts /\ x \in Texts /\ y \in Texts /\ head \o (x \o y) \in A
    BY <1>1, <1>2
  <2> HIDE DEF head, x, y
  <2>2. x \o y \in Texts
    BY <2>1, TextsAre
  <2>3. x \o y \in A
    BY <1>1, <2>1, <2>2, CuttableIs
  <2>4. x \in A /\ y \in A
    BY <1>1, <2>1, <2>3, CuttableIs
  <2> QED BY <2>4 DEF x, y
<1>4. ListOf(A, list) /\ index \in DOMAIN list
  <2>1. list = Layer1Candidates(Piece(s, other)) /\ index \in DOMAIN list
    BY <1>1 DEF Segmented
  <2>2. Piece(s, other) \in A /\ Piece(s, other) # <<>>
    BY <1>2, <1>3
  <2> QED BY <2>1, <2>2, ListsAre
<1>5. list \in Seq(Texts) /\ index \in 1 .. 2 /\ ~s.merged
  <2>1. list \in Seq(Texts) /\ Len(list) \in 1 .. 2
    BY <1>4 DEF ListOf
  <2>2. index \in 1 .. 2
    BY <1>4, <2>1
  <2> QED BY <1>1, <2>1, <2>2 DEF Segmented
<1>6. moved = [s EXCEPT !.active = other, !.list = list, !.selection = index]
  OBVIOUS
<1> HIDE DEF list, index
<1>7. moved \in State
  <2>1. s \in State /\ list \in Seq(Texts) /\ index \in 1 .. 2
    BY <1>1, <1>5
  <2>2. [s EXCEPT !.active = other, !.list = list, !.selection = index] \in State
    BY <2>1, SelectIs
  <2> QED BY <1>6, <2>2
<1>8. /\ moved.ui = s.ui /\ moved.tab = s.tab /\ moved.romaji = s.romaji
      /\ moved.draft = s.draft /\ moved.source = s.source /\ moved.list = list
      /\ moved.merged = s.merged /\ moved.active = other /\ moved.shown = s.shown
      /\ moved.selection = index /\ moved.clauses = s.clauses
  BY <1>1, <1>6 DEF State
<1>9. Segmented(moved)
  BY <1>1, <1>8 DEF Segmented, From, Piece, list, index
<1>10. Window(A, moved)
  BY <1>1, <1>4, <1>5, <1>7, <1>8, <1>9 DEF Window
<1>11. text \in A /\ text \in Texts
  BY <1>10, ComposedIs DEF Family
<1>12. r = [moved EXCEPT !.shown = text]
  OBVIOUS
<1> HIDE DEF text
<1>13. /\ r \in State /\ r.tab = "Layer1" /\ r.shown = text
       /\ r.ui = moved.ui /\ r.romaji = moved.romaji /\ r.draft = moved.draft
       /\ r.source = moved.source /\ r.list = moved.list /\ r.selection = moved.selection
       /\ r.clauses = moved.clauses /\ r.active = moved.active /\ r.merged = moved.merged
  <2>1. r \in State
    BY <1>7, <1>11, <1>12, ShownIs
  <2>2. moved.tab = "Layer1"
    BY <1>8
  <2>3. r.tab = moved.tab /\ r.shown = text
    BY <1>7, <1>12 DEF State
  <2>4. /\ r.ui = moved.ui /\ r.romaji = moved.romaji /\ r.draft = moved.draft
        /\ r.source = moved.source /\ r.list = moved.list /\ r.selection = moved.selection
        /\ r.clauses = moved.clauses /\ r.active = moved.active /\ r.merged = moved.merged
    BY <1>7, <1>12 DEF State
  <2> QED BY <2>1, <2>2, <2>3, <2>4
<1>14. Window(A, r)
  BY <1>8, <1>10, <1>11, <1>13 DEF Window, Segmented, From, Piece
<1> QED BY <1>13, <1>14

\* Two clauses, if the draft is long enough.
LEMMA InitializeIs ==
    ASSUME NEW A, Family(A), NEW s, Window(A, s), s.tab = "Layer1", ~s.merged,
           s.clauses = <<>>, NEW cut \in 0 .. 2, cut = 0 \/ Cuttable(A)
    PROVE  LET r == InitializeSegmentMode(s, cut)
           IN  /\ Window(A, r) /\ r.tab = "Layer1" /\ ~r.merged /\ r.draft = s.draft
               /\ r.kanaKanjiOnly = s.kanaKanjiOnly
<1> DEFINE floor == IF HasCarry(s) THEN Len(s.lockedPrefix) ELSE 0
           middle == floor + cut
           Clause(from, to) == [start |-> from, index |-> 1,
                                list |-> Layer1Candidates(SubSeq(s.draft, from + 1, to))]
           one == Clause(floor, middle)
           two == Clause(middle, Len(s.draft))
           clauses == <<one, two>>
           list == one.list
           first == 1
           r == InitializeSegmentMode(s, cut)
<1>1. s \in State /\ s.draft \in A /\ A \subseteq Texts
  BY DEF Window, Family
<1>2. CASE cut = 0 \/ middle >= Len(s.draft)
  <2>1. r = s
    BY <1>2 DEF InitializeSegmentMode
  <2> QED BY <2>1
<1>3. CASE cut # 0 /\ ~(middle >= Len(s.draft))
  <2>1. /\ floor \in Nat /\ middle \in Nat /\ Len(s.draft) \in Nat /\ Cuttable(A)
        /\ floor < middle /\ middle < Len(s.draft)
    <3>1. Len(s.lockedPrefix) \in Nat /\ Len(s.draft) \in Nat
      BY <1>1 DEF State, Texts
    <3> QED BY <1>3, <3>1
  <2>2. r = [[s EXCEPT !.clauses = clauses, !.active = first, !.list = list, !.selection = first]
               EXCEPT !.shown = ComposedSelection([s EXCEPT !.clauses = clauses,
                                    !.active = first, !.list = list, !.selection = first])]
    BY <1>3 DEF InitializeSegmentMode
  <2> DEFINE p == SubSeq(s.draft, floor + 1, middle)
             q == SubSeq(s.draft, middle + 1, Len(s.draft))
  <2>3. p \in A /\ q \in A /\ p # <<>> /\ q # <<>>
    <3> DEFINE d == s.draft
               h == SubSeq(d, 1, floor)
    <3>0. floor \in 0 .. Len(d) /\ middle \in floor .. Len(d) /\ d \in Texts
      BY <1>1, <2>1
    <3> HIDE DEF floor, middle, d
    <3>1. /\ SubSeq(d, 1, floor) \in Texts /\ SubSeq(d, floor + 1, middle) \in Texts
          /\ SubSeq(d, middle + 1, Len(d)) \in Texts
          /\ d = SubSeq(d, 1, floor)
                   \o (SubSeq(d, floor + 1, middle) \o SubSeq(d, middle + 1, Len(d)))
          /\ floor < middle => SubSeq(d, floor + 1, middle) # <<>>
          /\ middle < Len(d) => SubSeq(d, middle + 1, Len(d)) # <<>>
      BY <3>0, CutIs
    <3>2. h \in Texts /\ p \in Texts /\ q \in Texts /\ s.draft = h \o (p \o q)
          /\ p # <<>> /\ q # <<>>
      BY <2>1, <3>1 DEF d
    <3> HIDE DEF h, p, q
    <3>3. p \o q \in A /\ p \o q \in Texts
      BY <1>1, <2>1, <3>2, CuttableIs, TextsAre
    <3> QED BY <2>1, <3>2, <3>3, CuttableIs
  <2>4. /\ one = [start |-> floor, index |-> 1, list |-> Layer1Candidates(p)]
        /\ two = [start |-> middle, index |-> 1, list |-> Layer1Candidates(q)]
    OBVIOUS
  <2> HIDE DEF p, q, floor, middle
  <2>5. /\ ListOf(A, Layer1Candidates(p)) /\ ListOf(A, Layer1Candidates(q))
        /\ Layer1Candidates(p) \in Seq(Texts) /\ Layer1Candidates(q) \in Seq(Texts)
        /\ 1 \in DOMAIN Layer1Candidates(p) /\ 1 \in DOMAIN Layer1Candidates(q)
    <3>1. ListOf(A, Layer1Candidates(p)) /\ ListOf(A, Layer1Candidates(q))
      BY <2>3, ListsAre
    <3> QED BY <3>1 DEF ListOf
  <2>6. /\ one \in ClauseTypes /\ two \in ClauseTypes /\ one.start = floor /\ two.start = middle
        /\ one.list = Layer1Candidates(p) /\ two.list = Layer1Candidates(q)
        /\ one.index = 1 /\ two.index = 1
    BY <2>1, <2>4, <2>5 DEF ClauseTypes
  <2>7. list = Layer1Candidates(p)
    BY <2>6
  <2> HIDE DEF one, two, list
  <2>8. /\ clauses \in Seq(ClauseTypes) /\ Len(clauses) = 2 /\ clauses # <<>>
        /\ clauses[1] = one /\ clauses[2] = two
    BY <2>6
  <2>9. first \in 1 .. 2 /\ first = 1
    OBVIOUS
  <2> HIDE DEF clauses, first
  <2> DEFINE t == [s EXCEPT !.clauses = clauses, !.active = first, !.list = list,
                            !.selection = first]
             text == ComposedSelection(t)
  <2>10. list \in Seq(Texts)
    BY <2>5, <2>7
  <2>11. t \in State
    BY <1>1, <2>8, <2>9, <2>10 DEF State
  <2>12. /\ t.ui = s.ui /\ t.tab = s.tab /\ t.romaji = s.romaji
         /\ t.draft = s.draft /\ t.source = s.source /\ t.list = list
         /\ t.merged = s.merged /\ t.active = first /\ t.shown = s.shown
         /\ t.selection = first /\ t.clauses = clauses /\ t.kanaKanjiOnly = s.kanaKanjiOnly
    BY <1>1 DEF State
  <2>13. r = [t EXCEPT !.shown = text]
    BY <2>2
  <2> HIDE DEF t, r, text
  <2>14. Piece(t, 1) = p /\ Piece(t, 2) = q /\ From(t, 1) = floor /\ From(t, 2) = middle
    <3>1. From(t, 1) = floor /\ From(t, 2) = middle /\ t.draft = s.draft
      BY <2>6, <2>8, <2>12 DEF From
    <3>2. Piece(t, 1) = SubSeq(t.draft, From(t, 1) + 1, From(t, 2))
          /\ Piece(t, 2) = SubSeq(t.draft, From(t, 2) + 1, Len(t.draft))
      BY DEF Piece
    <3>3. Piece(t, 1) = SubSeq(s.draft, floor + 1, middle)
          /\ Piece(t, 2) = SubSeq(s.draft, middle + 1, Len(s.draft))
      BY <3>1, <3>2
    <3> QED BY <3>1, <3>3 DEF p, q
  <2>15. Segmented(t)
    <3>1. \A j \in 1 .. 2 : /\ t.clauses[j].list = Layer1Candidates(Piece(t, j))
                            /\ t.clauses[j].index \in DOMAIN t.clauses[j].list
      BY <2>5, <2>6, <2>8, <2>12, <2>14
    <3>2. t.list = t.clauses[t.active].list /\ t.selection = t.clauses[t.active].index
      BY <2>6, <2>7, <2>8, <2>9, <2>12
    <3> QED BY <2>1, <2>8, <2>12, <2>14, <3>1, <3>2 DEF Segmented
  <2>16. Window(A, t)
    BY <2>1, <2>5, <2>7, <2>9, <2>11, <2>12, <2>15 DEF Window
  <2>17. text \in A /\ text \in Texts
    BY <2>16, ComposedIs DEF Family, text
  <2>18. /\ r \in State /\ r.tab = t.tab /\ r.shown = text
         /\ r.ui = t.ui /\ r.romaji = t.romaji /\ r.draft = t.draft
         /\ r.source = t.source /\ r.list = t.list /\ r.selection = t.selection
         /\ r.clauses = t.clauses /\ r.active = t.active /\ r.merged = t.merged
         /\ r.kanaKanjiOnly = t.kanaKanjiOnly
    BY <2>11, <2>13, <2>17 DEF State
  <2>19. Window(A, r)
    BY <2>12, <2>16, <2>17, <2>18 DEF Window, Segmented, From, Piece
  <2> QED BY <2>12, <2>18, <2>19 DEF r
<1> QED BY <1>2, <1>3

\* The candidates of the draft open over it; an empty draft opens nothing.
LEMMA OpenIs ==
    ASSUME NEW A, Family(A), NEW s, Closed(s), s.romaji = <<>>, s.draft \in A, s.shown \in A,
           NEW cut \in 0 .. 2, cut = 0 \/ Cuttable(A)
    PROVE  LET r == OpenCandidateUI(s, cut)
           IN  /\ s.draft = <<>> => /\ Closed(r) /\ r.draft = <<>> /\ r.romaji = <<>>
                                    /\ r.shown = s.shown /\ ~r.carryOpen /\ r.lockedPrefix = <<>>
               /\ s.draft # <<>> => /\ Window(A, r) /\ r.tab = "Layer1" /\ ~r.merged
                                    /\ r.draft = s.draft
               /\ r.kanaKanjiOnly = s.kanaKanjiOnly
<1> DEFINE locked == HasCarry(s) /\ IsPrefix(s.lockedPrefix, s.draft)
           prefix == IF locked THEN s.lockedPrefix ELSE <<>>
           tail == SubSeq(s.draft, Len(prefix) + 1, Len(s.draft))
           list == IF prefix = <<>> THEN Layer1Candidates(s.draft)
                   ELSE LockedCandidates(prefix, tail)
           closed == CloseCandidateUI(s, FALSE)
           carry == prefix # <<>>
           draft == s.draft
           first == list[1]
           t == [closed EXCEPT !.ui = TRUE, !.carryOpen = carry, !.lockedPrefix = prefix,
                               !.list = list, !.source = draft, !.shown = first]
           r == OpenCandidateUI(s, cut)
<1>1. s \in State /\ A \subseteq Texts /\ draft \in Texts /\ draft \in A
  BY DEF Closed, State, Family
<1>2. /\ Closed(closed) /\ closed.draft = s.draft /\ closed.romaji = <<>>
      /\ closed.shown = s.shown /\ closed.kanaKanjiOnly = s.kanaKanjiOnly
      /\ ~closed.carryOpen /\ closed.lockedPrefix = <<>>
  BY <1>1, CloseIs
<1>3. r = IF list = <<>> THEN closed ELSE InitializeSegmentMode(t, cut)
  BY DEF OpenCandidateUI
<1>4. prefix \in Texts /\ (prefix # <<>> => IsPrefix(prefix, draft))
  BY <1>1, TextsAre DEF State
<1> HIDE DEF r, closed, prefix
<1>5. CASE draft = <<>>
  <2>1. prefix = <<>>
    <3> SUFFICES ASSUME prefix # <<>> PROVE FALSE
      OBVIOUS
    <3>1. draft = prefix \o tail /\ tail \in Texts
      BY <1>1, <1>4, PrefixIs
    <3> QED BY <1>4, <1>5, <3>1, TextsAre
  <2>2. list = <<>>
    BY <1>5, <2>1 DEF Layer1Candidates
  <2>3. r = closed
    BY <1>3, <2>2
  <2> QED BY <1>2, <1>5, <2>3 DEF r
<1>6. CASE draft # <<>>
  <2>1. ListOf(A, list)
    <3>1. CASE prefix = <<>>
      <4>1. ListOf(A, Layer1Candidates(draft))
        BY <1>1, <1>6, ListsAre
      <4> QED BY <3>1, <4>1
    <3>2. CASE prefix # <<>>
      <4>1. draft = prefix \o tail /\ tail \in Texts
        BY <1>1, <1>4, <3>2, PrefixIs
      <4> HIDE DEF tail
      <4>2. ListOf(A, LockedCandidates(prefix, tail))
        BY <1>1, <1>4, <3>2, <4>1, LockedListsAre
      <4> QED BY <3>2, <4>2
    <3> QED BY <3>1, <3>2
  <2> HIDE DEF list
  <2>2. /\ list \in Seq(Texts) /\ list # <<>> /\ 1 \in DOMAIN list /\ first \in A /\ first \in Texts
    <3>1. list \in Seq(Texts) /\ Len(list) \in 1 .. 2
      BY <2>1 DEF ListOf
    <3>2. list # <<>> /\ 1 \in DOMAIN list
      BY <3>1
    <3>3. first \in A
      BY <2>1, <3>2 DEF ListOf
    <3> QED BY <1>1, <3>1, <3>2, <3>3
  <2> HIDE DEF first
  <2>3. carry \in BOOLEAN
    OBVIOUS
  <2> HIDE DEF carry
  <2>4. closed \in State
    BY <1>2 DEF Closed
  <2> HIDE DEF draft
  <2>5. t \in State
    BY <1>1, <1>4, <2>2, <2>3, <2>4 DEF State
  <2>6. /\ t.ui /\ t.tab = closed.tab /\ t.romaji = closed.romaji
        /\ t.draft = closed.draft /\ t.source = draft /\ t.list = list
        /\ t.merged = closed.merged /\ t.active = closed.active /\ t.shown = first
        /\ t.selection = closed.selection /\ t.clauses = closed.clauses
        /\ t.kanaKanjiOnly = closed.kanaKanjiOnly
    BY <2>4 DEF State
  <2>7. /\ closed.tab = "Layer1" /\ ~closed.merged /\ closed.selection = 1
        /\ closed.clauses = <<>>
    BY <1>2 DEF Closed
  <2> HIDE DEF t
  <2>8. closed.draft = draft
    BY <1>2 DEF draft
  <2>9. Window(A, t)
    BY <1>1, <1>2, <1>6, <2>1, <2>2, <2>5, <2>6, <2>7, <2>8 DEF Window
  <2> DEFINE u == InitializeSegmentMode(t, cut)
  <2>10. /\ Window(A, u) /\ u.tab = "Layer1" /\ ~u.merged /\ u.draft = t.draft
         /\ u.kanaKanjiOnly = t.kanaKanjiOnly
    BY <2>6, <2>7, <2>9, InitializeIs
  <2>11. r = u
    BY <1>3, <2>2
  <2> HIDE DEF u
  <2> QED BY <1>2, <1>6, <2>6, <2>8, <2>10, <2>11 DEF r, draft
<1>7. draft = s.draft
  OBVIOUS
<1> QED BY <1>5, <1>6

LEMMA PreferIs ==
    ASSUME NEW A, Family(A), NEW s, Window(A, s), s.tab = "Layer1", ~s.merged
    PROVE  Window(A, PreferRawReading(s))
<1> DEFINE list == Layer1Candidates(s.draft)
           last == Len(list)
           draft == s.draft
           none == <<>>
           r == PreferRawReading(s)
<1>1. s \in State /\ draft \in A /\ draft # <<>> /\ draft \in Texts
  BY DEF Window, Family
<1>2. CASE ~(HasKanji(s.draft) /\ ~HasCarry(s))
  BY <1>2 DEF PreferRawReading
<1>3. CASE HasKanji(s.draft) /\ ~HasCarry(s)
  <2>1. r = [s EXCEPT !.clauses = none, !.list = list, !.selection = last, !.shown = draft]
    BY <1>3 DEF PreferRawReading
  <2>2. ListOf(A, list)
    BY <1>1, ListsAre
  <2> HIDE DEF list, r, draft
  <2>3. list \in Seq(Texts) /\ last \in 1 .. 2 /\ last \in DOMAIN list
        /\ none \in Seq(ClauseTypes) /\ none = <<>>
    BY <2>2 DEF ListOf
  <2> HIDE DEF last, none
  <2>4. r \in State
    BY <1>1, <2>1, <2>3 DEF State
  <2>5. /\ r.ui = s.ui /\ r.tab = s.tab /\ r.romaji = s.romaji
        /\ r.draft = s.draft /\ r.source = s.source /\ r.list = list
        /\ r.merged = s.merged /\ r.shown = draft /\ r.selection = last /\ r.clauses = none
    BY <1>1, <2>1 DEF State
  <2>6. Window(A, r)
    BY <1>1, <2>2, <2>3, <2>4, <2>5 DEF Window
  <2> QED BY <2>6 DEF r
<1> QED BY <1>2, <1>3

-----------------------------------------------------------------------------
\* Typing on, and going back.

\* What is left of Window while the candidates are being left.
Holds(A, s) ==
    /\ s \in State /\ s.ui /\ s.romaji = <<>> /\ s.draft \in A /\ s.draft # <<>>
    /\ HasPendingCarry(s) => s.held \in A /\ s.held # <<>>

\* What the new draft begins with.
Kept(s) ==
    IF s.tab = "Layer2" THEN s.held
    ELSE IF s.tab = "Layer1" /\ s.spaceTriggered THEN ComposedSelection(s)
    ELSE s.draft

LEMMA FinalizeIs ==
    ASSUME NEW A, Family(A), NEW s, Holds(A, s)
    PROVE  LET r == FinalizeLayer2BeforeNewInput(s)
           IN  /\ Holds(A, r) /\ ~HasPendingCarry(r)
               /\ r.draft = IF HasPendingCarry(s) THEN s.held ELSE s.draft
               /\ HasPendingCarry(s) => HasCarry(r)
               /\ r.kanaKanjiOnly = s.kanaKanjiOnly /\ r.spaceTriggered = s.spaceTriggered
               /\ r.tab = IF HasPendingCarry(s) THEN "Layer1" ELSE s.tab
<1> DEFINE r == FinalizeLayer2BeforeNewInput(s)
<1>0. s \in State
  BY DEF Holds
<1>1. CASE HasPendingCarry(s)
  <2> DEFINE held == s.held
             one == <<held>>
             first == 1
  <2>1. held \in Texts /\ held \in A /\ held # <<>>
    BY <1>1 DEF Holds, Family
  <2>2. one \in Seq(Texts) /\ first \in 1 .. 2
    BY <2>1
  <2> DEFINE m == [s EXCEPT !.draft = held, !.lockedPrefix = held, !.list = one,
                     !.selection = first, !.merged = TRUE, !.pendingCarry = FALSE,
                     !.source = held, !.tab = "Layer1", !.shown = held, !.carryOpen = TRUE]
  <2>3. r = [m EXCEPT !.merged = FALSE]
    <3>1. m = [MergeLayer2Selection(s) EXCEPT !.carryOpen = TRUE]
      BY DEF MergeLayer2Selection
    <3>2. s.ui /\ m.carryOpen
      BY <1>0 DEF Holds, State
    <3>3. [m EXCEPT !.carryOpen = TRUE, !.merged = FALSE] = [m EXCEPT !.merged = FALSE]
      BY <1>0 DEF State
    <3> HIDE DEF m
    <3> QED BY <1>1, <3>1, <3>2, <3>3 DEF FinalizeLayer2BeforeNewInput
  <2> HIDE DEF r, held, one, first
  <2>4. r \in State
    BY <1>0, <2>1, <2>2, <2>3 DEF State, Tabs
  <2>5. /\ r.draft = held /\ r.lockedPrefix = held /\ ~r.merged /\ ~r.pendingCarry
        /\ r.tab = "Layer1" /\ r.carryOpen /\ r.ui = s.ui /\ r.romaji = s.romaji
        /\ r.kanaKanjiOnly = s.kanaKanjiOnly /\ r.spaceTriggered = s.spaceTriggered
    BY <1>0, <2>3 DEF State
  <2> QED BY <1>1, <2>1, <2>4, <2>5 DEF Holds, HasPendingCarry, HasCarry, r, held
<1>2. CASE ~HasPendingCarry(s)
  <2>1. r = s \/ r = [s EXCEPT !.carryOpen = TRUE, !.merged = FALSE]
    BY <1>2 DEF FinalizeLayer2BeforeNewInput
  <2> HIDE DEF r
  <2>2. /\ r \in State /\ r.draft = s.draft /\ r.pendingCarry = s.pendingCarry
        /\ r.tab = s.tab /\ r.ui = s.ui /\ r.romaji = s.romaji
        /\ r.kanaKanjiOnly = s.kanaKanjiOnly /\ r.spaceTriggered = s.spaceTriggered
    BY <1>0, <2>1 DEF State
  <2> QED BY <1>2, <2>2 DEF Holds, HasPendingCarry, r
<1> QED BY <1>1, <1>2

LEMMA WindowHolds ==
    ASSUME NEW A, NEW s, Window(A, s)
    PROVE  Holds(A, s) /\ (HasPendingCarry(s) <=> s.tab = "Layer2")
BY DEF Window, Holds, HasPendingCarry

LEMMA PromoteIs ==
    ASSUME NEW A, Family(A), NEW s, Window(A, s), s.spaceTriggered
    PROVE  LET r == PromoteLayer1(s)
           IN  /\ Holds(A, r) /\ ~HasPendingCarry(r) /\ ~r.spaceTriggered
               /\ s.kanaKanjiOnly \/ r.draft = Kept(s)
               /\ r.kanaKanjiOnly = s.kanaKanjiOnly
<1> DEFINE counts == s.ui /\ s.tab = "Layer1" /\ ~IsMerged(s)
           u == [s EXCEPT !.spaceTriggered = FALSE]
           chosen == ComposedSelection(s)
           l == IF counts /\ SupportsLayer2(s) THEN SwitchToLayer2FromLayer1(u, chosen) ELSE u
           final == FinalizeLayer2BeforeNewInput(l)
           locked == IF counts THEN chosen ELSE final.draft
           r == PromoteLayer1(s)
<1>1. r = IF HasCarry(final) \/ locked = <<>> THEN final
          ELSE [final EXCEPT !.draft = locked, !.lockedPrefix = locked, !.carryOpen = TRUE,
                             !.merged = FALSE, !.pendingCarry = FALSE, !.source = locked]
  BY DEF PromoteLayer1
<1>2. s \in State /\ s.ui /\ chosen \in A /\ chosen # <<>> /\ chosen \in Texts
  BY ComposedIs DEF Window, Family
<1> HIDE DEF chosen, r
<1>3. /\ u \in State /\ u.ui = s.ui /\ u.tab = s.tab /\ u.romaji = s.romaji /\ u.draft = s.draft
      /\ u.source = s.source /\ u.list = s.list /\ u.selection = s.selection
      /\ u.clauses = s.clauses /\ u.active = s.active /\ u.merged = s.merged
      /\ u.held = s.held /\ u.answered = s.answered /\ u.shown = s.shown
      /\ u.pendingCarry = s.pendingCarry /\ u.kanaKanjiOnly = s.kanaKanjiOnly
      /\ ~u.spaceTriggered
  BY <1>2 DEF State
<1> HIDE DEF u
<1>4. Window(A, u)
  BY <1>3, SameWindow
<1>5. /\ Holds(A, l) /\ ~l.spaceTriggered /\ l.kanaKanjiOnly = s.kanaKanjiOnly
      /\ (HasPendingCarry(l) <=> l.tab = "Layer2")
      /\ IF counts /\ SupportsLayer2(s) THEN l.tab = "Layer2" /\ l.held = chosen
         ELSE l.tab = s.tab /\ l.held = s.held /\ l.draft = s.draft
  <2>1. CASE counts /\ SupportsLayer2(s)
    <3> DEFINE w == SwitchToLayer2FromLayer1(u, chosen)
    <3>1. Window(A, w) /\ w.tab = "Layer2" /\ w.held = chosen
          /\ w.spaceTriggered = u.spaceTriggered /\ w.kanaKanjiOnly = u.kanaKanjiOnly
      BY <1>2, <1>4, SwitchIs
    <3>2. l = w
      BY <2>1
    <3> HIDE DEF w, l
    <3>3. Holds(A, w) /\ (HasPendingCarry(w) <=> w.tab = "Layer2")
      BY <3>1, WindowHolds
    <3> QED BY <1>3, <2>1, <3>1, <3>2, <3>3
  <2>2. CASE ~(counts /\ SupportsLayer2(s))
    <3>1. l = u
      BY <2>2
    <3>2. Holds(A, u) /\ (HasPendingCarry(u) <=> u.tab = "Layer2")
      BY <1>4, WindowHolds
    <3> QED BY <1>3, <2>2, <3>1, <3>2
  <2> QED BY <2>1, <2>2
<1> HIDE DEF l
<1>6. /\ Holds(A, final) /\ ~HasPendingCarry(final) /\ ~final.spaceTriggered
      /\ final.draft = IF HasPendingCarry(l) THEN l.held ELSE l.draft
      /\ HasPendingCarry(l) => HasCarry(final)
      /\ final.kanaKanjiOnly = s.kanaKanjiOnly
  BY <1>5, FinalizeIs
<1>7. final.tab = IF l.tab = "Layer2" THEN "Layer1" ELSE l.tab
  BY <1>5, FinalizeIs
<1> HIDE DEF final
<1>8. final \in State /\ final.ui /\ final.romaji = <<>> /\ final.draft \in A /\ final.draft # <<>>
      /\ final.draft \in Texts
  BY <1>6 DEF Holds, Family
<1>9. locked \in A /\ locked # <<>> /\ locked \in Texts
  BY <1>2, <1>8
<1>10. s.tab = "Layer1" /\ ~counts => chosen = s.draft
  <2>1. s.tab = "Layer1" /\ ~counts => s.list = <<s.draft>> /\ s.clauses = <<>>
    BY <1>2 DEF Window, IsMerged
  <2>2. s.selection \in DOMAIN s.list
    BY DEF Window
  <2>3. DOMAIN <<s.draft>> = {1} /\ <<s.draft>>[1] = s.draft
    OBVIOUS
  <2> QED BY <2>1, <2>2, <2>3 DEF ComposedSelection, chosen
<1>11. s.kanaKanjiOnly \/ (locked = Kept(s) /\ (HasCarry(final) => final.draft = Kept(s)))
  <2>1. CASE counts /\ SupportsLayer2(s)
    BY <1>5, <1>6, <2>1 DEF Kept, chosen
  <2>2. CASE counts /\ ~SupportsLayer2(s)
    BY <2>2 DEF SupportsLayer2
  <2>3. CASE ~counts
    <3>1. final.draft = IF s.tab = "Layer2" THEN s.held ELSE s.draft
      BY <1>5, <1>6, <2>3
    <3>2. locked = final.draft
      BY <2>3
    <3> QED BY <1>10, <3>1, <3>2 DEF Kept, chosen
  <2> QED BY <2>1, <2>2, <2>3
<1>12. CASE HasCarry(final)
  <2>1. r = final
    BY <1>1, <1>12
  <2> QED BY <1>6, <1>11, <1>12, <2>1 DEF r
<1>13. CASE ~HasCarry(final)
  <2> HIDE DEF locked
  <2>1. r = [final EXCEPT !.draft = locked, !.lockedPrefix = locked, !.carryOpen = TRUE,
                             !.merged = FALSE, !.pendingCarry = FALSE, !.source = locked]
    BY <1>1, <1>9, <1>13
  <2>2. r \in State
    BY <1>8, <1>9, <2>1 DEF State
  <2>3. /\ r.draft = locked /\ ~r.pendingCarry /\ r.ui = final.ui /\ r.romaji = final.romaji
        /\ r.spaceTriggered = final.spaceTriggered /\ r.kanaKanjiOnly = final.kanaKanjiOnly
    BY <1>8, <2>1 DEF State
  <2> QED BY <1>6, <1>8, <1>9, <1>11, <2>2, <2>3 DEF Holds, HasPendingCarry, r
<1> QED BY <1>12, <1>13

\* A text key closes the candidates; what it leaves stands for what was typed.
LEMMA LeaveIs ==
    ASSUME NEW A, Family(A), NEW s, Good(A, s)
    PROVE  LET r == LeaveCandidates(s)
           IN  /\ Closed(r) /\ PreeditText(r) \in A /\ r.kanaKanjiOnly = s.kanaKanjiOnly
               /\ r.romaji = IF s.ui THEN <<>> ELSE s.romaji
               /\ s.ui /\ (s.tab = "Layer2" \/ s.spaceTriggered) =>
                     s.kanaKanjiOnly \/ r.draft = Kept(s)
<1> DEFINE p == IF s.spaceTriggered THEN PromoteLayer1(s) ELSE s
           q == PromoteLayer1(p)
           r == LeaveCandidates(s)
<1>1. r = IF p.ui THEN CloseCandidateUI(q, TRUE) ELSE p
  BY DEF LeaveCandidates
<1>2. CASE Window(A, s)
  <2>1. Holds(A, s) /\ (HasPendingCarry(s) <=> s.tab = "Layer2") /\ s.ui
    BY <1>2, WindowHolds DEF Window
  <2>2. /\ Holds(A, p) /\ ~p.spaceTriggered /\ p.kanaKanjiOnly = s.kanaKanjiOnly
        /\ s.spaceTriggered => ~HasPendingCarry(p) /\ (s.kanaKanjiOnly \/ p.draft = Kept(s))
    <3>1. CASE s.spaceTriggered
      <4> DEFINE w == PromoteLayer1(s)
      <4>1. /\ Holds(A, w) /\ ~HasPendingCarry(w) /\ ~w.spaceTriggered
            /\ s.kanaKanjiOnly \/ w.draft = Kept(s)
            /\ w.kanaKanjiOnly = s.kanaKanjiOnly
        BY <1>2, <3>1, PromoteIs
      <4>2. p = w
        BY <3>1
      <4> HIDE DEF w, p
      <4> QED BY <4>1, <4>2
    <3>2. CASE ~s.spaceTriggered
      BY <2>1, <3>2
    <3> QED BY <3>1, <3>2
  <2>3. ~s.spaceTriggered => p = s
    OBVIOUS
  <2>4. q = FinalizeLayer2BeforeNewInput(p)
    BY <2>2 DEF PromoteLayer1
  <2> HIDE DEF p, q, r
  <2>5. /\ Holds(A, q) /\ q.draft = IF HasPendingCarry(p) THEN p.held ELSE p.draft
        /\ q.kanaKanjiOnly = p.kanaKanjiOnly
    BY <2>2, <2>4, FinalizeIs
  <2>6. q \in State /\ q.draft \in A /\ q.draft # <<>> /\ q.romaji = <<>> /\ q.draft \in Texts
    BY <2>5 DEF Holds, Family
  <2> DEFINE w == CloseCandidateUI(q, TRUE)
  <2>7. /\ Closed(w) /\ w.draft = q.draft /\ w.romaji = q.romaji
        /\ w.kanaKanjiOnly = q.kanaKanjiOnly
    BY <2>6, CloseIs
  <2>8. r = w
    BY <1>1, <2>2 DEF Holds
  <2> HIDE DEF w
  <2>9. PreeditText(r) = q.draft
    <3>1. r.draft = q.draft /\ r.romaji = <<>> /\ r.draft \in Texts
      BY <2>6, <2>7, <2>8
    <3> QED BY <3>1, NoLetters
  <2>10. (s.tab = "Layer2" \/ s.spaceTriggered) => s.kanaKanjiOnly \/ q.draft = Kept(s)
    <3>1. CASE s.spaceTriggered
      BY <2>2, <2>5, <3>1
    <3>2. CASE ~s.spaceTriggered
      BY <2>1, <2>3, <2>5, <3>2 DEF Kept
    <3> QED BY <3>1, <3>2
  <2> QED BY <2>1, <2>2, <2>5, <2>6, <2>7, <2>8, <2>9, <2>10 DEF r
<1>3. CASE Draft(A, s)
  <2>1. ~s.ui /\ ~s.spaceTriggered /\ Closed(s) /\ PreeditText(s) \in A
    BY <1>3 DEF Draft, Closed
  <2>2. p = s
    BY <2>1
  <2>3. r = s
    BY <1>1, <2>1, <2>2
  <2> HIDE DEF r
  <2> QED BY <2>1, <2>3 DEF r
<1> QED BY <1>2, <1>3 DEF Good

\* An empty preedit ends the composition.
LEMMA ShowOrCancelIs ==
    ASSUME NEW A, NEW s, Closed(s), PreeditText(s) \in A
    PROVE  Draft(A, ShowOrCancel(s)) /\ ShowOrCancel(s).romaji \in {<<>>, s.romaji}
<1>1. CASE PreeditText(s) = <<>>
  <2>1. s \in State /\ <<>> \in A
    BY <1>1 DEF Closed
  <2> QED BY <1>1, <2>1, EndDraft, EndIs DEF ShowOrCancel
<1>2. CASE PreeditText(s) # <<>>
  BY <1>2, ShowDraft, ShowIs DEF ShowOrCancel
<1> QED BY <1>1, <1>2

\* Backspace takes one character off the end of the preedit.
LEMMA PopIs ==
    ASSUME NEW s, Closed(s), PreeditText(s) # <<>>
    PROVE  LET r == PopCharacter(s)
               c == IF s.romaji # <<>> THEN Last(s.romaji) ELSE Last(s.draft)
           IN  /\ Closed(r) /\ c \in Chars /\ PreeditText(r) \in Texts
               /\ PreeditText(s) = PreeditText(r) \o <<c>>
               /\ s.romaji # <<>> => r.romaji = Front(s.romaji)
               /\ s.romaji = <<>> => r.romaji = <<>>
<1> DEFINE r == PopCharacter(s)
<1>0. s \in State /\ s.draft \in Texts /\ s.romaji \in Texts /\ s.lockedPrefix \in Texts
  BY DEF Closed, State
<1>1. CASE s.romaji # <<>>
  <2> DEFINE letters == Front(s.romaji)
             c == Last(s.romaji)
  <2>1. letters \in Texts /\ c \in Chars /\ s.romaji = letters \o <<c>> /\ <<c>> \in Texts
    BY <1>0, <1>1, FrontIs, TextsAre
  <2>2. r = [s EXCEPT !.romaji = letters]
    BY <1>0, <1>1 DEF PopCharacter, State
  <2>3. c = IF s.romaji # <<>> THEN Last(s.romaji) ELSE Last(s.draft)
    BY <1>1
  <2>4. letters = Front(s.romaji)
    OBVIOUS
  <2> HIDE DEF letters, c, r
  <2>5. Closed(r) /\ r.draft = s.draft /\ r.romaji = letters
    BY <1>0, <2>1, <2>2 DEF Closed, State
  <2>6. s.draft \o s.romaji = (s.draft \o letters) \o <<c>> /\ s.draft \o letters \in Texts
    <3> DEFINE draft == s.draft
    <3>1. draft \in Texts
      BY <1>0
    <3> HIDE DEF draft
    <3>2. (draft \o letters) \o <<c>> = draft \o (letters \o <<c>>) /\ draft \o letters \in Texts
      BY <2>1, <3>1, Regroup
    <3> QED BY <2>1, <3>2 DEF draft
  <2> QED BY <1>1, <2>1, <2>3, <2>4, <2>5, <2>6 DEF PreeditText, r
<1>2. CASE s.romaji = <<>>
  <2> DEFINE draft == Front(s.draft)
             c == Last(s.draft)
             prefix == IF IsPrefix(s.lockedPrefix, draft) THEN s.lockedPrefix
                       ELSE Front(s.lockedPrefix)
  <2>1. s.draft # <<>>
    BY <1>0, <1>2, TextsAre DEF PreeditText
  <2>2. draft \in Texts /\ c \in Chars /\ s.draft = draft \o <<c>> /\ <<c>> \in Texts
    BY <1>0, <2>1, FrontIs, TextsAre
  <2>3. HasCarry(s) => prefix \in Texts
    BY <1>0, FrontIs DEF HasCarry
  <2>4. \/ r = [s EXCEPT !.draft = draft]
        \/ HasCarry(s) /\ r = [s EXCEPT !.draft = draft, !.lockedPrefix = prefix]
        \/ HasCarry(s) /\ r = [s EXCEPT !.draft = draft, !.lockedPrefix = <<>>, !.carryOpen = FALSE]
    <3>1. ClearCarry([s EXCEPT !.draft = draft, !.lockedPrefix = prefix])
            = [s EXCEPT !.draft = draft, !.lockedPrefix = <<>>, !.carryOpen = FALSE]
      BY <1>0 DEF ClearCarry, State
    <3> HIDE DEF draft
    <3> QED BY <1>2, <3>1 DEF PopCharacter, draft
  <2>5. c = IF s.romaji # <<>> THEN Last(s.romaji) ELSE Last(s.draft)
    BY <1>2
  <2> HIDE DEF draft, c, r, prefix
  <2>6. Closed(r) /\ r.draft = draft /\ r.romaji = <<>>
    <3>1. <<>> \in Texts
      BY TextsAre
    <3>2. CASE r = [s EXCEPT !.draft = draft]
      BY <1>0, <1>2, <2>2, <3>2 DEF Closed, State
    <3>3. CASE HasCarry(s) /\ r = [s EXCEPT !.draft = draft, !.lockedPrefix = prefix]
      BY <1>0, <1>2, <2>2, <2>3, <3>3 DEF Closed, State
    <3>4. CASE r = [s EXCEPT !.draft = draft, !.lockedPrefix = <<>>, !.carryOpen = FALSE]
      BY <1>0, <1>2, <2>2, <3>1, <3>4 DEF Closed, State
    <3> QED BY <2>4, <3>2, <3>3, <3>4
  <2>7. s.draft \o s.romaji = (draft \o <<>>) \o <<c>> /\ draft \o <<>> \in Texts
    BY <1>2, <2>2, TextsAre
  <2> QED BY <1>2, <2>2, <2>5, <2>6, <2>7 DEF PreeditText, r
<1> QED BY <1>1, <1>2

-----------------------------------------------------------------------------
\* The keys: each leaves a good state, or commits a text of A and ends.

Staying(A) ==
    /\ Window(A, ime') \/ (Draft(A, ime') /\ ime'.romaji \in {<<>>, ime.romaji})
    /\ UNCHANGED <<document, typed, pressed>>

Committing(A) ==
    /\ \E text \in A : document' = document \o text
    /\ ime' = EndComposition(ime) /\ UNCHANGED <<typed, pressed>>

Ending ==
    /\ ime' = EndComposition(ime) /\ document' = document
    /\ typed' = Keystrokes(document) /\ pressed' = pressed

\* The pending letters can be finished without loss, and the draft is cut into
\* clauses only where a part of a text of A is in A.
Ready(A) ==
    /\ Family(A) /\ Good(A, ime)
    /\ ~ime.ui => FlushRomaji(ime).draft \in A
    /\ Cuttable(A) \/ Cuts = {0}

LEMMA GoodIs ==
    ASSUME NEW A, Family(A), NEW s, Good(A, s)
    PROVE  /\ s \in State /\ s.shown \in A /\ PreeditText(s) \in A
           /\ s.ui => Window(A, s) /\ PreeditText(s) = s.draft /\ s.draft # <<>>
           /\ ~s.ui => Draft(A, s) /\ Closed(s)
<1>1. CASE Window(A, s)
  <2>1. s \in State /\ s.romaji = <<>> /\ s.ui /\ s.shown \in A /\ s.draft \in A /\ s.draft # <<>>
    BY <1>1 DEF Window
  <2>2. PreeditText(s) = s.draft
    BY <2>1, NoLetters DEF Family
  <2> QED BY <1>1, <2>1, <2>2
<1>2. CASE Draft(A, s)
  BY <1>2 DEF Draft, Closed
<1> QED BY <1>1, <1>2 DEF Good

\* Space and Enter on the draft: its letters are finished, and the candidates open.
LEMMA OpenDraft ==
    ASSUME NEW A, Family(A), NEW s, Draft(A, s), FlushRomaji(s).draft \in A,
           NEW cut \in 0 .. 2, cut = 0 \/ Cuttable(A)
    PROVE  LET flushed == FlushRomaji(s)
               r == OpenCandidateUI(ShowPreedit(flushed), cut)
           IN  /\ r.ui => Window(A, r) /\ r.tab = "Layer1" /\ ~r.merged /\ flushed.draft # <<>>
               /\ ~r.ui => Draft(A, r) /\ r.romaji = <<>>
               /\ r.kanaKanjiOnly = s.kanaKanjiOnly
<1> DEFINE flushed == FlushRomaji(s)
           t == ShowPreedit(flushed)
           r == OpenCandidateUI(t, cut)
<1>1. /\ Closed(flushed) /\ flushed.romaji = <<>> /\ flushed.kanaKanjiOnly = s.kanaKanjiOnly
      /\ PreeditText(flushed) = flushed.draft
  BY FlushIs DEF Draft
<1>2. flushed.draft \in A
  OBVIOUS
<1> HIDE DEF flushed
<1>3. /\ Closed(t) /\ t.draft = flushed.draft /\ t.romaji = <<>> /\ t.shown = flushed.draft
      /\ t.kanaKanjiOnly = s.kanaKanjiOnly
  BY <1>1, ShowIs
<1> HIDE DEF t
<1>4. /\ t.draft = <<>> => /\ Closed(r) /\ r.draft = <<>> /\ r.romaji = <<>>
                           /\ r.shown = t.shown /\ ~r.carryOpen /\ r.lockedPrefix = <<>>
      /\ t.draft # <<>> => /\ Window(A, r) /\ r.tab = "Layer1" /\ ~r.merged
                           /\ r.draft = t.draft
      /\ r.kanaKanjiOnly = t.kanaKanjiOnly
  BY <1>2, <1>3, OpenIs
<1> HIDE DEF r
<1>5. CASE t.draft = <<>>
  <2>1. /\ Closed(r) /\ r.draft = <<>> /\ r.romaji = <<>> /\ r.shown = <<>>
        /\ ~r.carryOpen /\ r.lockedPrefix = <<>> /\ ~r.ui /\ <<>> \in A
    BY <1>2, <1>3, <1>4, <1>5 DEF Closed
  <2>2. PreeditText(r) = <<>>
    BY <2>1, NoLetters, TextsAre
  <2> QED BY <1>3, <1>4, <2>1, <2>2 DEF Draft, r, t, flushed
<1>6. CASE t.draft # <<>>
  <2>1. Window(A, r) /\ r.tab = "Layer1" /\ ~r.merged /\ r.ui
    BY <1>4, <1>6 DEF Window
  <2> QED BY <1>3, <1>4, <1>6, <2>1 DEF r, t, flushed
<1> QED BY <1>5, <1>6

LEMMA CutsAre ==
    ASSUME NEW A, Ready(A), NEW cut \in Cuts
    PROVE  cut \in 0 .. 2 /\ (cut = 0 \/ Cuttable(A))
BY DEF Ready, Cuts

LEMMA SpaceDraftStays ==
    ASSUME NEW A, Ready(A), NEW cut \in Cuts, SpaceDraft(cut)
    PROVE  Staying(A)
<1> DEFINE opened == OpenCandidateUI(ShowPreedit(FlushRomaji(ime)), cut)
           marked == [opened EXCEPT !.spaceTriggered = TRUE]
<1>1. Family(A) /\ Draft(A, ime) /\ FlushRomaji(ime).draft \in A
  BY GoodIs DEF Ready, SpaceDraft
<1>2. /\ opened.ui => Window(A, opened) /\ opened.tab = "Layer1" /\ ~opened.merged
      /\ ~opened.ui => Draft(A, opened) /\ opened.romaji = <<>>
  BY <1>1, CutsAre, OpenDraft
<1>3. /\ ime' = IF opened.ui THEN PreferRawReading(marked) ELSE opened
      /\ UNCHANGED <<document, typed, pressed>>
  BY DEF SpaceDraft, Step
<1> HIDE DEF opened
<1>4. CASE opened.ui
  <2>1. opened \in State
    BY <1>2, <1>4 DEF Window
  <2>2. /\ marked \in State /\ marked.ui = opened.ui /\ marked.tab = opened.tab
        /\ marked.romaji = opened.romaji /\ marked.draft = opened.draft
        /\ marked.source = opened.source /\ marked.list = opened.list
        /\ marked.selection = opened.selection /\ marked.clauses = opened.clauses
        /\ marked.active = opened.active /\ marked.merged = opened.merged
        /\ marked.held = opened.held /\ marked.answered = opened.answered
        /\ marked.shown = opened.shown /\ marked.pendingCarry = opened.pendingCarry
    BY <2>1 DEF State
  <2> HIDE DEF marked
  <2>3. Window(A, marked)
    BY <1>2, <1>4, <2>2, SameWindow
  <2>4. Window(A, PreferRawReading(marked))
    BY <1>1, <1>2, <1>4, <2>2, <2>3, PreferIs
  <2> QED BY <1>3, <1>4, <2>4 DEF Staying
<1>5. CASE ~opened.ui
  BY <1>2, <1>3, <1>5 DEF Staying
<1> QED BY <1>4, <1>5

LEMMA EnterDraftStays ==
    ASSUME NEW A, Ready(A), NEW cut \in Cuts, EnterDraft(cut)
    PROVE  Staying(A) \/ Committing(A)
<1> DEFINE flushed == FlushRomaji(ime)
           opened == OpenCandidateUI(ShowPreedit(flushed), cut)
           layer2 == SwitchToLayer2FromLayer1(opened, flushed.draft)
<1>1. Family(A) /\ Draft(A, ime) /\ flushed.draft \in A
  BY GoodIs DEF Ready, EnterDraft
<1>2. opened.ui => Window(A, opened) /\ flushed.draft # <<>>
  BY <1>1, CutsAre, OpenDraft
<1>3. /\ IF ~opened.ui THEN Commit(flushed.draft)
         ELSE IF SupportsLayer2(ime) THEN Step(layer2)
         ELSE Commit(ComposedSelection(opened))
      /\ UNCHANGED <<typed, pressed>>
  BY DEF EnterDraft
<1> HIDE DEF flushed, opened
<1>4. CASE ~opened.ui
  BY <1>1, <1>3, <1>4 DEF Committing, Commit
<1>5. CASE opened.ui /\ SupportsLayer2(ime)
  <2>1. Window(A, layer2)
    BY <1>1, <1>2, <1>5, SwitchIs
  <2> HIDE DEF layer2
  <2> QED BY <1>3, <1>5, <2>1 DEF Staying, Step
<1>6. CASE opened.ui /\ ~SupportsLayer2(ime)
  <2>1. ComposedSelection(opened) \in A
    BY <1>1, <1>2, <1>6, ComposedIs
  <2> QED BY <1>3, <1>6, <2>1 DEF Committing, Commit
<1> QED BY <1>4, <1>5, <1>6

LEMMA SpaceCandidatesStays ==
    ASSUME NEW A, Ready(A), NEW known \in BOOLEAN, SpaceCandidates(known)
    PROVE  Staying(A)
<1> DEFINE mark == ime.spaceTriggered \/ ime.tab = "Layer1"
           marked == [ime EXCEPT !.spaceTriggered = mark]
           translatable == SupportsTranslation(ime) /\ (IsMerged(ime) \/ ime.tab = "Layer2")
<1>1. Family(A) /\ Window(A, ime) /\ ime \in State
  BY GoodIs DEF Ready, SpaceCandidates
<1>2. /\ ime' = IF translatable THEN SwitchToTranslationTab(marked, known)
                ELSE IF ime.tab = "Layer1" THEN MoveSelection(marked)
                ELSE marked
      /\ UNCHANGED <<document, typed, pressed>>
  BY <1>1 DEF SpaceCandidates, Step, State
<1>3. mark \in BOOLEAN
  OBVIOUS
<1> HIDE DEF mark
<1>4. /\ marked \in State /\ marked.ui = ime.ui /\ marked.tab = ime.tab
      /\ marked.romaji = ime.romaji /\ marked.draft = ime.draft
      /\ marked.source = ime.source /\ marked.list = ime.list
      /\ marked.selection = ime.selection /\ marked.clauses = ime.clauses
      /\ marked.active = ime.active /\ marked.merged = ime.merged
      /\ marked.held = ime.held /\ marked.answered = ime.answered
      /\ marked.shown = ime.shown /\ marked.pendingCarry = ime.pendingCarry
  BY <1>1, <1>3 DEF State
<1> HIDE DEF marked
<1>5. Window(A, marked)
  BY <1>1, <1>4, SameWindow
<1>6. translatable => Window(A, SwitchToTranslationTab(marked, known))
  <2>1. translatable => marked.tab = "Layer2" \/ marked.merged
    BY <1>4 DEF IsMerged
  <2> QED BY <1>1, <1>5, <2>1, SwitchToTranslationIs
<1>7. ime.tab = "Layer1" => Window(A, MoveSelection(marked))
  BY <1>1, <1>4, <1>5, MoveIs
<1> HIDE DEF translatable
<1> QED BY <1>2, <1>5, <1>6, <1>7 DEF Staying

LEMMA AskAgainStays ==
    ASSUME NEW A, Ready(A), AskAgain
    PROVE  Staying(A)
<1> DEFINE r == [ime EXCEPT !.answered = FALSE]
<1>1. Window(A, ime) /\ ime \in State /\ ime.tab = "Translation"
  BY GoodIs DEF Ready, AskAgain
<1>2. ime' = r /\ UNCHANGED <<document, typed, pressed>>
  BY DEF AskAgain, Step
<1>3. /\ r \in State /\ r.ui = ime.ui /\ r.tab = ime.tab /\ r.romaji = ime.romaji
      /\ r.draft = ime.draft /\ r.source = ime.source /\ r.list = ime.list
      /\ r.selection = ime.selection /\ r.clauses = ime.clauses /\ r.merged = ime.merged
      /\ r.shown = ime.shown /\ ~r.answered
  BY <1>1 DEF State
<1> HIDE DEF r
<1>4. Window(A, r)
  BY <1>1, <1>3 DEF Window
<1> QED BY <1>2, <1>4 DEF Staying

LEMMA EnterCandidatesStays ==
    ASSUME NEW A, Ready(A), NEW shift \in BOOLEAN, EnterCandidates(shift)
    PROVE  Staying(A) \/ Committing(A)
<1> DEFINE chosen == ComposedSelection(ime)
           layer2 == SwitchToLayer2FromLayer1(ime, chosen)
           merged == MergeLayer2Selection(ime)
           translation == Translation(ime)
<1>1. Family(A) /\ Window(A, ime) /\ ime \in State /\ ime.tab \in Tabs
  BY GoodIs DEF Ready, EnterCandidates, State
<1>2. chosen \in A /\ chosen # <<>>
  BY <1>1, ComposedIs
<1>3. Window(A, layer2)
  BY <1>1, <1>2, SwitchIs
<1>4. ime.tab = "Layer2" => Window(A, merged) /\ ime.held \in A
  BY <1>1, MergeIs DEF Window
<1>5. translation \in A
  BY <1>1, TranslationIs DEF Window
<1>6. /\ \/ Commit(chosen)
         \/ Step(layer2)
         \/ ime.tab = "Layer2" /\ Step(merged)
         \/ ime.tab = "Layer2" /\ Commit(ime.held)
         \/ Commit(translation)
      /\ UNCHANGED <<typed, pressed>>
  BY <1>1 DEF EnterCandidates, Tabs
<1> HIDE DEF chosen, layer2, merged, translation
<1>7. ASSUME NEW text \in A, Commit(text) PROVE Committing(A)
  BY <1>6, <1>7 DEF Committing, Commit
<1>8. ASSUME NEW s, Window(A, s), Step(s) PROVE Staying(A)
  BY <1>6, <1>8 DEF Staying, Step
<1> QED BY <1>2, <1>3, <1>4, <1>5, <1>6, <1>7, <1>8

LEMMA CycleStays ==
    ASSUME NEW A, Ready(A), NEW reverse \in BOOLEAN, NEW known \in BOOLEAN,
           CycleCandidateTab(reverse, known)
    PROVE  Staying(A)
<1> DEFINE chosen == ComposedSelection(ime)
           r1 == ShowLayer1Candidates(ime, TRUE)
           r2 == SwitchToTranslationTab(ime, known)
           r3 == SwitchToLayer2FromLayer1(ime, chosen)
<1>1. Family(A) /\ Window(A, ime)
  BY GoodIs DEF Ready, CycleCandidateTab
<1>2. chosen \in A /\ chosen # <<>>
  BY <1>1, ComposedIs
<1>3. Window(A, r3)
  BY <1>1, <1>2, SwitchIs
<1>4. Window(A, r1)
  BY <1>1, ShowLayer1Is
<1>5. IsMerged(ime) => Window(A, r2)
  BY <1>1, SwitchToTranslationIs DEF IsMerged
<1>6. /\ ime' = r1 \/ (IsMerged(ime) /\ ime' = r2) \/ ime' = r3
      /\ UNCHANGED <<document, typed, pressed>>
  BY DEF CycleCandidateTab, Step
<1> HIDE DEF r1, r2, r3
<1> QED BY <1>3, <1>4, <1>5, <1>6 DEF Staying

LEMMA MoveStays ==
    ASSUME NEW A, Ready(A), MoveKey
    PROVE  Staying(A)
<1>1. Family(A) /\ Window(A, ime) /\ ime.tab = "Layer1"
  BY GoodIs DEF Ready, MoveKey
<1>2. Window(A, MoveSelection(ime))
  BY <1>1, MoveIs
<1> QED BY <1>2 DEF MoveKey, Step, Staying

LEMMA SegmentStays ==
    ASSUME NEW A, Ready(A), SetActiveSegment
    PROVE  Staying(A)
<1> DEFINE other == (ime.active % Len(ime.clauses)) + 1
           moved == [ime EXCEPT !.active = other, !.list = ime.clauses[other].list,
                                !.selection = ime.clauses[other].index]
           r == [moved EXCEPT !.shown = ComposedSelection(moved)]
<1>1. Family(A) /\ Window(A, ime) /\ ime.tab = "Layer1" /\ ime.clauses # <<>>
  BY GoodIs DEF Ready, SetActiveSegment
<1>2. ime' = r /\ UNCHANGED <<document, typed, pressed>>
  BY DEF SetActiveSegment, Step
<1>3. other \in 1 .. 2
  <2>1. Len(ime.clauses) = 2 /\ ime.active \in 1 .. 2
    BY <1>1 DEF Window, Segmented, State
  <2> QED BY <2>1
<1> HIDE DEF other
<1>4. Window(A, r)
  BY <1>1, <1>3, SegmentIs
<1> HIDE DEF r
<1> QED BY <1>2, <1>4 DEF Staying

LEMMA ToggleStays ==
    ASSUME NEW A, Ready(A), ToggleKanaKanjiOnlyMode
    PROVE  Staying(A)
<1> DEFINE only == ~ime.kanaKanjiOnly
           toggled == [ime EXCEPT !.kanaKanjiOnly = only, !.pendingCarry = FALSE]
           shown == [ime EXCEPT !.kanaKanjiOnly = only, !.pendingCarry = FALSE, !.tab = "Layer1"]
           r == ShowLayer1Candidates(toggled, TRUE)
<1>1. Family(A) /\ Good(A, ime) /\ ime \in State
  BY GoodIs DEF Ready
<1>2. /\ ime' = IF ime.ui /\ ime.tab # "Layer1" THEN r ELSE toggled
      /\ UNCHANGED <<document, typed, pressed>>
  BY DEF ToggleKanaKanjiOnlyMode, Step
<1>3. only \in BOOLEAN
  OBVIOUS
<1> HIDE DEF only
<1>4. CASE ime.ui /\ ime.tab # "Layer1"
  <2>1. /\ shown \in State /\ shown.tab = "Layer1"
        /\ shown.ui = ime.ui /\ shown.romaji = ime.romaji
        /\ shown.draft = ime.draft /\ shown.source = ime.source /\ shown.list = ime.list
        /\ shown.selection = ime.selection /\ shown.clauses = ime.clauses
        /\ shown.merged = ime.merged /\ shown.shown = ime.shown
    BY <1>1, <1>3 DEF State, Tabs
  <2>2. Window(A, ime) /\ ime.clauses = <<>>
    BY <1>1, <1>4, GoodIs DEF Window
  <2>3. ShowLayer1Candidates(shown, TRUE) = r
    <3>1. [toggled EXCEPT !.tab = "Layer1"] = shown /\ [shown EXCEPT !.tab = "Layer1"] = shown
      BY <1>1 DEF State
    <3> DEFINE text == ComposedSelection(shown)
    <3>2. /\ r = [toggled EXCEPT !.tab = "Layer1", !.shown = text]
          /\ ShowLayer1Candidates(shown, TRUE) = [shown EXCEPT !.tab = "Layer1", !.shown = text]
      BY <3>1 DEF ShowLayer1Candidates
    <3> HIDE DEF text
    <3>3. [toggled EXCEPT !.tab = "Layer1", !.shown = text]
            = [shown EXCEPT !.tab = "Layer1", !.shown = text]
      BY <1>1 DEF State
    <3> QED BY <3>2, <3>3
  <2> HIDE DEF shown, toggled, r
  <2>4. Window(A, shown)
    BY <2>1, <2>2 DEF Window
  <2>5. Window(A, r)
    BY <1>1, <2>3, <2>4, ShowLayer1Is
  <2> QED BY <1>2, <1>4, <2>5 DEF Staying
<1>5. CASE ime.ui /\ ime.tab = "Layer1"
  <2>1. Window(A, ime)
    BY <1>1, <1>5, GoodIs
  <2>2. /\ toggled \in State /\ toggled.tab = ime.tab
        /\ toggled.ui = ime.ui /\ toggled.romaji = ime.romaji
        /\ toggled.draft = ime.draft /\ toggled.source = ime.source /\ toggled.list = ime.list
        /\ toggled.selection = ime.selection /\ toggled.clauses = ime.clauses
        /\ toggled.active = ime.active /\ toggled.merged = ime.merged
        /\ toggled.shown = ime.shown
    BY <1>1, <1>3 DEF State
  <2> HIDE DEF toggled
  <2>3. Window(A, toggled)
    BY <1>5, <2>1, <2>2 DEF Window, Segmented, From, Piece
  <2> QED BY <1>2, <1>5, <2>3 DEF Staying
<1>6. CASE ~ime.ui
  <2>1. Draft(A, ime)
    BY <1>1, <1>6, GoodIs
  <2>2. /\ Closed(toggled) /\ toggled.draft = ime.draft /\ toggled.romaji = ime.romaji
        /\ toggled.shown = ime.shown /\ toggled.carryOpen = ime.carryOpen
        /\ toggled.lockedPrefix = ime.lockedPrefix
    BY <1>1, <1>3, <2>1 DEF Draft, Closed, State
  <2> HIDE DEF toggled
  <2>3. Draft(A, toggled)
    BY <2>1, <2>2 DEF Draft, PreeditText
  <2> QED BY <1>2, <1>6, <2>2, <2>3 DEF Staying
<1> QED BY <1>4, <1>5, <1>6

LEMMA LeaveKanaCommits ==
    ASSUME NEW A, Ready(A), LeaveKanaMode
    PROVE  Committing(A)
<1>1. Family(A) /\ Good(A, ime) /\ ime \in State
  BY GoodIs DEF Ready
<1>2. FlushRomaji(ime).draft \in A
  <2>1. CASE ime.ui
    <3>1. ime.romaji = <<>> /\ ime.draft \in A /\ ime.draft \in Texts
      BY <1>1, <2>1, GoodIs DEF Window, Family
    <3>2. ConvertRomaji(ime.romaji, TRUE) = <<>>
      BY <3>1 DEF ConvertRomaji, Consumed
    <3>3. FlushRomaji(ime).draft = ime.draft \o <<>>
      BY <1>1, <3>2 DEF FlushRomaji, State
    <3> QED BY <3>1, <3>3, TextsAre
  <2>2. CASE ~ime.ui
    BY <2>2 DEF Ready
  <2> QED BY <2>1, <2>2
<1> QED BY <1>2 DEF LeaveKanaMode, Commit, Committing

LEMMA ArrivesStays ==
    ASSUME NEW A, Ready(A), TranslationArrives
    PROVE  Staying(A)
<1> DEFINE text == Translation(ime)
           r == [ime EXCEPT !.answered = TRUE, !.shown = text]
<1>1. Family(A) /\ Window(A, ime) /\ ime \in State /\ ime.tab = "Translation"
  BY GoodIs DEF Ready, TranslationArrives
<1>2. ime' = r /\ UNCHANGED <<document, typed, pressed>>
  BY DEF TranslationArrives, Step
<1>3. text \in A /\ text \in Texts
  BY <1>1, TranslationIs DEF Window
<1> HIDE DEF text
<1>4. /\ r \in State /\ r.ui = ime.ui /\ r.tab = ime.tab /\ r.romaji = ime.romaji
      /\ r.draft = ime.draft /\ r.source = ime.source /\ r.list = ime.list
      /\ r.selection = ime.selection /\ r.clauses = ime.clauses /\ r.merged = ime.merged
      /\ r.shown = text
  BY <1>1, <1>3 DEF State
<1> HIDE DEF r
<1>5. r.shown = Translation(r)
  BY <1>4 DEF Translation, text
<1>6. Window(A, r)
  BY <1>1, <1>3, <1>4, <1>5 DEF Window
<1> QED BY <1>2, <1>6 DEF Staying

LEMMA AbortStays ==
    ASSUME NEW A, Ready(A), OnCandidateAbort
    PROVE  Staying(A)
<1> DEFINE closed == CloseCandidateUI(ime, FALSE)
           text == PreeditText(closed)
           r == [closed EXCEPT !.shown = text]
<1>1. Family(A) /\ Window(A, ime) /\ ime \in State
  BY GoodIs DEF Ready, OnCandidateAbort
<1>2. ime.draft \in A /\ ime.draft # <<>> /\ ime.romaji = <<>> /\ ime.draft \in Texts
  BY <1>1 DEF Window, Family
<1>3. Closed(closed) /\ closed.draft = ime.draft /\ closed.romaji = <<>>
  BY <1>1, <1>2, CloseIs
<1>4. ime' = r /\ UNCHANGED <<document, typed, pressed>>
  BY DEF OnCandidateAbort, Step
<1> HIDE DEF closed
<1>5. text = ime.draft
  BY <1>2, <1>3, NoLetters
<1> HIDE DEF text
<1>6. Closed(r) /\ r.draft = ime.draft /\ r.romaji = <<>> /\ r.shown = ime.draft
  BY <1>2, <1>3, <1>5 DEF Closed, State
<1> HIDE DEF r
<1>7. PreeditText(r) = ime.draft
  BY <1>2, <1>6, NoLetters
<1>8. Draft(A, r)
  BY <1>2, <1>6, <1>7 DEF Draft
<1> QED BY <1>4, <1>6, <1>8 DEF Staying

LEMMA TerminatedCommits ==
    ASSUME NEW A, Ready(A), OnCompositionTerminated
    PROVE  Committing(A)
<1>1. ime.shown \in A
  BY GoodIs DEF Ready
<1> QED BY <1>1 DEF OnCompositionTerminated, Commit, Committing

LEMMA EscapeStays ==
    ASSUME NEW A, Ready(A), Escape
    PROVE  Staying(A) \/ Ending
<1> DEFINE none == <<>>
           left == [ime EXCEPT !.merged = FALSE, !.held = none, !.pendingCarry = FALSE,
                               !.tab = "Layer1", !.carryOpen = FALSE, !.lockedPrefix = none]
           r1 == ShowLayer1Candidates(ime, FALSE)
           r2 == ShowLayer1Candidates(left, TRUE)
<1>1. Family(A) /\ Good(A, ime) /\ ime \in State /\ ime.tab \in Tabs
  BY GoodIs DEF Ready, State
<1>2. left = ClearCarry([ime EXCEPT !.merged = FALSE, !.held = none, !.pendingCarry = FALSE,
                                    !.tab = "Layer1"])
  BY <1>1 DEF ClearCarry, State
<1>3. /\ \/ ime.ui /\ ime' = r1 /\ document' = document /\ typed' = typed
         \/ ime.ui /\ ime.tab = "Layer2" /\ ime' = r2 /\ document' = document /\ typed' = typed
         \/ /\ ime' = EndComposition(ime) /\ document' = document
            /\ typed' = Keystrokes(document)
      /\ pressed' = pressed
  BY <1>1, <1>2 DEF Escape, Step, Tabs
<1>4. ime.ui => Window(A, r1)
  BY <1>1, GoodIs, ShowLayer1Is
<1>5. ime.ui /\ ime.tab = "Layer2" => Window(A, r2)
  <2> SUFFICES ASSUME ime.ui, ime.tab = "Layer2" PROVE Window(A, r2)
    OBVIOUS
  <2>1. Window(A, ime)
    BY <1>1, GoodIs
  <2>2. none \in Texts
    BY TextsAre
  <2> HIDE DEF none
  <2>3. /\ left \in State /\ left.tab = "Layer1" /\ ~left.merged
        /\ left.ui = ime.ui /\ left.romaji = ime.romaji
        /\ left.draft = ime.draft /\ left.source = ime.source /\ left.list = ime.list
        /\ left.selection = ime.selection /\ left.clauses = ime.clauses
        /\ left.shown = ime.shown
    BY <1>1, <2>2 DEF State, Tabs
  <2>4. ime.clauses = <<>>
    BY <2>1 DEF Window
  <2> HIDE DEF left
  <2>5. Window(A, left)
    BY <2>1, <2>3, <2>4 DEF Window
  <2> QED BY <1>1, <2>5, ShowLayer1Is
<1> HIDE DEF r1, r2
<1> QED BY <1>3, <1>4, <1>5 DEF Staying, Ending

\* Backspace closes a window that is not orange, and else takes one character
\* off the end of what was typed; B stands for what is left.
LEMMA BackspaceStays ==
    ASSUME NEW A, Ready(A), Backspace, NEW B, Family(B),
           ime.ui /\ typed' = typed => A \subseteq B,
           \A x \in Texts : \A c \in Chars : x \o <<c>> \in A /\ Erase(<<c>>) => x \in B
    PROVE  /\ Draft(B, ime') /\ UNCHANGED <<document, pressed>>
           /\ ime'.romaji \in {<<>>, Front(ime.romaji)}
<1>1. Family(A) /\ Good(A, ime) /\ ime \in State
  BY GoodIs DEF Ready
<1>2. CASE ime.ui /\ ~IsOrange(ime)
  <2> DEFINE closed == CloseCandidateUI(ime, TRUE)
  <2>1. ime' = ShowOrCancel(closed) /\ UNCHANGED <<document, pressed, typed>>
    BY <1>2 DEF Backspace, Step
  <2>2. Window(A, ime)
    BY <1>1, <1>2, GoodIs
  <2>3. ime.draft \in A /\ ime.draft # <<>> /\ ime.romaji = <<>> /\ ime.draft \in Texts
    BY <1>1, <2>2 DEF Window, Family
  <2>4. Closed(closed) /\ closed.draft = ime.draft /\ closed.romaji = <<>>
    BY <1>1, <2>3, CloseIs
  <2> HIDE DEF closed
  <2>5. PreeditText(closed) \in B
    BY <1>2, <2>1, <2>3, <2>4, NoLetters
  <2> QED BY <2>1, <2>4, <2>5, ShowOrCancelIs
<1>3. CASE ~(ime.ui /\ ~IsOrange(ime))
  <2> DEFINE final == FinalizeLayer2BeforeNewInput(ime)
             merged == IF final.tab = "Layer2" THEN MergeLayer2Selection(final) ELSE final
             carried == IF IsMerged(merged) /\ merged.lockedPrefix # <<>>
                        THEN [merged EXCEPT !.carryOpen = TRUE, !.merged = FALSE] ELSE merged
             closed == IF ime.ui THEN CloseCandidateUI(carried, TRUE) ELSE ime
             c == IF closed.romaji # <<>> THEN Last(closed.romaji) ELSE Last(closed.draft)
             popped == PopCharacter(closed)
  <2>1. /\ ime' = ShowOrCancel(popped) /\ UNCHANGED <<document, pressed>>
        /\ Erase(IF closed.romaji # <<>> THEN <<Last(closed.romaji)>> ELSE <<Last(closed.draft)>>)
    BY <1>3 DEF Backspace, Step
  <2>2. /\ Closed(closed) /\ PreeditText(closed) \in A /\ PreeditText(closed) # <<>>
        /\ closed.romaji = <<>> \/ closed.romaji = ime.romaji
    <3>1. CASE ime.ui
      <4>1. Holds(A, ime) /\ (HasPendingCarry(ime) <=> ime.tab = "Layer2")
        BY <1>1, <3>1, GoodIs, WindowHolds
      <4>2. Holds(A, final) /\ final.tab = IF HasPendingCarry(ime) THEN "Layer1" ELSE ime.tab
        BY <1>1, <4>1, FinalizeIs
      <4> HIDE DEF final
      <4>3. merged = final
        BY <4>1, <4>2
      <4>4. final \in State /\ final.draft \in A /\ final.draft # <<>> /\ final.romaji = <<>>
            /\ final.draft \in Texts
        BY <1>1, <4>2 DEF Holds, Family
      <4>5. carried = final \/ carried = [final EXCEPT !.carryOpen = TRUE, !.merged = FALSE]
        BY <4>3
      <4> HIDE DEF carried
      <4>6. carried \in State /\ carried.draft = final.draft /\ carried.romaji = final.romaji
        BY <4>4, <4>5 DEF State
      <4>7. closed = CloseCandidateUI(carried, TRUE)
        BY <3>1
      <4> HIDE DEF closed
      <4>8. Closed(closed) /\ closed.draft = final.draft /\ closed.romaji = <<>>
        BY <4>4, <4>6, <4>7, CloseIs
      <4> QED BY <4>4, <4>8, NoLetters
    <3>2. CASE ~ime.ui
      <4>1. Draft(A, ime) /\ PreeditText(ime) # <<>>
        BY <1>1, <3>2, GoodIs DEF Backspace, HasActiveInput
      <4> QED BY <3>2, <4>1 DEF Draft
    <3> QED BY <3>1, <3>2
  <2> HIDE DEF closed
  <2>3. Erase(<<c>>)
    BY <2>1
  <2>4. /\ Closed(popped) /\ c \in Chars /\ PreeditText(popped) \in Texts
        /\ PreeditText(closed) = PreeditText(popped) \o <<c>>
    BY <2>2, PopIs
  <2>6. popped.romaji \in {<<>>, Front(ime.romaji)}
    BY <2>2, PopIs
  <2> HIDE DEF c, popped
  <2>5. PreeditText(popped) \in B
    BY <2>2, <2>3, <2>4
  <2> QED BY <2>1, <2>4, <2>5, <2>6, ShowOrCancelIs
<1> QED BY <1>2, <1>3

\* A text key: B stands for what was typed with the new character.
LEMMA LetterIs ==
    ASSUME NEW A, Ready(A), NEW letter \in Letters, TypeLetter(letter), pressed \in 0 .. MaxKeys,
           NEW B, Family(B), \A x \in A : x \o <<Typed(letter, pressed + 1)>> \in B
    PROVE  /\ Draft(B, ime') /\ document' = document /\ Press
           /\ \E w \in Texts : ime'.draft = LeaveCandidates(ime).draft \o w
           /\ LET letters == Append(IF ime.ui THEN <<>> ELSE ime.romaji,
                                    Typed(letter, pressed + 1))
              IN  ime'.romaji = SubSeq(letters, Consumed(letters, FALSE) + 1, Len(letters))
<1> DEFINE before == LeaveCandidates(ime)
           c == Typed(letter, pressed + 1)
           letters == Append(before.romaji, c)
           n == Consumed(letters, FALSE)
           kana == ConvertRomaji(letters, FALSE)
           rest == SubSeq(letters, n + 1, Len(letters))
           draft == before.draft \o kana
           s == [before EXCEPT !.draft = draft, !.romaji = rest]
<1>1. Family(A) /\ Good(A, ime)
  BY DEF Ready
<1>2. Closed(before) /\ PreeditText(before) \in A
      /\ before.romaji = IF ime.ui THEN <<>> ELSE ime.romaji
  BY <1>1, LeaveIs
<1> HIDE DEF before
<1>3. Press /\ document' = document
      /\ ime' = ShowPreedit([before EXCEPT !.draft = @ \o kana, !.romaji = rest])
  BY DEF TypeLetter, Step, before
<1>4. before \in State /\ before.draft \in Texts /\ before.romaji \in Texts
  BY <1>2 DEF Closed, State
<1>5. ime' = ShowPreedit(s)
  BY <1>3, <1>4 DEF State
<1>6. c \in Chars
  <2>1. pressed < MaxKeys /\ pressed + 1 \in 1 .. MaxKeys
    BY <1>3, MaxKeysAssumption DEF Press
  <2>2. letter \in Forms
    BY LettersAssumption DEF Forms
  <2>3. <<pressed + 1>> \in Seq(1 .. MaxKeys)
    BY <2>1
  <2> QED BY <2>2, <2>3 DEF Typed, Chars
<1>7. \A x \in A : x \o <<c>> \in B
  OBVIOUS
<1>8. ime'.romaji = rest => ime'.romaji =
        LET ls == Append(IF ime.ui THEN <<>> ELSE ime.romaji, Typed(letter, pressed + 1))
        IN  SubSeq(ls, Consumed(ls, FALSE) + 1, Len(ls))
  BY <1>2
<1> HIDE DEF c
<1>9. /\ letters = before.romaji \o <<c>> /\ <<c>> \in Texts /\ letters \in Texts
      /\ letters # <<>>
  <2> DEFINE m == before.romaji
             one == <<c>>
  <2>1. m \in Texts /\ one \in Texts /\ one # <<>> /\ Append(m, c) = m \o one
    BY <1>4, <1>6, TextsAre
  <2> HIDE DEF m, one
  <2>2. m \o one \in Texts /\ m \o one # <<>>
    BY <2>1, TextsAre
  <2> QED BY <2>1, <2>2 DEF m, one
<1> HIDE DEF letters
<1>10. before.draft \o letters \in B
  <2> DEFINE d == before.draft
             m == before.romaji
             k == <<c>>
  <2>1. d \in Texts /\ m \in Texts /\ k \in Texts
    BY <1>4, <1>9
  <2>2. (d \o m) \o k \in B
    BY <1>2, <1>7 DEF PreeditText
  <2> HIDE DEF d, m, k
  <2>3. d \o (m \o k) \in B
    BY <2>1, <2>2, Regroup, ZenonT(30)
  <2> QED BY <1>9, <2>3 DEF d, m, k
<1>11. n \in 0 .. Len(letters) /\ kana \in Texts
       /\ kana = IF n = 0 THEN <<>> ELSE Made("kana", SubSeq(letters, 1, n))
  BY <1>9, RomajiIs
<1> HIDE DEF n, kana
<1>12. /\ SubSeq(letters, 1, n) \in Texts /\ rest \in Texts
       /\ letters = SubSeq(letters, 1, n) \o rest
  BY <1>9, <1>11, HeadIs
<1>13. n = 0 => rest = letters
  <2>1. SubSeq(letters, 1, Len(letters)) = letters
    BY <1>9, SubSeqFull DEF Texts
  <2> QED BY <2>1
<1>14. n # 0 => kana # <<>>
  BY <1>11, <1>12, MadeIs DEF Forms
<1> HIDE DEF rest
<1>15. (before.draft \o kana) \o rest \in B /\ (before.draft \o kana) \o rest # <<>>
  <2> DEFINE d == before.draft
             w == SubSeq(letters, 1, n)
  <2>1. d \in Texts /\ w \in Texts /\ d \o (w \o rest) \in B
    BY <1>4, <1>10, <1>12
  <2>2. kana = IF n = 0 THEN <<>> ELSE Made("kana", w)
    BY <1>11
  <2> HIDE DEF d, w
  <2>3. d \o (kana \o rest) \in B
    <3>1. CASE n = 0
      <4>1. kana = <<>> /\ rest = letters /\ <<>> \o rest = rest
        BY <1>12, <1>13, <2>2, <3>1, TextsAre
      <4> QED BY <1>10, <4>1 DEF d
    <3>2. CASE n # 0
      BY <1>12, <2>1, <2>2, <3>2 DEF Family, Forms
    <3> QED BY <3>1, <3>2
  <2>4. (d \o kana) \o rest = d \o (kana \o rest) /\ d \o kana \in Texts
    <3>1. kana \in Texts /\ rest \in Texts /\ d \in Texts
      BY <1>11, <1>12, <2>1
    <3> QED BY <3>1, Regroup
  <2>5. kana # <<>> \/ rest # <<>>
    BY <1>9, <1>13, <1>14
  <2>6. (d \o kana) \o rest # <<>>
    BY <1>11, <1>12, <2>1, <2>4, <2>5, TextsAre
  <2> QED BY <2>3, <2>4, <2>6 DEF d
<1>16. draft \in Texts
  BY <1>4, <1>11, TextsAre
<1>17. draft \o rest \in B /\ draft \o rest # <<>>
  BY <1>15
<1> HIDE DEF draft
<1>18. Closed(s) /\ s.draft = draft /\ s.romaji = rest
  BY <1>2, <1>12, <1>16 DEF Closed, State
<1> HIDE DEF s
<1>19. Draft(B, ShowPreedit(s)) /\ ShowPreedit(s).romaji = rest /\ ShowPreedit(s).draft = draft
  <2>1. PreeditText(s) \in B /\ PreeditText(s) # <<>>
    BY <1>17, <1>18 DEF PreeditText
  <2> QED BY <1>18, <2>1, ShowDraft, ShowIs
<1>20. \E w \in Texts : ime'.draft = before.draft \o w
  BY <1>5, <1>11, <1>19 DEF draft
<1> QED BY <1>3, <1>5, <1>8, <1>19, <1>20 DEF before

LEMMA SymbolIs ==
    ASSUME NEW A, Ready(A), TypeSymbol, pressed \in 0 .. MaxKeys,
           NEW B, Family(B), \A x \in A : x \o <<Typed("kana", pressed + 1)>> \in B
    PROVE  /\ Draft(B, ime') /\ document' = document /\ Press /\ ime'.romaji = <<>>
           /\ \E w \in Texts : ime'.draft = LeaveCandidates(ime).draft \o w
<1> DEFINE left == LeaveCandidates(ime)
           before == FlushRomaji(left)
           c == Typed("kana", pressed + 1)
           draft == Append(before.draft, c)
           s == [before EXCEPT !.draft = draft]
<1>1. Family(A) /\ Good(A, ime)
  BY DEF Ready
<1>2. Closed(left) /\ PreeditText(left) \in A /\ left.romaji = IF ime.ui THEN <<>> ELSE ime.romaji
  BY <1>1, LeaveIs
<1>3. Press /\ document' = document
      /\ ime' = ShowPreedit([before EXCEPT !.draft = Append(@, c)])
  BY DEF TypeSymbol, Step
<1>4. before.draft \in A
  <2>1. CASE ime.ui
    <3>1. left.romaji = <<>> /\ left.draft \in Texts
      BY <1>2, <2>1 DEF Closed, State
    <3>2. before.draft = left.draft \o ConvertRomaji(left.romaji, TRUE)
      BY <1>2, FlushIs
    <3>3. ConvertRomaji(left.romaji, TRUE) = <<>>
      BY <3>1 DEF ConvertRomaji, Consumed
    <3>4. before.draft = left.draft
      BY <3>1, <3>2, <3>3, TextsAre
    <3> QED BY <1>2, <3>1, <3>4, NoLetters
  <2>2. CASE ~ime.ui
    <3>1. Closed(ime)
      BY <1>1, <2>2, GoodIs
    <3>2. left = ime
      BY <3>1 DEF LeaveCandidates, Closed
    <3> QED BY <2>2, <3>2 DEF Ready
  <2> QED BY <2>1, <2>2
<1>5. /\ Closed(before) /\ before.romaji = <<>>
      /\ before.draft = left.draft \o ConvertRomaji(left.romaji, TRUE)
  BY <1>2, FlushIs
<1> HIDE DEF before
<1>6. c \in Chars
  <2>1. pressed < MaxKeys /\ pressed + 1 \in 1 .. MaxKeys
    BY <1>3, MaxKeysAssumption DEF Press
  <2>2. <<pressed + 1>> \in Seq(1 .. MaxKeys)
    BY <2>1
  <2> QED BY <2>2 DEF Typed, Chars, Forms
<1>7. before.draft \o <<c>> \in B
  BY <1>4
<1> HIDE DEF c
<1>8. before \in State /\ before.draft \in Texts /\ draft = before.draft \o <<c>>
  BY <1>5, <1>6, TextsAre DEF Closed, State
<1>9. ime' = ShowPreedit(s)
  BY <1>3, <1>8 DEF State
<1>10. draft \in Texts /\ draft \in B /\ draft # <<>>
  BY <1>6, <1>7, <1>8, TextsAre
<1> HIDE DEF draft
<1>11. Closed(s) /\ s.draft = draft /\ s.romaji = <<>>
  BY <1>5, <1>10 DEF Closed, State
<1> HIDE DEF s
<1>12. PreeditText(s) = draft
  BY <1>10, <1>11, NoLetters
<1>13. Draft(B, ShowPreedit(s)) /\ ShowPreedit(s).romaji = <<>> /\ ShowPreedit(s).draft = draft
  BY <1>10, <1>11, <1>12, ShowDraft, ShowIs
<1>14. \E w \in Texts : draft = left.draft \o w
  <2> DEFINE d == left.draft
             kana == ConvertRomaji(left.romaji, TRUE)
             one == <<c>>
  <2>1. d \in Texts /\ left.romaji \in Texts /\ one \in Texts
    BY <1>2, <1>6, TextsAre DEF Closed, State
  <2>2. kana \in Texts
    BY <2>1, RomajiIs
  <2>3. draft = (d \o kana) \o one
    BY <1>5, <1>8
  <2> HIDE DEF d, kana, one
  <2>4. draft = d \o (kana \o one) /\ kana \o one \in Texts
    <3>1. d \in Texts /\ kana \in Texts /\ one \in Texts
      BY <2>1, <2>2
    <3>2. (d \o kana) \o one = d \o (kana \o one) /\ kana \o one \in Texts
      BY <3>1, Regroup, ZenonT(30)
    <3> QED BY <2>3, <3>2
  <2> QED BY <2>4 DEF d
<1> HIDE DEF left
<1>15. \E w \in Texts : ime'.draft = left.draft \o w
  BY <1>9, <1>13, <1>14
<1> QED BY <1>3, <1>9, <1>13, <1>15 DEF left

-----------------------------------------------------------------------------
\* The texts whose keystrokes may follow those of a document, in the order in
\* which they were typed, after p text keys.

Fit(d, p) ==
    {x \in Texts : LET keys == Keystrokes(d) \o Keystrokes(x)
                   IN  Rises(keys) /\ Under(keys, <<p + 1>>)}

LEMMA SameKeystrokes ==
    ASSUME NEW form \in Forms, NEW x \in Texts, NEW y \in Texts, NEW z \in Texts
    PROVE  /\ x \o (Made(form, y) \o z) \in Texts /\ x \o (y \o z) \in Texts
           /\ Keystrokes(x \o (Made(form, y) \o z)) = Keystrokes(x \o (y \o z))
           /\ Keystrokes(x \o (y \o z)) = Keystrokes(x) \o (Keystrokes(y) \o Keystrokes(z))
<1> DEFINE m == Made(form, y)
<1>1. m \in Texts /\ Keystrokes(m) = Keystrokes(y)
  BY MadeIs
<1> HIDE DEF m
<1>2. /\ m \o z \in Texts /\ y \o z \in Texts /\ x \o (m \o z) \in Texts /\ x \o (y \o z) \in Texts
  BY <1>1, TextsAre
<1>3. /\ Keystrokes(m \o z) = Keystrokes(m) \o Keystrokes(z)
      /\ Keystrokes(y \o z) = Keystrokes(y) \o Keystrokes(z)
  BY <1>1, KeystrokesAre
<1>4. /\ Keystrokes(x \o (m \o z)) = Keystrokes(x) \o Keystrokes(m \o z)
      /\ Keystrokes(x \o (y \o z)) = Keystrokes(x) \o Keystrokes(y \o z)
  BY <1>2, KeystrokesAre
<1> QED BY <1>1, <1>2, <1>3, <1>4 DEF m

LEMMA KeysOf ==
    ASSUME NEW x \in Texts
    PROVE  Keystrokes(x) \in Seq(Keys) /\ Keystrokes(x) \in Seq(Nat)
BY KeystrokesAre, KeysAreNatural

LEMMA One ==
    ASSUME NEW n \in Nat
    PROVE  <<n>> \in Seq(Nat) /\ Rises(<<n>>) /\ Under(<<n>>, <<n + 1>>)
BY DEF Rises, Under

LEMMA UnderParts ==
    ASSUME NEW s \in Seq(Nat), NEW t \in Seq(Nat), NEW u \in Seq(Nat), Under(s \o t, u)
    PROVE  Under(s, u) /\ Under(t, u)
BY UnderConcat

LEMMA UnderBoth ==
    ASSUME NEW s \in Seq(Nat), NEW t \in Seq(Nat), NEW u \in Seq(Nat), Under(s, u), Under(t, u)
    PROVE  Under(s \o t, u)
BY UnderConcat

LEMMA JoinKeys ==
    ASSUME NEW s \in Seq(Nat), NEW t \in Seq(Nat), NEW u \in Seq(Nat)
    PROVE  s \o t \in Seq(Nat) /\ (s \o t) \o u = s \o (t \o u)
<1>1. (s \o t) \o u = s \o (t \o u)
  BY Associative, SMTT(30)
<1> QED BY <1>1

LEMMA FitIs ==
    ASSUME NEW d \in Texts, NEW p \in Nat
    PROVE  Family(Fit(d, p)) /\ Cuttable(Fit(d, p))
<1> DEFINE A == Fit(d, p)
           later == <<p + 1>>
           Fits(keys) == Rises(Keystrokes(d) \o keys) /\ Under(Keystrokes(d) \o keys, later)
<1>1. A = {x \in Texts : Fits(Keystrokes(x))}
  BY DEF Fit
<1>2. later \in Seq(Nat)
  OBVIOUS
<1> HIDE DEF A, later
<1>3. Family(A)
  <2> HIDE DEF Fits
  <2>1. A \subseteq Texts
    BY <1>1
  <2>2. ASSUME NEW form \in Forms, NEW x \in Texts, NEW y \in Texts, NEW z \in Texts,
               x \o (y \o z) \in A
        PROVE  x \o (Made(form, y) \o z) \in A
    BY <1>1, <2>2, SameKeystrokes
  <2> QED BY <2>1, <2>2 DEF Family
<1>4. Cuttable(A)
  <2> SUFFICES ASSUME NEW x \in Texts, NEW y \in Texts, NEW z \in Texts, x \o (y \o z) \in A
               PROVE  y \in A
    BY DEF Cuttable
  <2> DEFINE a == Keystrokes(d)
             b == Keystrokes(x)
             u == Keystrokes(y)
             v == Keystrokes(z)
  <2>1. a \in Seq(Nat) /\ b \in Seq(Nat) /\ u \in Seq(Nat) /\ v \in Seq(Nat)
    BY KeysOf
  <2>2. Rises(a \o (b \o (u \o v))) /\ Under(a \o (b \o (u \o v)), later)
    <3>1. "kana" \in Forms
      BY DEF Forms
    <3>2. Keystrokes(x \o (y \o z)) = b \o (u \o v)
      BY <3>1, SameKeystrokes, ZenonT(30)
    <3>3. Fits(Keystrokes(x \o (y \o z)))
      BY <1>1
    <3> QED BY <3>2, <3>3
  <2> HIDE DEF a, b, u, v
  <2>3. u \o v \in Seq(Nat) /\ b \o (u \o v) \in Seq(Nat) /\ a \o u \in Seq(Nat)
    BY <2>1
  <2>4. Rises(a) /\ Rises(b \o (u \o v)) /\ Under(a, b \o (u \o v))
    BY <2>1, <2>2, <2>3, RisesConcat
  <2>5. Rises(u \o v) /\ Under(a, u \o v)
    BY <2>1, <2>3, <2>4, RisesConcat, UnderConcat, ZenonT(30)
  <2>6. Rises(u) /\ Under(a, u)
    BY <2>1, <2>5, RisesConcat, UnderConcat
  <2>7. Under(a, later) /\ Under(b \o (u \o v), later)
    BY <1>2, <2>1, <2>2, <2>3, UnderParts
  <2>8. Under(u \o v, later)
    BY <1>2, <2>1, <2>3, <2>7, UnderParts
  <2>9. Under(u, later)
    BY <1>2, <2>1, <2>8, UnderParts
  <2>10. Rises(a \o u) /\ Under(a \o u, later)
    BY <1>2, <2>1, <2>4, <2>6, <2>7, <2>9, RisesConcat, UnderConcat
  <2> QED BY <1>1, <2>10 DEF a, u
<1> QED BY <1>3, <1>4 DEF A

\* A new key comes last.
LEMMA FitAppend ==
    ASSUME NEW d \in Texts, NEW p \in Nat, p + 1 \in Keys, NEW x \in Fit(d, p), NEW c \in Chars,
           c.keys = <<p + 1>>
    PROVE  x \o <<c>> \in Fit(d, p + 1)
<1> DEFINE a == Keystrokes(d)
           b == Keystrokes(x)
           k == <<p + 1>>
           later == <<(p + 1) + 1>>
<1>1. x \in Texts /\ Rises(a \o b) /\ Under(a \o b, k)
  BY DEF Fit
<1>2. a \in Seq(Nat) /\ b \in Seq(Nat)
  BY <1>1, KeysOf
<1>3. k \in Seq(Nat) /\ Rises(k) /\ Under(k, later) /\ later \in Seq(Nat)
  BY One
<1>4. <<c>> \in Texts /\ x \o <<c>> \in Texts /\ Keystrokes(x \o <<c>>) = b \o k
  <2> DEFINE one == <<c>>
  <2>1. one \in Texts /\ Keystrokes(one) = k /\ x \in Texts
    BY <1>1, TextsAre, KeystrokesAre
  <2> HIDE DEF one
  <2>2. x \o one \in Texts
    BY <2>1, TextsAre
  <2>3. Keystrokes(x \o one) = b \o k
    BY <2>1, KeystrokesAre
  <2> QED BY <2>1, <2>2, <2>3 DEF one
<1>5. Under(k, later) /\ \A s \in Seq(Nat) : Under(s, k) => Under(s, later)
  BY <1>3 DEF Under
<1> HIDE DEF a, b, k, later
<1>6. a \o b \in Seq(Nat) /\ a \o (b \o k) = (a \o b) \o k
  BY <1>2, <1>3, JoinKeys, ZenonT(30)
<1>7. Rises((a \o b) \o k)
  BY <1>1, <1>3, <1>6, RisesConcat
<1>8. Under((a \o b) \o k, later)
  BY <1>1, <1>3, <1>5, <1>6, UnderBoth
<1>9. Rises(a \o (b \o k)) /\ Under(a \o (b \o k), later)
  BY <1>6, <1>7, <1>8
<1> QED BY <1>4, <1>9 DEF Fit, a, later

\* What is committed is behind the document.
LEMMA FitCommit ==
    ASSUME NEW d \in Texts, NEW p \in Nat, NEW x \in Fit(d, p)
    PROVE  d \o x \in Texts /\ <<>> \in Fit(d \o x, p)
<1>1. x \in Texts /\ d \o x \in Texts /\ <<>> \in Texts
  BY TextsAre DEF Fit
<1>2. Keystrokes(d \o x) = Keystrokes(d) \o Keystrokes(x) /\ Keystrokes(<<>>) = <<>>
  BY <1>1, KeystrokesAre
<1>3. Keystrokes(d \o x) \in Seq(Nat)
  BY <1>1, KeysOf
<1>4. Keystrokes(d \o x) \o <<>> = Keystrokes(d \o x)
  BY <1>3
<1>5. Rises(Keystrokes(d \o x) \o Keystrokes(<<>>))
      /\ Under(Keystrokes(d \o x) \o Keystrokes(<<>>), <<p + 1>>)
  BY <1>2, <1>4 DEF Fit
<1> QED BY <1>1, <1>5 DEF Fit

-----------------------------------------------------------------------------
\* What every step does.

LEMMA ProviderIsTheSame ==
    ASSUME NEW A, Ready(A), Next
    PROVE  UNCHANGED <<givesClauses, translates>>
<1>0. ime \in State /\ ime.tab \in Tabs
  BY GoodIs DEF Ready, State
<1> DEFINE Same == UNCHANGED <<givesClauses, translates>>
<1>1. \A s : Step(s) => Same
  BY DEF Step
<1>2. \A text : Commit(text) => Same
  BY DEF Commit
<1> HIDE DEF Same
<1>3. TextKey => Same
  BY <1>1 DEF TextKey, TypeLetter, TypeSymbol
<1>4. ASSUME NEW cut, SpaceDraft(cut) PROVE Same
  BY <1>1, <1>4 DEF SpaceDraft
<1>5. ASSUME NEW cut, EnterDraft(cut) PROVE Same
  BY <1>1, <1>2, <1>5 DEF EnterDraft
<1>6. ASSUME NEW known, SpaceCandidates(known) PROVE Same
  BY <1>1, <1>6 DEF SpaceCandidates
<1>7. ASSUME NEW reverse, NEW known, CycleCandidateTab(reverse, known) PROVE Same
  BY <1>1, <1>7 DEF CycleCandidateTab
<1>8. ASSUME NEW shift, EnterCandidates(shift) PROVE Same
  BY <1>0, <1>1, <1>2, <1>8 DEF EnterCandidates, Tabs
<1>9. AskAgain \/ MoveKey \/ SetActiveSegment => Same
  BY <1>1 DEF AskAgain, MoveKey, SetActiveSegment
<1>10. HostStep => Same
  BY <1>1, <1>2 DEF HostStep, TranslationArrives, OnCandidateAbort, OnCompositionTerminated
<1>11. Backspace => Same
  BY <1>1 DEF Backspace
<1>12. ToggleKanaKanjiOnlyMode \/ LeaveKanaMode => Same
  BY <1>1, <1>2 DEF ToggleKanaKanjiOnlyMode, LeaveKanaMode
<1>13. Escape => Same
  BY <1>0, <1>1 DEF Escape, Tabs
<1>14. CandidateKey => Same
  BY <1>4, <1>5, <1>6, <1>7, <1>8, <1>9 DEF CandidateKey
<1>15. Same
  BY <1>3, <1>10, <1>11, <1>12, <1>13, <1>14 DEF Next
<1> QED BY <1>15 DEF Same

LEMMA NextIs ==
    ASSUME NEW A, Ready(A), Next
    PROVE  Staying(A) \/ Committing(A) \/ Ending \/ TextKey \/ Backspace
<1>1. CASE TextKey \/ Backspace
  BY <1>1
<1>2. CASE CandidateKey
  <2>1. ASSUME NEW cut \in Cuts, SpaceDraft(cut) \/ EnterDraft(cut)
        PROVE  Staying(A) \/ Committing(A)
    BY <2>1, SpaceDraftStays, EnterDraftStays
  <2>2. ASSUME NEW known \in BOOLEAN, SpaceCandidates(known) PROVE Staying(A)
    BY <2>2, SpaceCandidatesStays
  <2>3. ASSUME NEW reverse \in BOOLEAN, NEW known \in BOOLEAN, CycleCandidateTab(reverse, known)
        PROVE  Staying(A)
    BY <2>3, CycleStays
  <2>4. ASSUME NEW shift \in BOOLEAN, EnterCandidates(shift) PROVE Staying(A) \/ Committing(A)
    BY <2>4, EnterCandidatesStays
  <2>5. ASSUME AskAgain \/ MoveKey \/ SetActiveSegment PROVE Staying(A)
    BY <2>5, AskAgainStays, MoveStays, SegmentStays
  <2> QED BY <1>2, <2>1, <2>2, <2>3, <2>4, <2>5 DEF CandidateKey
<1>3. CASE HostStep
  BY <1>3, ArrivesStays, AbortStays, TerminatedCommits DEF HostStep
<1>4. CASE Escape \/ ToggleKanaKanjiOnlyMode \/ LeaveKanaMode
  BY <1>4, EscapeStays, ToggleStays, LeaveKanaCommits
<1> QED BY <1>1, <1>2, <1>3, <1>4 DEF Next

\* The letters that stay unfinished are cut off the end of the draft: what is left
\* is a part of a text of A.
LEMMA FlushIsCut ==
    ASSUME NEW A, Family(A), Cuttable(A), NEW s, Draft(A, s)
    PROVE  FlushRomaji(s).draft \in A
<1> DEFINE n == Consumed(s.romaji, TRUE)
           d == s.draft
           w == SubSeq(s.romaji, 1, n)
           rest == SubSeq(s.romaji, n + 1, Len(s.romaji))
           kana == ConvertRomaji(s.romaji, TRUE)
<1>1. d \in Texts /\ s.romaji \in Texts /\ Closed(s) /\ d \o s.romaji \in A
  BY DEF Draft, Closed, State, PreeditText
<1>2. FlushRomaji(s).draft = d \o kana
  BY <1>1, FlushIs
<1>3. n \in 0 .. Len(s.romaji) /\ kana = IF n = 0 THEN <<>> ELSE Made("kana", w)
  BY <1>1, RomajiIs
<1> HIDE DEF n
<1>4. w \in Texts /\ rest \in Texts /\ s.romaji = w \o rest
  BY <1>1, <1>3, HeadIs
<1> HIDE DEF d, w, rest, kana
<1>5. (d \o w) \o rest \in A /\ d \o w \in Texts
  <2>1. d \in Texts /\ w \in Texts /\ rest \in Texts /\ d \o (w \o rest) \in A
    BY <1>1, <1>4
  <2> QED BY <2>1, Regroup, ZenonT(30)
<1>6. d \o w \in A
  BY <1>4, <1>5, CuttableIs
<1>7. CASE n = 0
  <2>1. d \in A /\ d \o kana = d
    BY <1>1, <1>3, <1>4, <1>6, <1>7, CuttableIs, TextsAre
  <2> QED BY <1>2, <2>1
<1>8. CASE n # 0
  <2>1. d \o Made("kana", w) \in A
    BY <1>1, <1>4, <1>6, FamilyIs DEF Forms
  <2> QED BY <1>2, <1>3, <1>8, <2>1
<1> QED BY <1>7, <1>8

LEMMA EraseIs ==
    ASSUME typed \in Seq(Keys), NEW x, Erase(x)
    PROVE  typed' \in Seq(Keys)
<1> DEFINE Left(key) == IF key \in Range(Keystrokes(x)) THEN <<>> ELSE <<key>>
           lists == [i \in DOMAIN typed |-> Left(typed[i])]
<1>1. lists \in Seq(Seq(Keys))
  <2>1. \A i \in 1 .. Len(typed) : typed[i] \in Keys
    OBVIOUS
  <2>2. \A i \in 1 .. Len(typed) : Left(typed[i]) \in Seq(Keys)
    BY <2>1
  <2>3. lists = [i \in 1 .. Len(typed) |-> Left(typed[i])] /\ Len(typed) \in Nat
    OBVIOUS
  <2> HIDE DEF Left
  <2> QED BY <2>2, <2>3
<1>2. typed' = FlattenSeq(lists)
  BY DEF Erase
<1> HIDE DEF lists
<1> QED BY <1>1, <1>2, FlattenType

-----------------------------------------------------------------------------
\* The invariant: what is in the preedit, in the window, in the carry and on the
\* screen may all follow the document.

Sound ==
    /\ givesClauses \in BOOLEAN /\ translates \in BOOLEAN
    /\ document \in Texts /\ typed \in Seq(Keys) /\ pressed \in 0 .. MaxKeys
    /\ Good(Fit(document, pressed), ime)

LEMMA SoundIsReady ==
    ASSUME Sound
    PROVE  /\ Ready(Fit(document, pressed)) /\ pressed \in Nat
           /\ Family(Fit(document, pressed)) /\ Cuttable(Fit(document, pressed))
           /\ <<>> \in Fit(document, pressed)
<1> DEFINE A == Fit(document, pressed)
<1>1. pressed \in Nat /\ document \in Texts /\ Good(A, ime)
  BY MaxKeysAssumption DEF Sound
<1>2. Family(A) /\ Cuttable(A)
  BY <1>1, FitIs
<1> HIDE DEF A
<1>3. ~ime.ui => FlushRomaji(ime).draft \in A
  BY <1>1, <1>2, GoodIs, FlushIsCut
<1>4. <<>> \in A
  <2>1. ime.shown \in A /\ ime.shown \in Texts
    BY <1>1, <1>2, GoodIs DEF Family
  <2>2. ime.shown = ime.shown \o <<>> /\ <<>> \in Texts
    BY <2>1, TextsAre
  <2> QED BY <1>2, <2>1, <2>2, CuttableIs
<1> QED BY <1>1, <1>2, <1>3, <1>4 DEF Ready, A

LEMMA InitIsSound == Init => Sound
<1> SUFFICES ASSUME Init PROVE Sound
  OBVIOUS
<1>1. /\ document = <<>> /\ typed = <<>> /\ pressed = 0 /\ ime = Idle
      /\ givesClauses \in BOOLEAN /\ translates \in BOOLEAN
  BY DEF Init
<1>2. <<>> \in Texts /\ Keystrokes(<<>>) = <<>> /\ <<>> \in Seq(Keys) /\ 0 \in 0 .. MaxKeys
  BY TextsAre, KeystrokesAre, MaxKeysAssumption
<1>3. <<>> \in Fit(<<>>, 0)
  <2>1. <<>> \o <<>> = <<>>
    OBVIOUS
  <2>2. Rises(<<>>) /\ Under(<<>>, <<0 + 1>>)
    BY DEF Rises, Under
  <2> QED BY <1>2, <2>1, <2>2 DEF Fit
<1>4. PreeditText(Idle) = <<>>
  BY <1>2, IdleIs, NoLetters
<1>5. Draft(Fit(<<>>, 0), Idle)
  BY <1>3, <1>4, IdleIs DEF Draft
<1> QED BY <1>1, <1>2, <1>5 DEF Sound, Good

LEMMA StepIsSound == Sound /\ [Next]_vars => Sound'
<1> SUFFICES ASSUME Sound, [Next]_vars PROVE Sound'
  OBVIOUS
<1> DEFINE A == Fit(document, pressed)
           B == Fit(document', pressed')
<1>1. /\ Ready(A) /\ pressed \in Nat /\ Family(A) /\ Cuttable(A) /\ <<>> \in A
      /\ ime \in State
  BY SoundIsReady, GoodIs DEF Ready
<1>2. /\ givesClauses \in BOOLEAN /\ translates \in BOOLEAN /\ document \in Texts
      /\ typed \in Seq(Keys) /\ pressed \in 0 .. MaxKeys /\ Good(A, ime)
  BY DEF Sound
<1> SUFFICES /\ givesClauses' = givesClauses /\ translates' = translates
             /\ document' \in Texts /\ typed' \in Seq(Keys) /\ pressed' \in 0 .. MaxKeys
             /\ Good(B, ime')
  BY <1>2 DEF Sound
<1>3. CASE UNCHANGED vars
  BY <1>2, <1>3 DEF vars
<1>4. CASE Next
  <2>1. givesClauses' = givesClauses /\ translates' = translates
    BY <1>1, <1>4, ProviderIsTheSame
  <2>2. CASE Staying(A)
    BY <1>2, <2>1, <2>2 DEF Staying, Good
  <2>3. CASE Committing(A)
    <3>1. PICK text \in A : document' = document \o text
      BY <2>3 DEF Committing
    <3>2. document' \in Texts /\ <<>> \in B
      <4>1. UNCHANGED pressed
        BY <2>3 DEF Committing
      <4> QED BY <1>1, <1>2, <3>1, <4>1, FitCommit
    <3> HIDE DEF B
    <3>3. Draft(B, ime')
      BY <1>1, <2>3, <3>2, EndDraft DEF Committing
    <3> QED BY <1>2, <2>1, <2>3, <3>2, <3>3 DEF Committing, Good
  <2>4. CASE Ending
    <3>1. Draft(A, ime')
      BY <1>1, <2>4, EndDraft DEF Ending
    <3>2. typed' \in Seq(Keys)
      BY <1>2, <2>4, KeysOf DEF Ending
    <3> QED BY <1>2, <2>1, <2>4, <3>1, <3>2 DEF Ending, Good
  <2>5. CASE TextKey
    <3>1. ASSUME Press, document' = document
          PROVE  /\ pressed' = pressed + 1 /\ pressed + 1 \in Keys /\ pressed' \in 0 .. MaxKeys
                 /\ typed' \in Seq(Keys) /\ B = Fit(document, pressed + 1) /\ Family(B)
      <4>1. pressed' = pressed + 1 /\ pressed + 1 \in Keys /\ pressed' \in 0 .. MaxKeys
        BY <1>1, <1>2, <3>1, MaxKeysAssumption DEF Press, Keys
      <4>2. typed' \in Seq(Keys)
        BY <1>2, <3>1, <4>1 DEF Press
      <4>3. B = Fit(document, pressed + 1)
        BY <3>1, <4>1
      <4>4. pressed + 1 \in Nat
        BY <1>1
      <4> QED BY <1>2, <4>1, <4>2, <4>3, <4>4, FitIs
    <3>2. ASSUME NEW form \in Forms, pressed + 1 \in Keys
          PROVE  \A x \in A : x \o <<Typed(form, pressed + 1)>> \in Fit(document, pressed + 1)
      <4> DEFINE c == Typed(form, pressed + 1)
      <4>1. c \in Chars /\ c.keys = <<pressed + 1>>
        BY <3>2 DEF Typed, Chars, Keys
      <4> HIDE DEF c
      <4>2. \A x \in A : x \o <<c>> \in Fit(document, pressed + 1)
        BY <1>1, <1>2, <3>2, <4>1, FitAppend
      <4> QED BY <4>2 DEF c
    <3>3. TextKey => Press /\ document' = document
      BY DEF TextKey, TypeLetter, TypeSymbol, Step
    <3>4. Draft(B, ime')
      <4>1. /\ B = Fit(document, pressed + 1) /\ Family(B) /\ pressed + 1 \in Keys
        BY <2>5, <3>1, <3>3
      <4> HIDE DEF A, B
      <4>2. ASSUME NEW letter \in Letters, TypeLetter(letter) PROVE Draft(B, ime')
        <5>1. letter \in Forms
          BY LettersAssumption DEF Forms
        <5>2. \A x \in A : x \o <<Typed(letter, pressed + 1)>> \in B
          BY <3>2, <4>1, <5>1
        <5> QED BY <1>1, <1>2, <4>1, <4>2, <5>2, LetterIs
      <4>3. ASSUME TypeSymbol PROVE Draft(B, ime')
        <5>1. \A x \in A : x \o <<Typed("kana", pressed + 1)>> \in B
          BY <3>2, <4>1 DEF Forms
        <5> QED BY <1>1, <1>2, <4>1, <4>3, <5>1, SymbolIs
      <4> QED BY <2>5, <4>2, <4>3 DEF TextKey
    <3> QED BY <1>2, <2>1, <2>5, <3>1, <3>3, <3>4 DEF Good
  <2>6. CASE Backspace
    <3>1. \A x \in Texts : \A c \in Chars : x \o <<c>> \in A => x \in A
      BY <1>1, CuttableIs, TextsAre
    <3>2. Draft(A, ime') /\ UNCHANGED <<document, pressed>>
      BY <1>1, <2>6, <3>1, BackspaceStays
    <3>3. typed' \in Seq(Keys)
      <4>1. typed' = typed \/ \E x : Erase(x)
        BY <2>6 DEF Backspace
      <4> QED BY <1>2, <4>1, EraseIs
    <3> QED BY <1>2, <2>1, <3>2, <3>3 DEF Good
  <2> QED BY <1>1, <1>4, <2>2, <2>3, <2>4, <2>5, <2>6, NextIs
<1> QED BY <1>3, <1>4

\* In every reachable state the preedit, the texts of the window and what is on the
\* screen hold keystrokes that follow those of the document and were pressed, in
\* the order of pressing.
THEOREM AlwaysSound == Spec => []Sound
BY InitIsSound, StepIsSound, PTL DEF Spec

-----------------------------------------------------------------------------
\* What follows from it.

LEMMA SoundIs ==
    ASSUME Sound
    PROVE  /\ ime \in State /\ document \in Texts
           /\ ime.shown \in Fit(document, pressed) /\ PreeditText(ime) \in Fit(document, pressed)
           /\ ime.ui => Window(Fit(document, pressed), ime)
           /\ ~ime.ui => Draft(Fit(document, pressed), ime)
<1>1. Good(Fit(document, pressed), ime) /\ document \in Texts
  BY DEF Sound
<1>2. Family(Fit(document, pressed))
  BY SoundIsReady
<1> QED BY <1>1, <1>2, GoodIs

\* Every state of the input method has its type; the window, while it is open,
\* has a selected candidate.
THEOREM TypeCorrect == Spec => []TypeOK
<1>1. Sound => TypeOK
  <2> SUFFICES ASSUME Sound PROVE TypeOK
    OBVIOUS
  <2>1. /\ ime \in State /\ givesClauses \in BOOLEAN /\ translates \in BOOLEAN
        /\ document \in Texts /\ typed \in Seq(1 .. MaxKeys) /\ pressed \in 0 .. MaxKeys
    BY SoundIs DEF Sound, Keys
  <2>2. ime.ui => ime.selection \in DOMAIN ime.list
    BY SoundIs DEF Window
  <2>3. DOMAIN ime = DOMAIN Idle
    BY <2>1, IdleIs DEF State
  <2>4. {ime.draft, ime.romaji, ime.lockedPrefix, ime.held, ime.source, ime.shown} \subseteq Texts
    BY <2>1 DEF State
  <2>5. {ime.carryOpen, ime.ui, ime.merged, ime.pendingCarry, ime.spaceTriggered,
         ime.answered, ime.kanaKanjiOnly, ime.composing} \subseteq BOOLEAN
    BY <2>1 DEF State
  <2>6. /\ ime.tab \in Tabs /\ ime.list \in Seq(Texts) /\ ime.selection \in 1 .. 2
        /\ ime.clauses \in Seq(ClauseTypes) /\ ime.active \in 1 .. 2
    BY <2>1 DEF State
  <2> QED BY <2>1, <2>2, <2>3, <2>4, <2>5, <2>6 DEF TypeOK
<1> QED BY <1>1, AlwaysSound, PTL

\* With nothing entered nothing is left of the last sentence: no window, no mark
\* of Space, no carry and no merge reaches the next one, however the last ended.
THEOREM NothingStays == Spec => []NothingLeftOver
<1>1. Sound => NothingLeftOver
  <2> SUFFICES ASSUME Sound, ~HasActiveInput(ime)
               PROVE  ime = [Idle EXCEPT !.kanaKanjiOnly = ime.kanaKanjiOnly,
                                         !.composing = ime.composing]
    BY DEF NothingLeftOver
  <2>1. ime \in State /\ Draft(Fit(document, pressed), ime) /\ PreeditText(ime) = <<>>
    BY SoundIs DEF HasActiveInput
  <2>2. ime.draft = <<>> /\ ime.romaji = <<>>
    BY <2>1, TextsAre DEF PreeditText, State
  <2>3. /\ Closed(ime) /\ ime.shown = <<>> /\ ~ime.carryOpen /\ ime.lockedPrefix = <<>>
    BY <2>1 DEF Draft
  <2> DEFINE r == [Idle EXCEPT !.kanaKanjiOnly = ime.kanaKanjiOnly, !.composing = ime.composing]
  <2>4. r \in State
    BY <2>1, IdleIs DEF State
  <2>5. /\ Closed(r) /\ r.draft = <<>> /\ r.romaji = <<>> /\ r.shown = <<>>
        /\ ~r.carryOpen /\ r.lockedPrefix = <<>>
        /\ r.kanaKanjiOnly = ime.kanaKanjiOnly /\ r.composing = ime.composing
    BY <2>4, IdleIs DEF Closed, State
  <2> HIDE DEF r
  <2>6. /\ ime.draft = r.draft /\ ime.romaji = r.romaji /\ ime.carryOpen = r.carryOpen
        /\ ime.lockedPrefix = r.lockedPrefix /\ ime.ui = r.ui /\ ime.tab = r.tab
        /\ ime.merged = r.merged /\ ime.pendingCarry = r.pendingCarry
        /\ ime.spaceTriggered = r.spaceTriggered /\ ime.list = r.list
        /\ ime.selection = r.selection /\ ime.clauses = r.clauses /\ ime.active = r.active
        /\ ime.held = r.held /\ ime.source = r.source /\ ime.answered = r.answered
        /\ ime.kanaKanjiOnly = r.kanaKanjiOnly /\ ime.composing = r.composing
        /\ ime.shown = r.shown
    BY <2>1, <2>2, <2>3, <2>4, <2>5 DEF Closed, State
  <2>7. ime = r
    BY <2>1, <2>4, <2>6 DEF State
  <2> QED BY <2>7 DEF r
<1> QED BY <1>1, AlwaysSound, PTL

\* Nothing is written twice and nothing changes places: the keystrokes of the
\* document and the preedit, and of the document and what the composition shows,
\* are in the order in which they were typed.
THEOREM NothingIsWrittenTwice == Spec => []WrittenOnceInOrder
<1>1. ASSUME document \in Texts, NEW x \in Fit(document, pressed)
      PROVE  Increasing(Keystrokes(document \o x))
  <2> DEFINE keys == Keystrokes(document \o x)
  <2>1. x \in Texts /\ Rises(Keystrokes(document) \o Keystrokes(x))
    BY DEF Fit
  <2>2. document \o x \in Texts /\ keys = Keystrokes(document) \o Keystrokes(x)
    BY <1>1, <2>1, TextsAre, KeystrokesAre
  <2>3. Rises(keys) /\ keys \in Seq(Nat)
    BY <2>1, <2>2, KeysOf
  <2> HIDE DEF keys
  <2>4. ASSUME NEW i \in 1 .. Len(keys) - 1 PROVE keys[i] < keys[i + 1]
    <3>1. i \in DOMAIN keys /\ i + 1 \in DOMAIN keys /\ i < i + 1
      BY <2>3
    <3> QED BY <2>3, <3>1 DEF Rises
  <2> QED BY <2>4 DEF Increasing, keys
<1>2. Sound => WrittenOnceInOrder
  BY <1>1, SoundIs DEF WrittenOnceInOrder
<1> QED BY <1>2, AlwaysSound, PTL

\* What is held in Layer2, or was chosen in Layer1 after Space, begins the new
\* draft when the user types on: it is neither converted again nor lost.
THEOREM HeldIsKept == Spec => TypingKeepsWhatIsHeld
<1> DEFINE chosen == IF ime.tab = "Layer2" THEN ime.held ELSE ComposedSelection(ime)
           Keeps == /\ pressed' # pressed /\ ime.ui /\ ~ime.kanaKanjiOnly
                    /\ (ime.tab = "Layer2" \/ (ime.tab = "Layer1" /\ ime.spaceTriggered))
                    => IsPrefix(chosen, ime'.draft)
<1>1. Sound /\ [Next]_vars => [Keeps]_vars
  <2> SUFFICES ASSUME Sound, Next, pressed' # pressed, ime.ui, ~ime.kanaKanjiOnly,
                      ime.tab = "Layer2" \/ (ime.tab = "Layer1" /\ ime.spaceTriggered)
               PROVE  IsPrefix(chosen, ime'.draft)
    BY DEF vars
  <2> DEFINE A == Fit(document, pressed)
             before == LeaveCandidates(ime)
  <2>1. Ready(A) /\ Family(A) /\ Good(A, ime) /\ pressed \in Nat
    BY SoundIsReady DEF Ready
  <2>2. TextKey
    BY <2>1, NextIs DEF Staying, Committing, Ending, Backspace
  <2>3. Closed(before) /\ before.draft = Kept(ime)
    BY <2>1, LeaveIs
  <2>4. before.draft = chosen
    BY <2>3 DEF Kept
  <2> HIDE DEF before, chosen
  <2>5. before \in State /\ before.draft \in Texts
    BY <2>3 DEF Closed, State
  <2>6. \E w \in Texts : ime'.draft = LeaveCandidates(ime).draft \o w
    <3>1. Family(Texts) /\ Family(A) /\ A \subseteq Texts /\ pressed \in 0 .. MaxKeys
      BY <2>1, TextsAre, MadeIs DEF Family, Sound
    <3>2. ASSUME NEW form \in Forms
          PROVE  \A x \in A : x \o <<Typed(form, pressed + 1)>> \in Texts
      <4> DEFINE c == Typed(form, pressed + 1)
      <4>1. c \in Chars
        <5>1. Press
          BY <2>2 DEF TextKey, TypeLetter, TypeSymbol
        <5>2. pressed + 1 \in 1 .. MaxKeys
          BY <2>1, <5>1, MaxKeysAssumption DEF Press
        <5>3. <<pressed + 1>> \in Seq(1 .. MaxKeys)
          BY <5>2
        <5> QED BY <3>2, <5>3 DEF Typed, Chars
      <4> HIDE DEF c
      <4> QED BY <3>1, <4>1, TextsAre DEF c
    <3> HIDE DEF A
    <3>3. ASSUME NEW letter \in Letters, TypeLetter(letter)
          PROVE  \E w \in Texts : ime'.draft = LeaveCandidates(ime).draft \o w
      <4>1. letter \in Forms
        BY LettersAssumption DEF Forms
      <4>2. \A x \in A : x \o <<Typed(letter, pressed + 1)>> \in Texts
        BY <3>2, <4>1
      <4> QED BY <2>1, <3>1, <3>3, <4>2, LetterIs
    <3>4. ASSUME TypeSymbol
          PROVE  \E w \in Texts : ime'.draft = LeaveCandidates(ime).draft \o w
      <4>1. \A x \in A : x \o <<Typed("kana", pressed + 1)>> \in Texts
        BY <3>2 DEF Forms
      <4> QED BY <2>1, <3>1, <3>4, <4>1, SymbolIs
    <3> QED BY <2>2, <3>3, <3>4 DEF TextKey
  <2> QED BY <2>4, <2>5, <2>6, PrefixOfConcat DEF before
<1>2. Spec => []Sound /\ [][Next]_vars
  BY AlwaysSound DEF Spec
<1> QED BY <1>1, <1>2, PTL DEF TypingKeepsWhatIsHeld

-----------------------------------------------------------------------------
\* The texts that make up, behind a document, all of t.

Whole(d, t) == {x \in Texts : Keystrokes(d) \o Keystrokes(x) = t}

LEMMA WholeIs ==
    ASSUME NEW d, NEW t
    PROVE  Family(Whole(d, t))
<1>1. ASSUME NEW form \in Forms, NEW x \in Texts, NEW y \in Texts, NEW z \in Texts,
             x \o (y \o z) \in Whole(d, t)
      PROVE  x \o (Made(form, y) \o z) \in Whole(d, t)
  BY <1>1, SameKeystrokes, ZenonT(30) DEF Whole
<1> QED BY <1>1 DEF Family, Whole

LEMMA WholeAppend ==
    ASSUME NEW d \in Texts, NEW t, NEW x \in Whole(d, t), NEW c \in Chars, NEW key \in Keys,
           c.keys = <<key>>
    PROVE  x \o <<c>> \in Whole(d, Append(t, key))
<1> DEFINE a == Keystrokes(d)
           b == Keystrokes(x)
           one == <<c>>
<1>1. x \in Texts /\ a \in Seq(Keys) /\ b \in Seq(Keys) /\ t = a \o b
  BY KeysOf DEF Whole
<1>2. one \in Texts /\ Keystrokes(one) = <<key>>
  BY TextsAre, KeystrokesAre
<1> HIDE DEF one
<1>3. x \o one \in Texts /\ Keystrokes(x \o one) = b \o <<key>>
  <2>1. x \in Texts /\ one \in Texts
    BY <1>1, <1>2
  <2>2. x \o one \in Texts
    BY <2>1, TextsAre
  <2>3. Keystrokes(x \o one) = Keystrokes(x) \o Keystrokes(one)
    BY <2>1, KeystrokesAre
  <2> QED BY <1>2, <2>2, <2>3
<1> HIDE DEF a, b
<1>4. a \o (b \o <<key>>) = Append(a \o b, key)
  <2>1. b \o <<key>> = Append(b, key)
    BY <1>1
  <2> QED BY <1>1, <2>1, ConcatAppend
<1> QED BY <1>1, <1>3, <1>4 DEF Whole, one, a

LEMMA WholeCommit ==
    ASSUME NEW d \in Texts, NEW t, NEW x \in Whole(d, t)
    PROVE  d \o x \in Texts /\ <<>> \in Whole(d \o x, t)
<1>1. x \in Texts /\ d \o x \in Texts /\ <<>> \in Texts
  BY TextsAre DEF Whole
<1>2. Keystrokes(d \o x) = Keystrokes(d) \o Keystrokes(x) /\ Keystrokes(<<>>) = <<>>
  BY <1>1, KeystrokesAre
<1>3. Keystrokes(d \o x) \o <<>> = Keystrokes(d \o x)
  BY <1>1, KeysOf
<1> QED BY <1>1, <1>2, <1>3 DEF Whole

LEMMA WholeEnd ==
    ASSUME NEW d \in Texts
    PROVE  <<>> \in Whole(d, Keystrokes(d))
<1>1. <<>> \in Texts /\ Keystrokes(<<>>) = <<>> /\ Keystrokes(d) \o <<>> = Keystrokes(d)
  BY TextsAre, KeystrokesAre, KeysOf
<1> QED BY <1>1 DEF Whole

\* What is erased is behind what stays.
LEMMA WholeErase ==
    ASSUME Rises(typed), NEW d \in Texts, NEW x \in Texts, NEW c \in Chars,
           x \o <<c>> \in Whole(d, typed), Erase(<<c>>)
    PROVE  x \in Whole(d, typed')
<1> DEFINE a == Keystrokes(d)
           b == Keystrokes(x)
           k == c.keys
           D == Range(k)
           one == <<c>>
<1>1. a \in Seq(Keys) /\ b \in Seq(Keys) /\ k \in Seq(Keys)
      /\ a \in Seq(Nat) /\ b \in Seq(Nat) /\ k \in Seq(Nat)
  BY KeysOf, CharsAre, KeysAreNatural
<1>2. one \in Texts /\ Keystrokes(one) = k
  BY TextsAre, KeystrokesAre
<1>3. typed' = Outside(typed, D)
  BY <1>2 DEF Erase, Outside
<1> HIDE DEF one
<1>4. typed = a \o (b \o k)
  <2>1. Keystrokes(x \o one) = b \o k
    BY <1>2, KeystrokesAre
  <2>2. typed = a \o Keystrokes(x \o one)
    BY DEF Whole, one
  <2> QED BY <2>1, <2>2
<1> DEFINE s == a \o b
<1> HIDE DEF a, b, k
<1>5. typed = s \o k /\ s \in Seq(Nat)
  BY <1>1, <1>4, JoinKeys, Zenon
<1> HIDE DEF s
<1>6. Under(s, k)
  BY <1>1, <1>5, RisesConcat
<1>7. \A i \in DOMAIN s : s[i] \notin D
  <2> SUFFICES ASSUME NEW i \in DOMAIN s, s[i] \in D PROVE FALSE
    OBVIOUS
  <2>1. PICK j \in DOMAIN k : s[i] = k[j]
    BY DEF Range
  <2>2. s[i] < k[j] /\ s[i] \in Nat
    BY <1>5, <1>6 DEF Under
  <2> QED BY <2>1, <2>2
<1>8. \A i \in DOMAIN k : k[i] \in D
  BY DEF Range
<1> HIDE DEF D
<1>9. Outside(s \o k, D) = s
  BY <1>1, <1>5, <1>7, <1>8, OutsideIs
<1>10. typed' = a \o b
  BY <1>3, <1>5, <1>9 DEF s
<1> QED BY <1>10 DEF Whole, a, b

-----------------------------------------------------------------------------
\* Nothing that was typed is lost.

\* With vowels and n there is at most one unfinished letter.
Unfinished(letters) == letters = <<>> \/ \E c \in Chars : c.form = "n" /\ letters = <<c>>

LEMMA UnfinishedIs ==
    ASSUME NEW letters \in Texts, Unfinished(letters), NEW c \in Chars, c.form \in {"a", "n"}
    PROVE  LET more == Append(letters, c)
           IN  Unfinished(SubSeq(more, Consumed(more, FALSE) + 1, Len(more)))
<1>1. CASE letters = <<>>
  <2> DEFINE more == <<c>>
  <2>1. Append(letters, c) = more
    BY <1>1
  <2>2. Len(more) = 1 /\ more[1] = c /\ more # <<>>
    OBVIOUS
  <2>3. SubSeq(more, 1, 1) = more /\ SubSeq(more, 2, 1) = <<>>
    BY CutOne
  <2> HIDE DEF more
  <2>4. CASE c.form = "a"
    <3>1. Consumed(more, FALSE) = 1
      BY <2>2, <2>4 DEF Consumed
    <3>2. Consumed(more, FALSE) + 1 = 2
      <4>1. 1 + 1 = 2
        OBVIOUS
      <4> QED BY <3>1, <4>1, Zenon
    <3>3. SubSeq(more, Consumed(more, FALSE) + 1, Len(more)) = <<>>
      BY ONLY <2>2, <2>3, <3>2
    <3> QED BY <2>1, <3>3 DEF Unfinished
  <2>5. CASE c.form = "n"
    <3>1. Consumed(more, FALSE) = 0
      BY <2>2, <2>5 DEF Consumed
    <3>2. Consumed(more, FALSE) + 1 = 1
      <4>1. 0 + 1 = 1
        OBVIOUS
      <4> QED BY <3>1, <4>1, Zenon
    <3>3. SubSeq(more, Consumed(more, FALSE) + 1, Len(more)) = more
      BY ONLY <2>2, <2>3, <3>2
    <3> QED BY <2>1, <2>5, <3>3 DEF Unfinished, more
  <2> QED BY <2>4, <2>5
<1>2. ASSUME NEW n \in Chars, n.form = "n", letters = <<n>>
      PROVE  LET more == Append(letters, c)
             IN  Unfinished(SubSeq(more, Consumed(more, FALSE) + 1, Len(more)))
  <2> DEFINE more == <<n, c>>
  <2>1. Append(letters, c) = more
    <3>1. Append(<<n>>, c) = <<n, c>>
      BY CutTwo
    <3> QED BY <1>2, <3>1
  <2>2. Len(more) = 2 /\ more[1] = n /\ more[2] = c /\ more # <<>>
    OBVIOUS
  <2>3. SubSeq(more, 3, 2) = <<>>
    BY CutTwo
  <2> HIDE DEF more
  <2>4. Consumed(more, FALSE) = 2
    BY <1>2, <2>2 DEF Consumed
  <2>5. Consumed(more, FALSE) + 1 = 3
    <3>1. 2 + 1 = 3
      OBVIOUS
    <3> QED BY <2>4, <3>1, Zenon
  <2>6. SubSeq(more, Consumed(more, FALSE) + 1, Len(more)) = <<>>
    BY ONLY <2>2, <2>3, <2>5
  <2> QED BY <2>1, <2>6 DEF Unfinished
<1> QED BY <1>1, <1>2 DEF Unfinished

LEMMA FlushIsWhole ==
    ASSUME NEW A, Family(A), NEW s, Draft(A, s), Unfinished(s.romaji)
    PROVE  FlushRomaji(s).draft \in A
<1> DEFINE d == s.draft
           m == s.romaji
           kana == ConvertRomaji(m, TRUE)
<1>1. d \in Texts /\ m \in Texts /\ Closed(s) /\ d \o m \in A
  BY DEF Draft, Closed, State, PreeditText
<1>2. FlushRomaji(s).draft = d \o kana
  BY <1>1, FlushIs
<1>3. Unfinished(m)
  OBVIOUS
<1> HIDE DEF d, m
<1>4. CASE m = <<>>
  <2>1. kana = <<>>
    BY <1>4 DEF ConvertRomaji, Consumed
  <2> QED BY <1>1, <1>2, <1>4, <2>1
<1>5. ASSUME NEW c \in Chars, c.form = "n", m = <<c>> PROVE d \o kana \in A
  <2>1. Len(m) = 1 /\ m[1] = c /\ m # <<>> /\ SubSeq(m, 1, 1) = m
    <3> DEFINE one == <<c>>
    <3>1. Len(one) = 1 /\ one[1] = c /\ one # <<>>
      OBVIOUS
    <3>2. SubSeq(one, 1, 1) = one
      BY CutOne
    <3>3. m = one
      BY <1>5
    <3> HIDE DEF one
    <3> QED BY ONLY <3>1, <3>2, <3>3
  <2>2. Consumed(m, TRUE) = 1
    BY <1>5, <2>1 DEF Consumed
  <2>3. kana = Made("kana", m)
    <3>1. kana = Made("kana", SubSeq(m, 1, 1))
      BY <2>2, 1 # 0, Zenon DEF ConvertRomaji
    <3> QED BY <2>1, <3>1
  <2> QED BY <1>1, <2>3, FamilyIs DEF Forms
<1> QED BY <1>2, <1>3, <1>4, <1>5 DEF Unfinished

\* The invariant: all of what was typed is in the document and the preedit, and
\* behind the document in what is held, shown or selected.
Complete ==
    ~givesClauses => Good(Whole(document, typed), ime) /\ Unfinished(ime.romaji)

LEMMA CompleteIsReady ==
    ASSUME Complete, ~givesClauses
    PROVE  Ready(Whole(document, typed)) /\ Family(Whole(document, typed))
<1> DEFINE A == Whole(document, typed)
<1>1. Good(A, ime) /\ Unfinished(ime.romaji)
  BY DEF Complete
<1>2. Family(A)
  BY WholeIs
<1>3. Cuts = {0}
  BY DEF Cuts
<1> HIDE DEF A
<1>4. ~ime.ui => FlushRomaji(ime).draft \in A
  BY <1>1, <1>2, GoodIs, FlushIsWhole
<1> QED BY <1>1, <1>2, <1>3, <1>4 DEF Ready, A

LEMMA InitIsComplete == Init => Complete
<1> SUFFICES ASSUME Init PROVE Good(Whole(document, typed), ime) /\ Unfinished(ime.romaji)
  BY DEF Complete
<1>1. document = <<>> /\ typed = <<>> /\ ime = Idle
  BY DEF Init
<1>2. <<>> \in Texts /\ Keystrokes(<<>>) = <<>>
  BY TextsAre, KeystrokesAre
<1>3. <<>> \in Whole(<<>>, <<>>)
  BY <1>2, WholeEnd
<1>4. PreeditText(Idle) = <<>>
  BY <1>2, IdleIs, NoLetters
<1>5. Draft(Whole(<<>>, <<>>), Idle)
  BY <1>3, <1>4, IdleIs DEF Draft
<1> QED BY <1>1, <1>5, IdleIs DEF Good, Unfinished

LEMMA StepIsComplete ==
    ASSUME "k" \notin Letters, Sound, Complete, [Next]_vars
    PROVE  Complete'
<1> DEFINE A == Whole(document, typed)
           B == Whole(document', typed')
<1>1. CASE UNCHANGED vars
  BY <1>1 DEF vars, Complete
<1>2. CASE Next
  <2>1. givesClauses' = givesClauses
    BY <1>2, SoundIsReady, ProviderIsTheSame
  <2> SUFFICES ASSUME ~givesClauses
               PROVE  Good(B, ime') /\ Unfinished(ime'.romaji)
    BY <2>1 DEF Complete
  <2>2. /\ Ready(A) /\ Family(A) /\ Good(A, ime) /\ Unfinished(ime.romaji) /\ ime \in State
        /\ document \in Texts /\ pressed \in 0 .. MaxKeys /\ typed \in Seq(Keys)
    BY CompleteIsReady, SoundIs DEF Complete, Sound
  <2>3. Family(B)
    BY WholeIs
  <2>4. Unfinished(<<>>)
    BY DEF Unfinished
  <2>5. CASE Staying(A)
    <3>1. Good(B, ime')
      BY <2>5 DEF Staying, Good
    <3>2. Unfinished(ime'.romaji)
      BY <2>2, <2>4, <2>5 DEF Staying, Window
    <3> QED BY <3>1, <3>2
  <2>6. CASE Committing(A)
    <3>1. PICK text \in A : document' = document \o text
      BY <2>6 DEF Committing
    <3>2. <<>> \in B
      <4>1. UNCHANGED typed
        BY <2>6 DEF Committing
      <4> QED BY <2>2, <3>1, <4>1, WholeCommit
    <3> HIDE DEF A, B
    <3>3. Draft(B, ime') /\ ime'.romaji = <<>>
      BY <2>2, <2>6, <3>2, EndDraft, EndIs DEF Committing
    <3> QED BY <2>4, <3>3 DEF Good
  <2>7. CASE Ending
    <3>1. <<>> \in B
      BY <2>2, <2>7, WholeEnd DEF Ending
    <3> HIDE DEF B
    <3>2. Draft(B, ime') /\ ime'.romaji = <<>>
      BY <2>2, <2>7, <3>1, EndDraft, EndIs DEF Ending
    <3> QED BY <2>4, <3>2 DEF Good
  <2>8. CASE TextKey
    <3>1. Press /\ document' = document
      BY <2>8 DEF TextKey, TypeLetter, TypeSymbol, Step
    <3>2. pressed + 1 \in Keys /\ typed' = Append(typed, pressed + 1)
      BY <2>2, <3>1, MaxKeysAssumption DEF Press, Keys
    <3>3. ASSUME NEW form \in Forms
          PROVE  /\ Typed(form, pressed + 1) \in Chars /\ Typed(form, pressed + 1).form = form
                 /\ \A x \in A : x \o <<Typed(form, pressed + 1)>> \in B
      <4> DEFINE c == Typed(form, pressed + 1)
                 key == pressed + 1
      <4>1. key \in Keys
        BY <3>2
      <4>2. <<key>> \in Seq(Keys)
        BY <4>1
      <4>3. c \in Chars /\ c.keys = <<key>> /\ c.form = form
        BY <4>2 DEF Typed, Chars, Keys
      <4>4. B = Whole(document, Append(typed, key))
        BY <3>1, <3>2
      <4> HIDE DEF c, key, B
      <4>5. \A x \in A : x \o <<c>> \in B
        BY <2>2, <4>1, <4>3, <4>4, WholeAppend
      <4> QED BY <4>3, <4>5 DEF c
    <3> HIDE DEF A, B
    <3>4. ASSUME NEW letter \in Letters, TypeLetter(letter)
          PROVE  Draft(B, ime') /\ Unfinished(ime'.romaji)
      <4>1. letter \in Forms /\ letter \in {"a", "n"}
        BY LettersAssumption DEF Forms
      <4> DEFINE c == Typed(letter, pressed + 1)
                 letters == IF ime.ui THEN <<>> ELSE ime.romaji
                 more == Append(letters, c)
      <4>2. c \in Chars /\ c.form = letter /\ \A x \in A : x \o <<c>> \in B
        BY <3>3, <4>1
      <4>3. Draft(B, ime')
            /\ ime'.romaji = SubSeq(more, Consumed(more, FALSE) + 1, Len(more))
        BY <2>2, <2>3, <3>4, <4>2, LetterIs
      <4>4. letters \in Texts /\ Unfinished(letters)
        BY <2>2, <2>4, TextsAre DEF State
      <4> HIDE DEF c, letters
      <4>5. Unfinished(SubSeq(more, Consumed(more, FALSE) + 1, Len(more)))
        BY <4>1, <4>2, <4>4, UnfinishedIs
      <4> QED BY <4>3, <4>5
    <3>5. ASSUME TypeSymbol PROVE Draft(B, ime') /\ Unfinished(ime'.romaji)
      <4>1. \A x \in A : x \o <<Typed("kana", pressed + 1)>> \in B
        BY <3>3 DEF Forms
      <4>2. Draft(B, ime') /\ ime'.romaji = <<>>
        BY <2>2, <2>3, <3>5, <4>1, SymbolIs
      <4> QED BY <2>4, <4>2
    <3> QED BY <2>8, <3>4, <3>5 DEF TextKey, Good
  <2>9. CASE Backspace
    <3>1. document' = document
      BY <2>9 DEF Backspace, Step
    <3>2. Rises(typed)
      <4> DEFINE text == PreeditText(ime)
      <4>1. text \in Fit(document, pressed) /\ text \in A
        BY <2>2, SoundIs, GoodIs
      <4> HIDE DEF text
      <4> QED BY <4>1 DEF Fit, Whole
    <3>3. \A x \in Texts : \A c \in Chars : x \o <<c>> \in A /\ Erase(<<c>>) => x \in B
      BY <2>2, <3>1, <3>2, WholeErase
    <3>4. typed' = typed => A \subseteq B
      BY <3>1
    <3> HIDE DEF A, B
    <3>5. Draft(B, ime') /\ ime'.romaji \in {<<>>, Front(ime.romaji)}
      BY <2>2, <2>3, <2>9, <3>3, <3>4, BackspaceStays
    <3>6. Front(ime.romaji) = <<>>
      <4>1. CASE ime.romaji = <<>>
        BY <4>1 DEF Front
      <4>2. ASSUME NEW c \in Chars, ime.romaji = <<c>> PROVE Front(ime.romaji) = <<>>
        BY <4>2 DEF Front
      <4> QED BY <2>2, <4>1, <4>2 DEF Unfinished
    <3> QED BY <2>4, <3>5, <3>6 DEF Good
  <2> QED BY <1>2, <2>2, <2>5, <2>6, <2>7, <2>8, <2>9, NextIs
<1> QED BY <1>1, <1>2

\* Every keystroke that was not taken back is in the document or in the preedit.
\* Other consonants than n are left out: a symbol typed behind one loses it.
THEOREM NothingIsLost ==
    ASSUME "k" \notin Letters
    PROVE  Spec => []NothingTypedIsLost
<1>1. Complete /\ Sound => NothingTypedIsLost
  <2> SUFFICES ASSUME Complete, Sound, ~givesClauses
               PROVE  Keystrokes(document \o PreeditText(ime)) = typed
    BY DEF NothingTypedIsLost
  <2> DEFINE text == PreeditText(ime)
  <2>1. text \in Whole(document, typed) /\ document \in Texts
    BY CompleteIsReady, SoundIs, GoodIs DEF Complete
  <2> HIDE DEF text
  <2>2. text \in Texts /\ Keystrokes(document) \o Keystrokes(text) = typed
    BY <2>1 DEF Whole
  <2>3. Keystrokes(document \o text) = Keystrokes(document) \o Keystrokes(text)
    BY <2>1, <2>2, KeystrokesAre
  <2> QED BY <2>2, <2>3 DEF text
<1>2. Complete /\ Sound /\ [Next]_vars => Complete'
  BY StepIsComplete
<1> QED BY <1>1, <1>2, InitIsComplete, AlwaysSound, PTL DEF Spec

-----------------------------------------------------------------------------
\* Enter commits what is shown.

\* Without clauses and translations the window is in Layer1 or Layer2, and Layer1
\* shows the selected candidate.
Plain(s) ==
    /\ s.clauses = <<>> /\ s.tab \in {"Layer1", "Layer2"}
    /\ s.tab = "Layer1" => s.shown = s.list[s.selection]

LEMMA ShowIsPlain ==
    ASSUME NEW s \in State, s.clauses = <<>>
    PROVE  Plain(ShowLayer1Candidates(s, TRUE))
<1> DEFINE t == [s EXCEPT !.tab = "Layer1"]
           text == ComposedSelection(t)
           r == [s EXCEPT !.tab = "Layer1", !.shown = text]
<1>1. t.list = s.list /\ t.selection = s.selection /\ t.clauses = <<>>
  BY DEF State
<1>2. text = s.list[s.selection]
  BY <1>1 DEF ComposedSelection
<1>3. ShowLayer1Candidates(s, TRUE) = r
  BY DEF ShowLayer1Candidates
<1> HIDE DEF text
<1>4. /\ r.list = s.list /\ r.selection = s.selection /\ r.clauses = <<>>
      /\ r.tab = "Layer1" /\ r.shown = text
  BY DEF State
<1> HIDE DEF r
<1> QED BY <1>2, <1>3, <1>4 DEF Plain

LEMMA SwitchIsPlain ==
    ASSUME NEW s \in State, NEW text
    PROVE  Plain(SwitchToLayer2FromLayer1(s, text))
<1> DEFINE r == SwitchToLayer2FromLayer1(s, text)
<1>1. r.tab = "Layer2" /\ r.clauses = <<>>
  BY DEF SwitchToLayer2FromLayer1, ClearCarry, State
<1> HIDE DEF r
<1>2. Plain(r)
  BY <1>1 DEF Plain
<1> QED BY <1>2 DEF r

LEMMA MergeIsPlain ==
    ASSUME NEW A, Family(A), NEW s, Window(A, s), s.tab = "Layer2"
    PROVE  Plain(MergeLayer2Selection(s))
<1> DEFINE r == MergeLayer2Selection(s)
           held == s.held
<1>1. /\ r.tab = "Layer1" /\ r.shown = held /\ r.list = <<held>> /\ r.selection = 1
      /\ r.clauses = <<>>
  BY MergeIs
<1>2. <<held>>[1] = held
  OBVIOUS
<1> HIDE DEF r, held
<1>3. Plain(r)
  BY <1>1, <1>2 DEF Plain
<1> QED BY <1>3 DEF r

LEMMA MoveIsPlain ==
    ASSUME NEW s \in State, Plain(s), s.tab = "Layer1"
    PROVE  Plain(MoveSelection(s))
<1> DEFINE next == (s.selection % Len(s.list)) + 1
           none == <<>>
           moved == [s EXCEPT !.selection = next, !.clauses = none]
           text == ComposedSelection(moved)
           r == [moved EXCEPT !.shown = text]
<1>1. s.clauses = none
  BY DEF Plain
<1>2. MoveSelection(s) = IF Len(s.list) = 1 THEN s ELSE r
  BY <1>1 DEF MoveSelection, State
<1> HIDE DEF next
<1>3. /\ moved.list = s.list /\ moved.selection = next /\ moved.clauses = none
      /\ moved.tab = "Layer1"
  BY DEF State
<1>4. text = s.list[next]
  BY <1>3 DEF ComposedSelection
<1> HIDE DEF text
<1>5. /\ r.list = s.list /\ r.selection = next /\ r.clauses = none
      /\ r.tab = "Layer1" /\ r.shown = text
  BY DEF State
<1> HIDE DEF r
<1>6. Plain(r)
  BY <1>4, <1>5 DEF Plain
<1> QED BY <1>2, <1>6

LEMMA OpenIsPlain ==
    ASSUME NEW s, Closed(s), OpenCandidateUI(s, 0).ui
    PROVE  Plain(OpenCandidateUI(s, 0))
<1> DEFINE locked == HasCarry(s) /\ IsPrefix(s.lockedPrefix, s.draft)
           prefix == IF locked THEN s.lockedPrefix ELSE <<>>
           list == IF prefix = <<>> THEN Layer1Candidates(s.draft)
                   ELSE LockedCandidates(prefix, SubSeq(s.draft, Len(prefix) + 1, Len(s.draft)))
           closed == CloseCandidateUI(s, FALSE)
           carry == prefix # <<>>
           draft == s.draft
           first == list[1]
           t == [closed EXCEPT !.ui = TRUE, !.carryOpen = carry, !.lockedPrefix = prefix,
                               !.list = list, !.source = draft, !.shown = first]
<1>1. Closed(closed)
  BY CloseIs DEF Closed
<1>2. /\ closed \in State /\ ~closed.ui /\ closed.tab = "Layer1" /\ closed.selection = 1
      /\ closed.clauses = <<>>
  BY <1>1 DEF Closed
<1>3. OpenCandidateUI(s, 0) = IF list = <<>> THEN closed ELSE InitializeSegmentMode(t, 0)
  BY DEF OpenCandidateUI
<1> HIDE DEF list, closed, prefix, carry, draft, first
<1>4. InitializeSegmentMode(t, 0) = t
  BY DEF InitializeSegmentMode
<1>5. /\ t.tab = closed.tab /\ t.selection = closed.selection /\ t.clauses = closed.clauses
      /\ t.list = list /\ t.shown = first
  BY <1>2 DEF State
<1> HIDE DEF t
<1>6. Plain(t)
  BY <1>2, <1>5 DEF Plain, first
<1> QED BY <1>2, <1>3, <1>4, <1>6

LEMMA PreferIsPlain ==
    ASSUME NEW s \in State, s.draft # <<>>, Plain(s), s.tab = "Layer1"
    PROVE  Plain(PreferRawReading(s))
<1> DEFINE draft == s.draft
           list == Layer1Candidates(draft)
           last == Len(list)
           none == <<>>
           r == [s EXCEPT !.clauses = none, !.list = list, !.selection = last, !.shown = draft]
<1>1. PreferRawReading(s) = r \/ PreferRawReading(s) = s
  BY DEF PreferRawReading
<1>2. list[last] = draft
  <2> DEFINE kanji == Made("kanji", draft)
  <2>1. list = IF kanji = draft THEN <<draft>> ELSE <<kanji, draft>>
    BY DEF Layer1Candidates
  <2> HIDE DEF kanji, draft, list
  <2>2. Len(<<draft>>) = 1 /\ <<draft>>[1] = draft
    OBVIOUS
  <2>3. Len(<<kanji, draft>>) = 2 /\ <<kanji, draft>>[2] = draft
    OBVIOUS
  <2> QED BY <2>1, <2>2, <2>3
<1> HIDE DEF last, list, draft
<1>3. /\ r.tab = "Layer1" /\ r.list = list /\ r.selection = last /\ r.shown = draft
      /\ r.clauses = none
  BY DEF State
<1> HIDE DEF r
<1>4. Plain(r)
  BY <1>2, <1>3 DEF Plain
<1> QED BY <1>1, <1>4

LEMMA SamePlain ==
    ASSUME NEW s, Plain(s), NEW r, r.tab = s.tab, r.list = s.list, r.selection = s.selection,
           r.clauses = s.clauses, r.shown = s.shown
    PROVE  Plain(r)
BY DEF Plain

PlainWindow == ~givesClauses /\ ~translates /\ ime.ui => Plain(ime)

\* The candidate keys, which is where a window opens or changes.
LEMMA CandidateKeyIsPlain ==
    ASSUME NEW A, Ready(A), PlainWindow, ~givesClauses, ~translates, CandidateKey
    PROVE  ime'.ui => Plain(ime')
<1>1. Family(A) /\ Good(A, ime) /\ ime \in State /\ ime.tab \in Tabs
  BY GoodIs DEF Ready, State
<1>2. ime.ui => Window(A, ime) /\ Plain(ime) /\ ime.tab \in {"Layer1", "Layer2"}
  BY <1>1, GoodIs DEF PlainWindow, Plain
<1>3. ~SupportsTranslation(ime)
  BY DEF SupportsTranslation
<1>4. ime' = EndComposition(ime) => ~ime'.ui
  BY <1>1, EndIs DEF Closed
<1>5. ASSUME NEW cut \in Cuts, SpaceDraft(cut) \/ EnterDraft(cut)
      PROVE  ime'.ui => Plain(ime')
  <2> DEFINE flushed == FlushRomaji(ime)
             shown == ShowPreedit(flushed)
             opened == OpenCandidateUI(shown, cut)
  <2>1. cut = 0
    BY <1>5 DEF Cuts
  <2>2. ~ime.ui /\ Draft(A, ime) /\ flushed.draft \in A
    BY <1>1, <1>5, GoodIs DEF Ready, SpaceDraft, EnterDraft
  <2>3. Closed(shown)
    BY <2>2, FlushIs, ShowIs DEF Draft
  <2> HIDE DEF shown
  <2>4. opened.ui => Plain(opened)
    BY <2>1, <2>3, OpenIsPlain
  <2>5. opened.ui => Window(A, opened) /\ opened.tab = "Layer1"
    BY <1>1, <2>1, <2>2, OpenDraft DEF shown
  <2>6. opened.ui => opened \in State /\ opened.draft # <<>>
    BY <2>5 DEF Window
  <2>7. SpaceDraft(cut) =>
           ime' = IF opened.ui THEN PreferRawReading([opened EXCEPT !.spaceTriggered = TRUE])
                  ELSE opened
    BY DEF SpaceDraft, Step, shown
  <2>8. EnterDraft(cut) =>
           \/ ime' = EndComposition(ime)
           \/ opened.ui /\ ime' = SwitchToLayer2FromLayer1(opened, flushed.draft)
    BY DEF EnterDraft, Step, Commit, shown
  <2> HIDE DEF opened, flushed
  <2>9. CASE SpaceDraft(cut)
    <3> DEFINE marked == [opened EXCEPT !.spaceTriggered = TRUE]
    <3>1. CASE opened.ui
      <4>1. /\ marked \in State /\ marked.tab = opened.tab /\ marked.list = opened.list
            /\ marked.selection = opened.selection /\ marked.clauses = opened.clauses
            /\ marked.shown = opened.shown /\ marked.draft = opened.draft
        BY <2>6, <3>1 DEF State
      <4>2. ime' = PreferRawReading(marked)
        BY <2>7, <2>9, <3>1
      <4> HIDE DEF marked
      <4>3. Plain(marked)
        BY <2>4, <3>1, <4>1, SamePlain
      <4> QED BY <2>5, <2>6, <3>1, <4>1, <4>2, <4>3, PreferIsPlain
    <3>2. CASE ~opened.ui
      BY <2>7, <2>9, <3>2
    <3> QED BY <3>1, <3>2
  <2>10. CASE EnterDraft(cut)
    BY <1>4, <2>6, <2>8, <2>10, SwitchIsPlain
  <2> QED BY <1>5, <2>9, <2>10
<1>6. ASSUME NEW known \in BOOLEAN, SpaceCandidates(known)
      PROVE  Plain(ime')
  <2> DEFINE mark == ime.spaceTriggered \/ ime.tab = "Layer1"
             marked == [ime EXCEPT !.spaceTriggered = mark]
  <2>1. ime.ui /\ ime' = IF ime.tab = "Layer1" THEN MoveSelection(marked) ELSE marked
    BY <1>1, <1>3, <1>6 DEF SpaceCandidates, Step, State
  <2>2. mark \in BOOLEAN
    OBVIOUS
  <2> HIDE DEF mark
  <2>3. /\ marked \in State /\ marked.tab = ime.tab /\ marked.list = ime.list
        /\ marked.selection = ime.selection /\ marked.clauses = ime.clauses
        /\ marked.shown = ime.shown
    BY <1>1, <2>2 DEF State
  <2> HIDE DEF marked
  <2>4. Plain(marked)
    BY <1>2, <2>1, <2>3, SamePlain
  <2> QED BY <2>1, <2>3, <2>4, MoveIsPlain
<1>7. ASSUME NEW reverse \in BOOLEAN, NEW known \in BOOLEAN, CycleCandidateTab(reverse, known)
      PROVE  Plain(ime')
  <2> DEFINE chosen == ComposedSelection(ime)
  <2>1. /\ ime.ui
        /\ \/ ime' = ShowLayer1Candidates(ime, TRUE)
           \/ ime' = SwitchToLayer2FromLayer1(ime, chosen)
    BY <1>3, <1>7 DEF CycleCandidateTab, Step
  <2> HIDE DEF chosen
  <2>2. ime.clauses = <<>>
    BY <1>2, <2>1 DEF Plain
  <2> QED BY <1>1, <2>1, <2>2, ShowIsPlain, SwitchIsPlain
<1>8. ASSUME NEW shift \in BOOLEAN, EnterCandidates(shift)
      PROVE  ime'.ui => Plain(ime')
  <2> DEFINE chosen == ComposedSelection(ime)
  <2>1. /\ ime.ui
        /\ \/ ime' = EndComposition(ime)
           \/ ime' = SwitchToLayer2FromLayer1(ime, chosen)
           \/ ime.tab = "Layer2" /\ ime' = MergeLayer2Selection(ime)
    BY <1>1, <1>8 DEF EnterCandidates, Step, Commit, Tabs
  <2> HIDE DEF chosen
  <2> QED BY <1>1, <1>2, <1>4, <2>1, SwitchIsPlain, MergeIsPlain
<1>9. ASSUME MoveKey PROVE Plain(ime')
  BY <1>1, <1>2, <1>9, MoveIsPlain DEF MoveKey, Step
<1>10. ~AskAgain /\ ~SetActiveSegment
  BY <1>2 DEF AskAgain, SetActiveSegment, Plain
<1> QED BY <1>5, <1>6, <1>7, <1>8, <1>9, <1>10 DEF CandidateKey

LEMMA StepIsPlain ==
    ASSUME Sound, PlainWindow, [Next]_vars
    PROVE  PlainWindow'
<1> DEFINE A == Fit(document, pressed)
<1>1. CASE UNCHANGED vars
  BY <1>1 DEF vars, PlainWindow, Plain
<1>2. CASE Next
  <2>1. /\ Ready(A) /\ Family(A) /\ Good(A, ime) /\ pressed \in 0 .. MaxKeys
        /\ pressed \in Nat /\ ime \in State
    BY SoundIsReady, SoundIs DEF Ready, Sound
  <2>2. UNCHANGED <<givesClauses, translates>>
    BY <1>2, <2>1, ProviderIsTheSame
  <2> SUFFICES ASSUME ~givesClauses, ~translates PROVE ime'.ui => Plain(ime')
    BY <2>2 DEF PlainWindow, Plain
  <2>3. ime.ui => Window(A, ime) /\ Plain(ime)
    BY <2>1, GoodIs DEF PlainWindow
  <2>4. ime' = EndComposition(ime) => ~ime'.ui
    BY <2>1, EndIs DEF Closed
  <2>5. Family(Texts) /\ A \subseteq Texts
    BY <2>1, TextsAre, MadeIs DEF Family
  <2> HIDE DEF A
  <2>6. CASE CandidateKey
    BY <2>1, <2>6, CandidateKeyIsPlain
  <2>7. CASE TextKey
    <3>1. ASSUME NEW form \in Forms
          PROVE  \A x \in A : x \o <<Typed(form, pressed + 1)>> \in Texts
      <4> DEFINE c == Typed(form, pressed + 1)
      <4>1. c \in Chars
        <5>1. Press
          BY <2>7 DEF TextKey, TypeLetter, TypeSymbol
        <5>2. pressed + 1 \in 1 .. MaxKeys
          BY <2>1, <5>1, MaxKeysAssumption DEF Press
        <5>3. <<pressed + 1>> \in Seq(1 .. MaxKeys)
          BY <5>2
        <5> QED BY <3>1, <5>3 DEF Typed, Chars
      <4> HIDE DEF c
      <4> QED BY <2>5, <4>1, TextsAre DEF c
    <3>2. ASSUME NEW letter \in Letters, TypeLetter(letter) PROVE ~ime'.ui
      <4>1. letter \in Forms
        BY LettersAssumption DEF Forms
      <4>2. \A x \in A : x \o <<Typed(letter, pressed + 1)>> \in Texts
        BY <3>1, <4>1
      <4>3. Draft(Texts, ime')
        BY <2>1, <2>5, <3>2, <4>2, LetterIs
      <4> QED BY <4>3 DEF Draft, Closed
    <3>3. ASSUME TypeSymbol PROVE ~ime'.ui
      <4>1. \A x \in A : x \o <<Typed("kana", pressed + 1)>> \in Texts
        BY <3>1 DEF Forms
      <4>2. Draft(Texts, ime')
        BY <2>1, <2>5, <3>3, <4>1, SymbolIs
      <4> QED BY <4>2 DEF Draft, Closed
    <3> QED BY <2>7, <3>2, <3>3 DEF TextKey
  <2>8. CASE Backspace
    <3>1. Draft(Texts, ime')
      BY <2>1, <2>5, <2>8, BackspaceStays
    <3> QED BY <3>1 DEF Draft, Closed
  <2>9. CASE HostStep
    <3>1. ASSUME OnCandidateAbort PROVE ~ime'.ui
      <4> DEFINE closed == CloseCandidateUI(ime, FALSE)
                 text == PreeditText(closed)
      <4>1. ime' = [closed EXCEPT !.shown = text]
        BY <3>1 DEF OnCandidateAbort, Step
      <4>2. Closed(closed)
        BY <2>1, CloseIs
      <4> HIDE DEF closed, text
      <4> QED BY <4>1, <4>2 DEF Closed, State
    <3>2. ~TranslationArrives
      BY <2>3 DEF TranslationArrives, Plain
    <3>3. OnCompositionTerminated => ~ime'.ui
      BY <2>4 DEF OnCompositionTerminated, Commit
    <3> QED BY <2>9, <3>1, <3>2, <3>3 DEF HostStep
  <2>10. CASE Escape
    <3> DEFINE none == <<>>
               left == [ime EXCEPT !.merged = FALSE, !.held = none, !.pendingCarry = FALSE,
                                   !.tab = "Layer1", !.carryOpen = FALSE, !.lockedPrefix = none]
    <3>1. left = ClearCarry([ime EXCEPT !.merged = FALSE, !.held = none, !.pendingCarry = FALSE,
                                        !.tab = "Layer1"])
      BY <2>1 DEF ClearCarry, State
    <3>2. ime.ui => ime.tab \in {"Layer1", "Layer2"} /\ ime.clauses = none
      BY <2>3 DEF Plain
    <3>3. ime' = EndComposition(ime) \/ (ime.ui /\ ime' = ShowLayer1Candidates(left, TRUE))
      BY <2>10, <3>1, <3>2 DEF Escape, Step
    <3>4. none \in Texts
      BY TextsAre
    <3> HIDE DEF none
    <3>5. left \in State /\ left.clauses = ime.clauses
      BY <2>1, <3>4 DEF State, Tabs
    <3> HIDE DEF left
    <3> QED BY <2>4, <3>2, <3>3, <3>5, ShowIsPlain DEF none
  <2>11. CASE ToggleKanaKanjiOnlyMode
    <3> DEFINE only == ~ime.kanaKanjiOnly
               toggled == [ime EXCEPT !.kanaKanjiOnly = only, !.pendingCarry = FALSE]
    <3>1. ime' = IF ime.ui /\ ime.tab # "Layer1" THEN ShowLayer1Candidates(toggled, TRUE)
                 ELSE toggled
      BY <2>11 DEF ToggleKanaKanjiOnlyMode, Step
    <3>2. only \in BOOLEAN
      OBVIOUS
    <3> HIDE DEF only
    <3>3. /\ toggled \in State /\ toggled.ui = ime.ui /\ toggled.tab = ime.tab
          /\ toggled.list = ime.list /\ toggled.selection = ime.selection
          /\ toggled.clauses = ime.clauses /\ toggled.shown = ime.shown
      BY <2>1, <3>2 DEF State
    <3> HIDE DEF toggled
    <3>4. ime.ui => Plain(toggled) /\ toggled.clauses = <<>>
      BY <2>3, <3>3, SamePlain DEF Plain
    <3>5. CASE ime.ui /\ ime.tab # "Layer1"
      BY <3>1, <3>3, <3>4, <3>5, ShowIsPlain
    <3>6. CASE ~(ime.ui /\ ime.tab # "Layer1")
      BY <3>1, <3>3, <3>4, <3>6
    <3> QED BY <3>5, <3>6
  <2>12. CASE LeaveKanaMode
    BY <2>4, <2>12 DEF LeaveKanaMode, Commit
  <2> QED BY <1>2, <2>6, <2>7, <2>8, <2>9, <2>10, <2>11, <2>12 DEF Next
<1> QED BY <1>1, <1>2

\* Enter on the candidates commits exactly the text that the composition shows:
\* the text held in Layer2, the translation that has arrived, and where there are
\* no translations the candidate selected in Layer1, merged or not.
THEOREM EnterIsFaithful == Spec => EnterCommitsWhatIsShown
<1> DEFINE byCandidate == \E shift \in BOOLEAN : EnterCandidates(shift)
           faithful == ~givesClauses /\ (translates => ime.tab # "Layer1")
           Keeps == byCandidate /\ document' # document /\ faithful
                       => document' = document \o ime.shown
<1>1. Init => PlainWindow
  BY IdleIs DEF Init, PlainWindow, Closed
<1>2. Sound /\ PlainWindow /\ [Next]_vars => PlainWindow'
  BY StepIsPlain
<1>3. Sound /\ PlainWindow /\ [Next]_vars => [Keeps]_vars
  <2> SUFFICES ASSUME Sound, PlainWindow, NEW shift \in BOOLEAN, EnterCandidates(shift),
                      document' # document, faithful
               PROVE  document' = document \o ime.shown
    OBVIOUS
  <2> DEFINE A == Fit(document, pressed)
  <2>1. ime.ui /\ ime \in State /\ Window(A, ime) /\ ime.tab \in Tabs
    BY SoundIs DEF EnterCandidates, State
  <2>2. ime.tab = "Layer2" => ime.held = ime.shown
    BY <2>1 DEF Window
  <2>3. ime.tab = "Translation" /\ ime.answered => Translation(ime) = ime.shown
    BY <2>1 DEF Window
  <2>4. ime.tab = "Layer1" => ComposedSelection(ime) = ime.shown
    BY <2>1 DEF PlainWindow, Plain, ComposedSelection
  <2>5. \/ ime.tab = "Layer1" /\ document' = document \o ComposedSelection(ime)
        \/ ime.tab = "Layer2" /\ document' = document \o ime.held
        \/ ime.tab = "Translation" /\ ime.answered /\ document' = document \o Translation(ime)
    BY <2>1 DEF EnterCandidates, Commit, Step, Tabs
  <2> QED BY <2>2, <2>3, <2>4, <2>5
<1>4. Spec => []PlainWindow
  BY <1>1, <1>2, AlwaysSound, PTL DEF Spec
<1> QED BY <1>3, <1>4, AlwaysSound, PTL DEF Spec, EnterCommitsWhatIsShown

=============================================================================
