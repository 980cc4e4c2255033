------------------------- MODULE CompositionProofs -------------------------
(***************************************************************************)
(* The composition for any number of letters and of sessions that wait: no *)
(* letter is lost or written twice, and an open composition shows the      *)
(* preedit once the host has run what it was asked for.                    *)
(*                                                                         *)
(* The handlers go through several states of the editor, so what they keep *)
(* is said of a state e, with the letters d that are due and the number n  *)
(* of letters typed.                                                       *)
(***************************************************************************)
EXTENDS Composition, SequenceLemmas

Written(e) == e.document \o Waiting(e)

Kept(e, d) ==
    e.mishaps \subseteq {"overtaken", "kept"} => Written(e) \o Preedit(e) = d

\* The sessions that write their text, and those that may come to show it: an
\* update does in the composition that is open, or in one that is opened before.
Carries(s) == s.kind \in {"end", "insert"}
Counts(e, i) ==
    \/ Carries(e.queue[i])
    \/ /\ e.queue[i].kind = "update"
       /\ e.open \/ \E j \in DOMAIN e.queue : j < i /\ e.queue[j].kind = "start"

UpTo(s, n) == \A i \in DOMAIN s : s[i] <= n

\* The text is newer than everything that is written before it.
Fits(e, text, n) ==
    /\ Rises(text) /\ UpTo(text, n) /\ Under(e.document, text)
    /\ \A i \in DOMAIN e.queue : Carries(e.queue[i]) => Under(e.queue[i].text, text)

\* The letters go up from the document over what waits, and what is shown, now
\* or later, is newer than the document will be then.
InOrder(e, n) ==
    /\ ~e.open => e.shown = <<>>
    /\ Rises(e.document) /\ UpTo(e.document, n)
    /\ Rises(e.shown) /\ UpTo(e.shown, n) /\ Under(e.document, e.shown)
    /\ \A i \in DOMAIN e.queue : Counts(e, i) =>
          /\ Rises(e.queue[i].text) /\ UpTo(e.queue[i].text, n)
          /\ Under(e.document, e.queue[i].text)
          /\ \A j \in DOMAIN e.queue : j < i /\ Carries(e.queue[j]) =>
                Under(e.queue[j].text, e.queue[i].text)

Clean(e) == e.mishaps \subseteq {"refused", "dropped", "kept"}

\* The letters are in order, and the text may still be written or shown.
Placed(e, text, n) == Clean(e) => InOrder(e, n) /\ Fits(e, text, n)

\* The composition shows the preedit, or the last update that waits will do so.
UpToDate(e) ==
    (e.open /\ \A i \in DOMAIN e.queue : e.queue[i].kind # "end") =>
        /\ (\A i \in DOMAIN e.queue : e.queue[i].kind # "update") => e.shown = Preedit(e)
        /\ \A i \in DOMAIN e.queue :
              (/\ e.queue[i].kind = "update"
               /\ \A j \in DOMAIN e.queue : i < j => e.queue[j].kind # "update")
              => e.queue[i].text = Preedit(e)

Calm(e) == e.mishaps \subseteq {"dropped", "pasted", "terminated"}
Showing(e) == Calm(e) => (~e.open => ~Overtakes(e.queue)) /\ UpToDate(e)

-----------------------------------------------------------------------------
\* What a session makes of the editor, and what asking for one does.

\* The fields of the editor, of which only the types matter here.
Texts == Seq(Letters)
Queues == Seq(Sessions)

LEMMA EditorIs ==
    /\ EditorType = [draft : Texts, romaji : Texts, open : BOOLEAN, shown : Texts,
                     queue : Queues, document : Texts, mishaps : SUBSET Mishaps]
    /\ <<>> \in Texts /\ <<>> \in Queues
BY DEF EditorType, Texts, Queues

LEMMA TextsConcat ==
    /\ \A s, t \in Texts : s \o t \in Texts
    /\ \A s \in Texts : s \o <<>> = s /\ <<>> \o s = s
    /\ \A r, s, t \in Texts : (r \o s) \o t = r \o (s \o t)
    /\ \A s, t \in Texts, x \in Letters :
          Append(t, x) \in Texts /\ s \o Append(t, x) = Append(s \o t, x)
<1>1. ASSUME NEW r \in Texts, NEW s \in Texts, NEW t \in Texts
      PROVE  (r \o s) \o t = r \o (s \o t)
  BY ConcatAssociative DEF Texts
<1>2. \A s \in Texts : s \o <<>> = s /\ <<>> \o s = s
  BY ConcatEmptySeq DEF Texts
<1>3. \A s, t \in Texts : s \o t \in Texts
  BY DEF Texts
<1>4. ASSUME NEW s \in Texts, NEW t \in Texts, NEW x \in Letters
      PROVE  Append(t, x) \in Texts /\ s \o Append(t, x) = Append(s \o t, x)
  BY ConcatAppend DEF Texts
<1> QED BY <1>1, <1>2, <1>3, <1>4

LEMMA TextsAssociate == \A r, s, t \in Texts : (r \o s) \o t = r \o (s \o t)
BY TextsConcat

LEMMA TextsAppend ==
    \A s, t \in Texts, x \in Letters : s \o Append(t, x) = Append(s \o t, x)
BY TextsConcat

LEMMA PreeditType ==
    ASSUME NEW e \in EditorType
    PROVE  /\ Preedit(e) \in Seq(Letters) /\ Emptied(e) \in EditorType
           /\ Preedit(Emptied(e)) = <<>>
<1>1. e.draft \in Seq(Letters) /\ e.romaji \in Seq(Letters)
  BY DEF EditorType
<1>2. Preedit(e) \in Seq(Letters)
  BY <1>1 DEF Preedit
<1>3. Emptied(e) \in EditorType /\ Emptied(e).draft = <<>> /\ Emptied(e).romaji = <<>>
  BY EditorIs DEF Emptied
<1>4. <<>> \o <<>> = <<>>
  BY ConcatEmptySeq
<1> QED BY <1>2, <1>3, <1>4 DEF Preedit

LEMMA WithType ==
    ASSUME NEW e \in EditorType, NEW mishap \in Mishaps
    PROVE  /\ With(e, mishap) \in EditorType
           /\ With(e, mishap) = [e EXCEPT !.mishaps = e.mishaps \cup {mishap}]
BY DEF With, EditorType

\* The fields that a session leaves alone.
Same(e, f) == f.draft = e.draft /\ f.romaji = e.romaji /\ f.queue = e.queue

\* The end of a composition.
Ends(e, f, text) ==
    /\ f.document = e.document \o text /\ ~f.open /\ f.shown = <<>>
    /\ f.mishaps = IF Overtakes(e.queue) THEN e.mishaps \cup {"overtaken"} ELSE e.mishaps

LEMMA ClosedEnds ==
    ASSUME NEW e \in EditorType, NEW text \in Seq(Letters)
    PROVE  LET f == Closed([e EXCEPT !.document = @ \o text])
           IN  f \in EditorType /\ Same(e, f) /\ Ends(e, f, text)
<1> DEFINE written == e.document \o text
           g == [e EXCEPT !.document = written, !.open = FALSE, !.shown = <<>>]
           f == Closed([e EXCEPT !.document = e.document \o text])
<1>1. written \in Texts
  BY DEF EditorType, Texts
<1> HIDE DEF written
<1>2. /\ g \in EditorType /\ Same(e, g)
      /\ g.document = written /\ g.open = FALSE /\ g.shown = <<>> /\ g.mishaps = e.mishaps
  BY <1>1, EditorIs DEF Same
<1>3. f = IF Overtakes(e.queue) THEN With(g, "overtaken") ELSE g
  BY DEF Closed, EditorType, written
<1> HIDE DEF g, f
<1>4. CASE Overtakes(e.queue)
  <2>1. f = With(g, "overtaken")
    BY <1>3, <1>4
  <2>2. "overtaken" \in Mishaps
    BY DEF Mishaps
  <2>3. f \in EditorType /\ f = [g EXCEPT !.mishaps = g.mishaps \cup {"overtaken"}]
    BY <1>2, <2>1, <2>2, WithType
  <2>4. /\ f.draft = g.draft /\ f.romaji = g.romaji /\ f.queue = g.queue /\ f.document = g.document
        /\ f.open = g.open /\ f.shown = g.shown /\ f.mishaps = g.mishaps \cup {"overtaken"}
    BY <1>2, <2>3 DEF EditorType
  <2> QED BY <1>2, <1>4, <2>3, <2>4 DEF f, Same, Ends, written
<1>5. CASE ~Overtakes(e.queue)
  BY <1>2, <1>3, <1>5 DEF f, Same, Ends, written
<1> QED BY <1>4, <1>5 DEF f

\* The start of a composition, an update and an insertion.
Starts(e, f) ==
    /\ f.document = e.document /\ f.mishaps = e.mishaps
    /\ \/ f.open = e.open /\ f.shown = e.shown
       \/ ~e.open /\ f.open /\ f.shown = Preedit(e)
Updates(e, f, text) ==
    /\ f.document = e.document /\ f.mishaps = e.mishaps /\ f.open = e.open
    /\ f.shown = IF e.open THEN text ELSE e.shown
Inserts(e, f, text) ==
    IF e.open THEN "inserted" \in f.mishaps /\ e.mishaps \subseteq f.mishaps
    ELSE /\ f.document = e.document \o text /\ f.mishaps = e.mishaps
         /\ f.open = e.open /\ f.shown = e.shown

Does(e, f, s) ==
    \/ s.kind = "start" /\ Starts(e, f)
    \/ s.kind = "update" /\ Updates(e, f, s.text)
    \/ s.kind = "end" /\ Ends(e, f, s.text)
    \/ s.kind = "insert" /\ Inserts(e, f, s.text)

LEMMA RunDoes ==
    ASSUME NEW e \in EditorType, NEW s \in Sessions, NEW f \in Run(s, e)
    PROVE  f \in EditorType /\ Same(e, f) /\ Does(e, f, s)
<1>1. s.kind \in {"start", "update", "end", "insert"} /\ s.text \in Texts
  BY DEF Sessions, Texts
<1>2. CASE s.kind = "start"
  <2>1. f \in RunStart(e)
    BY <1>2 DEF Run
  <2>2. Preedit(e) \in Texts
    BY PreeditType DEF Texts
  <2>3. CASE f = e
    BY <1>2, <2>3 DEF Does, Starts, Same
  <2>4. CASE ~e.open /\ f = [e EXCEPT !.open = TRUE, !.shown = Preedit(e)]
    <3>1. /\ f \in EditorType /\ Same(e, f) /\ f.document = e.document /\ f.mishaps = e.mishaps
          /\ f.open = TRUE /\ f.shown = Preedit(e)
      BY <2>2, <2>4, EditorIs DEF Same
    <3> QED BY <1>2, <2>4, <3>1 DEF Does, Starts
  <2> QED BY <2>1, <2>3, <2>4 DEF RunStart
<1>3. CASE s.kind = "update"
  <2>1. f = IF e.open THEN [e EXCEPT !.shown = s.text] ELSE e
    BY <1>3 DEF Run, RunUpdate
  <2>2. /\ f \in EditorType /\ Same(e, f) /\ f.document = e.document /\ f.mishaps = e.mishaps
        /\ f.open = e.open /\ f.shown = IF e.open THEN s.text ELSE e.shown
    BY <1>1, <2>1, EditorIs DEF Same
  <2> QED BY <1>3, <2>2 DEF Does, Updates
<1>4. CASE s.kind = "end"
  <2>1. f = Closed([e EXCEPT !.document = @ \o s.text])
    BY <1>4 DEF Run, RunEnd
  <2>2. f \in EditorType /\ Same(e, f) /\ Ends(e, f, s.text)
    BY <1>1, <2>1, ClosedEnds DEF Texts
  <2> QED BY <1>4, <2>2 DEF Does
<1>5. CASE s.kind = "insert"
  <2>1. f \in RunInsert(e, s.text)
    BY <1>5 DEF Run
  <2> DEFINE written == e.document \o s.text
             seen == e.shown \o s.text
  <2>2. written \in Texts /\ seen \in Texts
    BY <1>1 DEF EditorType, Texts
  <2>3. \/ e.open /\ f = With([e EXCEPT !.shown = seen], "inserted")
        \/ e.open /\ f = With([e EXCEPT !.document = written], "inserted")
        \/ ~e.open /\ f = [e EXCEPT !.document = written]
    BY <2>1, EditorIs DEF RunInsert
  <2> HIDE DEF written, seen
  <2>4. CASE ~e.open /\ f = [e EXCEPT !.document = written]
    <3>1. /\ f \in EditorType /\ Same(e, f) /\ f.document = written /\ f.mishaps = e.mishaps
          /\ f.open = e.open /\ f.shown = e.shown
      BY <2>2, <2>4, EditorIs DEF Same
    <3> QED BY <1>5, <2>4, <3>1 DEF Does, Inserts, written
  <2>5. ASSUME NEW g \in EditorType, Same(e, g), g.mishaps = e.mishaps, e.open, f = With(g, "inserted")
        PROVE  f \in EditorType /\ Same(e, f) /\ Does(e, f, s)
    <3>1. f \in EditorType /\ f = [g EXCEPT !.mishaps = g.mishaps \cup {"inserted"}]
      BY <2>5, WithType DEF Mishaps
    <3>2. Same(g, f) /\ f.mishaps = g.mishaps \cup {"inserted"}
      BY <3>1, EditorIs DEF Same
    <3> QED BY <1>5, <2>5, <3>1, <3>2 DEF Same, Does, Inserts
  <2>6. CASE e.open /\ f = With([e EXCEPT !.shown = seen], "inserted")
    <3> DEFINE g == [e EXCEPT !.shown = seen]
    <3>1. g \in EditorType /\ Same(e, g) /\ g.mishaps = e.mishaps
      BY <2>2, EditorIs DEF Same
    <3> QED BY <2>5, <2>6, <3>1
  <2>7. CASE e.open /\ f = With([e EXCEPT !.document = written], "inserted")
    <3> DEFINE g == [e EXCEPT !.document = written]
    <3>1. g \in EditorType /\ Same(e, g) /\ g.mishaps = e.mishaps
      BY <2>2, EditorIs DEF Same
    <3> QED BY <2>5, <2>7, <3>1
  <2> QED BY <2>3, <2>4, <2>6, <2>7
<1> QED BY <1>1, <1>2, <1>3, <1>4, <1>5

\* All but the queue.
Waits(e, f, s) ==
    /\ f.draft = e.draft /\ f.romaji = e.romaji /\ f.document = e.document
    /\ f.mishaps = e.mishaps /\ f.open = e.open /\ f.shown = e.shown
    /\ f.queue = Append(e.queue, s)
Refuses(e, f) ==
    /\ Same(e, f) /\ f.document = e.document /\ f.open = e.open /\ f.shown = e.shown
    /\ f.mishaps = e.mishaps \cup {"refused"}

LEMMA RequestDoes ==
    ASSUME NEW e \in EditorType, NEW kind \in {"start", "update", "end", "insert"},
           NEW text \in Texts, NEW f \in Request(kind, text, e)
    PROVE  LET s == [kind |-> kind, text |-> text]
           IN  /\ s \in Sessions /\ f \in EditorType
               /\ \/ Waits(e, f, s)
                  \/ Refuses(e, f)
                  \/ e.queue = <<>> /\ Same(e, f) /\ Does(e, f, s)
<1> DEFINE s == [kind |-> kind, text |-> text]
           q == Append(e.queue, s)
<1>1. s \in Sessions
  BY DEF Sessions, Texts
<1>2. q \in Queues
  BY <1>1 DEF Queues, EditorType
<1>3. f \in {[e EXCEPT !.queue = q], With(e, "refused")} \/ (e.queue = <<>> /\ f \in Run(s, e))
  BY EditorIs DEF Request
<1> HIDE DEF s, q
<1>4. CASE f = [e EXCEPT !.queue = q]
  <2>1. /\ f \in EditorType
        /\ f.draft = e.draft /\ f.romaji = e.romaji /\ f.document = e.document
        /\ f.mishaps = e.mishaps /\ f.open = e.open /\ f.shown = e.shown
        /\ f.queue = q
    BY <1>2, <1>4, EditorIs
  <2> QED BY <1>1, <2>1 DEF Waits, s, q
<1>5. CASE f = With(e, "refused")
  <2>1. f \in EditorType /\ f = [e EXCEPT !.mishaps = e.mishaps \cup {"refused"}]
    BY <1>5, WithType DEF Mishaps
  <2>2. Refuses(e, f)
    BY <2>1, EditorIs DEF Refuses, Same
  <2> QED BY <1>1, <2>1, <2>2 DEF s
<1>6. CASE e.queue = <<>> /\ f \in Run(s, e)
  BY <1>1, <1>6, RunDoes DEF s
<1> QED BY <1>3, <1>4, <1>5, <1>6

-----------------------------------------------------------------------------
\* What is written and what waits to be.

TextOf(s) == IF Carries(s) THEN s.text ELSE <<>>
TextsOf(q) == [i \in DOMAIN q |-> TextOf(q[i])]
WaitingIn(q) == FlattenSeq(TextsOf(q))

LEMMA TextsType ==
    ASSUME NEW q \in Queues
    PROVE  /\ TextsOf(q) \in Seq(Seq(Letters)) /\ DOMAIN TextsOf(q) = DOMAIN q
           /\ Len(TextsOf(q)) = Len(q)
           /\ \A i \in DOMAIN q : TextsOf(q)[i] = TextOf(q[i]) /\ TextOf(q[i]) \in Seq(Letters)
<1>1. \A i \in DOMAIN q : q[i] \in Sessions
  BY DEF Queues
<1>2. \A s \in Sessions : TextOf(s) \in Seq(Letters)
  BY DEF Sessions, TextOf
<1>3. q \in Seq(Sessions) /\ DOMAIN q = 1 .. Len(q) /\ Len(q) \in Nat
  BY DEF Queues
<1> QED BY <1>1, <1>2, <1>3 DEF TextsOf

LEMMA WaitingIs ==
    ASSUME NEW e \in EditorType
    PROVE  Waiting(e) = WaitingIn(e.queue) /\ e.queue \in Queues
BY EditorIs DEF Waiting, WaitingIn, TextsOf, TextOf, Carries

LEMMA WaitingType ==
    ASSUME NEW q \in Queues
    PROVE  WaitingIn(q) \in Seq(Letters)
BY TextsType, FlattenType DEF WaitingIn

LEMMA WaitingEmpty == WaitingIn(<<>>) = <<>>
<1>1. TextsOf(<<>>) = <<>>
  BY DEF TextsOf
<1> QED BY <1>1, FlattenEmpty DEF WaitingIn

LEMMA WaitingAppend ==
    ASSUME NEW q \in Queues, NEW s \in Sessions
    PROVE  WaitingIn(Append(q, s)) = WaitingIn(q) \o TextOf(s)
<1>1. TextOf(s) \in Seq(Letters)
  BY DEF Sessions, TextOf
<1>2. TextsOf(Append(q, s)) = Append(TextsOf(q), TextOf(s))
  <2>1. Append(q, s) \in Queues /\ Len(Append(q, s)) = Len(q) + 1
    BY DEF Queues
  <2>2. /\ DOMAIN q = 1 .. Len(q) /\ Len(q) \in Nat /\ DOMAIN Append(q, s) = 1 .. Len(q) + 1
        /\ \A i \in 1 .. Len(q) + 1 : Append(q, s)[i] = IF i = Len(q) + 1 THEN s ELSE q[i]
    BY DEF Queues
  <2> DEFINE more == Append(q, s)
             texts == Append(TextsOf(q), TextOf(s))
  <2>3. /\ texts \in Seq(Seq(Letters)) /\ Len(texts) = Len(q) + 1
        /\ \A i \in 1 .. Len(q) + 1 : texts[i] = IF i = Len(q) + 1 THEN TextOf(s) ELSE TextOf(q[i])
    BY <1>1, <2>2, TextsType
  <2>4. /\ TextsOf(more) \in Seq(Seq(Letters)) /\ Len(TextsOf(more)) = Len(q) + 1
        /\ \A i \in 1 .. Len(q) + 1 : TextsOf(more)[i] = TextOf(more[i])
    BY <2>1, <2>2, TextsType
  <2>5. \A i \in 1 .. Len(q) + 1 : texts[i] = TextsOf(more)[i]
    BY <2>2, <2>3, <2>4
  <2> HIDE DEF texts, more
  <2>6. TextsOf(more) = texts
    BY <2>3, <2>4, <2>5, SeqEqual
  <2> QED BY <2>6 DEF more, texts
<1> QED BY <1>1, <1>2, TextsType, FlattenAppend DEF WaitingIn

LEMMA WaitingHead ==
    ASSUME NEW q \in Queues, q # <<>>
    PROVE  /\ Head(q) \in Sessions /\ Tail(q) \in Queues
           /\ WaitingIn(q) = TextOf(Head(q)) \o WaitingIn(Tail(q))
<1>1. /\ Head(q) \in Sessions /\ Tail(q) \in Queues /\ Head(q) = q[1] /\ Len(Tail(q)) = Len(q) - 1
      /\ \A i \in 1 .. Len(q) - 1 : Tail(q)[i] = q[i + 1]
      /\ Len(q) \in Nat /\ Len(q) # 0 /\ DOMAIN q = 1 .. Len(q)
  BY DEF Queues
<1>2. /\ TextsOf(q) \in Seq(Seq(Letters)) /\ Len(TextsOf(q)) = Len(q)
      /\ \A i \in 1 .. Len(q) : TextsOf(q)[i] = TextOf(q[i])
  BY <1>1, TextsType
<1>3. /\ TextsOf(Tail(q)) \in Seq(Seq(Letters)) /\ Len(TextsOf(Tail(q))) = Len(q) - 1
      /\ \A i \in 1 .. Len(q) - 1 : TextsOf(Tail(q))[i] = TextOf(Tail(q)[i])
  <2>1. DOMAIN Tail(q) = 1 .. Len(q) - 1
    BY <1>1 DEF Queues
  <2> QED BY <1>1, <2>1, TextsType
<1> DEFINE texts == TextsOf(q)
           rest == TextsOf(Tail(q))
<1>4. texts # <<>> /\ Head(texts) = TextOf(Head(q))
  BY <1>1, <1>2
<1>5. Tail(texts) = rest
  <2>1. Tail(texts) \in Seq(Seq(Letters)) /\ Len(Tail(texts)) = Len(q) - 1
    BY <1>1, <1>2
  <2>2. \A i \in 1 .. Len(q) - 1 : Tail(texts)[i] = rest[i]
    <3> SUFFICES ASSUME NEW i \in 1 .. Len(q) - 1 PROVE Tail(texts)[i] = rest[i]
      OBVIOUS
    <3>1. i + 1 \in 1 .. Len(q) /\ Tail(q)[i] = q[i + 1]
      BY <1>1
    <3>2. Tail(texts)[i] = texts[i + 1]
      BY <1>1, <1>2
    <3> QED BY <1>2, <1>3, <3>1, <3>2
  <2> HIDE DEF texts, rest
  <2> QED BY <1>3, <2>1, <2>2, SeqEqual DEF rest
<1> HIDE DEF texts, rest
<1>6. texts \in Seq(Seq(Letters))
  BY <1>2 DEF texts
<1>7. FlattenSeq(texts) = Head(texts) \o FlattenSeq(Tail(texts))
  BY <1>4, <1>6, FlattenHead
<1> QED BY <1>1, <1>4, <1>5, <1>7 DEF WaitingIn, texts, rest

LEMMA WaitingNone ==
    ASSUME NEW q \in Queues, WaitingIn(q) = <<>>
    PROVE  \A i \in DOMAIN q : TextOf(q[i]) = <<>>
BY TextsType, FlattenNone DEF WaitingIn

-----------------------------------------------------------------------------
\* Every letter once.

Regular(e) == e.mishaps \subseteq {"overtaken", "kept"}

LEMMA RequestWrites ==
    ASSUME NEW e \in EditorType, NEW kind \in {"start", "update", "end", "insert"},
           NEW text \in Texts, NEW f \in Request(kind, text, e)
    PROVE  /\ f \in EditorType /\ f.draft = e.draft /\ f.romaji = e.romaji
           /\ Regular(f) => Regular(e) /\ Written(f) = IF kind \in {"end", "insert"}
                                                       THEN Written(e) \o text ELSE Written(e)
<1> DEFINE s == [kind |-> kind, text |-> text]
<1>1. /\ s \in Sessions /\ f \in EditorType
      /\ \/ Waits(e, f, s)
         \/ Refuses(e, f)
         \/ e.queue = <<>> /\ Same(e, f) /\ Does(e, f, s)
  BY RequestDoes
<1>2. TextOf(s) = (IF kind \in {"end", "insert"} THEN text ELSE <<>>) /\ s.kind = kind /\ s.text = text
  BY DEF TextOf, Carries
<1>3. TextOf(s) \in Texts /\ e.document \in Texts /\ f.document \in Texts
  BY <1>1, <1>2, EditorIs
<1>4. Waiting(e) \in Texts /\ Waiting(f) \in Texts
  BY <1>1, WaitingIs, WaitingType DEF Texts
<1> HIDE DEF s
<1>5. f.draft = e.draft /\ f.romaji = e.romaji
  BY <1>1 DEF Waits, Refuses, Same
<1>6. ASSUME Regular(f), Waits(e, f, s)
      PROVE  Regular(e) /\ Written(f) = Written(e) \o TextOf(s)
  <2>1. Waiting(f) = Waiting(e) \o TextOf(s)
    BY <1>1, <1>6, WaitingIs, WaitingAppend DEF Waits
  <2>2. e.document \o (Waiting(e) \o TextOf(s)) = (e.document \o Waiting(e)) \o TextOf(s)
    <3> DEFINE x == e.document
               y == Waiting(e)
               z == TextOf(s)
    <3>1. x \in Texts /\ y \in Texts /\ z \in Texts
      BY <1>3, <1>4
    <3> HIDE DEF x, y, z
    <3>2. (x \o y) \o z = x \o (y \o z)
      BY <3>1, TextsAssociate
    <3> QED BY <3>2 DEF x, y, z
  <2> QED BY <1>6, <2>1, <2>2 DEF Waits, Regular, Written
<1>7. ASSUME Regular(f), Refuses(e, f) PROVE FALSE
  BY <1>7 DEF Regular, Refuses
<1>8. ASSUME Regular(f), e.queue = <<>>, Same(e, f), Does(e, f, s)
      PROVE  Regular(e) /\ Written(f) = Written(e) \o TextOf(s)
  <2>1. Waiting(e) = <<>> /\ Waiting(f) = <<>>
    BY <1>1, <1>8, WaitingIs, WaitingEmpty DEF Same
  <2>2. Regular(e) /\ f.document = e.document \o TextOf(s)
    <3>1. e.document \o <<>> = e.document
      BY <1>3, TextsConcat
    <3> QED BY <1>2, <1>8, <3>1 DEF Does, Starts, Updates, Ends, Inserts, Regular
  <2>3. f.document \o <<>> = f.document /\ e.document \o <<>> = e.document
    BY <1>3, TextsConcat
  <2> QED BY <2>1, <2>2, <2>3 DEF Written
<1>9. Written(e) \o <<>> = Written(e)
  BY <1>3, <1>4, TextsConcat DEF Written
<1> QED BY <1>1, <1>2, <1>5, <1>6, <1>7, <1>8, <1>9

LEMMA WrittenType ==
    ASSUME NEW e \in EditorType
    PROVE  Written(e) \in Texts /\ Written(e) \o <<>> = Written(e)
<1>1. e.document \in Texts /\ Waiting(e) \in Texts
  BY EditorIs, WaitingIs, WaitingType DEF Texts
<1> QED BY <1>1, TextsConcat DEF Written

LEMMA EnsureKeeps ==
    ASSUME NEW e \in EditorType, NEW d, Kept(e, d), NEW f \in EnsureComposition(e)
    PROVE  f \in EditorType /\ f.draft = e.draft /\ f.romaji = e.romaji /\ Kept(f, d)
<1>1. CASE f = e
  BY <1>1
<1>2. CASE f \in Request("start", <<>>, e)
  <2>1. <<>> \in Texts
    BY EditorIs
  <2>2. /\ f \in EditorType /\ f.draft = e.draft /\ f.romaji = e.romaji
        /\ Regular(f) => Regular(e) /\ Written(f) = Written(e)
    BY <1>2, <2>1, RequestWrites
  <2> QED BY <2>2 DEF Kept, Regular, Preedit
<1> QED BY <1>1, <1>2 DEF EnsureComposition

LEMMA UpdateKeeps ==
    ASSUME NEW e \in EditorType, NEW d, Kept(e, d), NEW text \in Texts,
           NEW f \in UpdateCompositionText(e, text)
    PROVE  f \in EditorType /\ f.draft = e.draft /\ f.romaji = e.romaji /\ Kept(f, d)
<1>1. CASE f = e
  BY <1>1
<1>2. CASE f \in Request("update", text, e)
  <2>1. /\ f \in EditorType /\ f.draft = e.draft /\ f.romaji = e.romaji
        /\ Regular(f) => Regular(e) /\ Written(f) = Written(e)
    BY <1>2, RequestWrites
  <2> QED BY <2>1 DEF Kept, Regular, Preedit
<1> QED BY <1>1, <1>2 DEF UpdateCompositionText

LEMMA ShowsKeeps ==
    ASSUME NEW e \in EditorType, NEW d, Kept(e, d), NEW f \in Shows(e)
    PROVE  f \in EditorType /\ f.draft = e.draft /\ f.romaji = e.romaji /\ Kept(f, d)
<1>1. PICK g \in EnsureComposition(e) : f \in UpdateCompositionText(g, Preedit(g))
  BY DEF Shows
<1>2. g \in EditorType /\ g.draft = e.draft /\ g.romaji = e.romaji /\ Kept(g, d)
  BY EnsureKeeps
<1>3. Preedit(g) \in Texts
  BY <1>2, PreeditType DEF Texts
<1> QED BY <1>1, <1>2, <1>3, UpdateKeeps

LEMMA EmptiedWrites ==
    ASSUME NEW e \in EditorType
    PROVE  LET f == Emptied(e)
           IN  /\ f \in EditorType /\ Preedit(f) = <<>> /\ Written(f) = Written(e)
               /\ f.mishaps = e.mishaps /\ f.open = e.open /\ f.shown = e.shown
               /\ f.queue = e.queue /\ f.document = e.document
               /\ f.draft = <<>> /\ f.romaji = <<>>
<1> DEFINE f == Emptied(e)
<1>1. /\ f.mishaps = e.mishaps /\ f.open = e.open /\ f.shown = e.shown
      /\ f.queue = e.queue /\ f.document = e.document
      /\ f.draft = <<>> /\ f.romaji = <<>>
  BY EditorIs DEF Emptied
<1>2. f \in EditorType /\ Preedit(f) = <<>>
  BY PreeditType
<1>3. Written(f) = Written(e)
  BY <1>1, <1>2, WaitingIs DEF Written
<1> QED BY <1>1, <1>2, <1>3

LEMMA CommitKeeps ==
    ASSUME NEW e \in EditorType, NEW text \in Texts, NEW f \in CommitComposition(e, text)
    PROVE  /\ f \in EditorType /\ Preedit(f) = <<>>
           /\ Regular(f) => Regular(e) /\ Written(f) = Written(e) \o text
<1>1. PICK g \in Request("end", text, e) : f = Emptied(g)
  BY DEF CommitComposition
<1>2. /\ g \in EditorType
      /\ Regular(g) => Regular(e) /\ Written(g) = Written(e) \o text
  BY RequestWrites
<1> QED BY <1>1, <1>2, EmptiedWrites DEF Regular

LEMMA CancelKeeps ==
    ASSUME NEW e \in EditorType, NEW f \in CancelComposition(e)
    PROVE  /\ f \in EditorType /\ Preedit(f) = <<>>
           /\ Regular(f) => Regular(e) /\ Written(f) = Written(e)
<1>1. CASE f \in CommitComposition(e, <<>>)
  <2>1. <<>> \in Texts /\ Written(e) \o <<>> = Written(e)
    BY EditorIs, WrittenType
  <2> QED BY <1>1, <2>1, CommitKeeps
<1>2. CASE f = Emptied(e)
  BY <1>2, EmptiedWrites DEF Regular
<1> QED BY <1>1, <1>2 DEF CancelComposition

LEMMA InsertKeeps ==
    ASSUME NEW e \in EditorType, NEW d, Kept(e, d), NEW newly \in Texts,
           NEW f \in InsertDirectly(e, newly)
    PROVE  f \in EditorType /\ Kept(f, d)
<1>1. PICK g \in Request("insert", newly, e) :
             f = Emptied(IF Preedit(e) = newly THEN g ELSE With(g, "dropped"))
  BY DEF InsertDirectly
<1>2. /\ g \in EditorType
      /\ Regular(g) => Regular(e) /\ Written(g) = Written(e) \o newly
  BY RequestWrites
<1>3. CASE Preedit(e) = newly
  <2>1. f \in EditorType /\ Preedit(f) = <<>> /\ Written(f) = Written(g) /\ f.mishaps = g.mishaps
    BY <1>1, <1>2, <1>3, EmptiedWrites
  <2>2. Written(f) \o <<>> = Written(f)
    BY <2>1, WrittenType
  <2> QED BY <1>2, <1>3, <2>1, <2>2 DEF Kept, Regular
<1>4. CASE Preedit(e) # newly
  <2>1. /\ With(g, "dropped") \in EditorType
        /\ With(g, "dropped").mishaps = g.mishaps \cup {"dropped"}
    <3>1. /\ With(g, "dropped") \in EditorType
          /\ With(g, "dropped") = [g EXCEPT !.mishaps = g.mishaps \cup {"dropped"}]
      BY <1>2, WithType DEF Mishaps
    <3> QED BY <1>2, <3>1, EditorIs
  <2>2. f \in EditorType /\ f.mishaps = g.mishaps \cup {"dropped"}
    BY <1>1, <1>4, <2>1, EmptiedWrites
  <2>3. "dropped" \in f.mishaps /\ "dropped" \notin {"overtaken", "kept"}
    BY <2>2
  <2> QED BY <2>2, <2>3 DEF Kept
<1> QED BY <1>3, <1>4

Types(e, d, n) == e \in EditorType /\ d \in Texts /\ n \in 0 .. MaxKeys

LEMMA TextsCut ==
    /\ \A s \in Texts : Front(s) \in Texts
    /\ \A s, t \in Texts : t # <<>> => Front(s \o t) = s \o Front(t)
    /\ \A s, t \in Texts : SubSeq(s \o t, 1, Len(s \o t) - Len(t)) = s
    /\ \A s, t \in Texts : SubSeq(s, 1, Len(s) - Len(t)) \in Texts
<1>1. ASSUME NEW s \in Texts PROVE Front(s) \in Texts
  BY DEF Front, Texts
<1>2. ASSUME NEW s \in Texts, NEW t \in Texts, t # <<>> PROVE Front(s \o t) = s \o Front(t)
  BY <1>2, ConcatFront DEF Texts
<1>3. ASSUME NEW s \in Texts, NEW t \in Texts
      PROVE  SubSeq(s \o t, 1, Len(s \o t) - Len(t)) = s
  BY ConcatCut DEF Texts
<1>4. ASSUME NEW s \in Texts, NEW t \in Texts PROVE SubSeq(s, 1, Len(s) - Len(t)) \in Texts
  BY DEF Texts
<1> QED BY <1>1, <1>2, <1>3, <1>4

\* The fields beside the draft and the romaji.
Elsewhere(e, f) ==
    /\ f.open = e.open /\ f.shown = e.shown /\ f.queue = e.queue
    /\ f.document = e.document /\ f.mishaps = e.mishaps

\* What a flush leaves: the draft, and perhaps the letter that waited.
LEMMA FlushIs ==
    ASSUME NEW e \in EditorType, NEW f \in Flush(e)
    PROVE  /\ f \in EditorType /\ Elsewhere(e, f) /\ f.romaji = <<>>
           /\ f.draft = e.draft \/ f.draft = Preedit(e)
           /\ Preedit(f) = f.draft /\ f.draft \in Texts
<1>1. e.draft \in Texts /\ <<>> \in Texts
  BY EditorIs
<1>2. Preedit(e) \in Texts
  BY PreeditType DEF Texts
<1>3. f = [e EXCEPT !.romaji = <<>>] \/ f = [e EXCEPT !.draft = Preedit(e), !.romaji = <<>>]
  BY DEF Flush
<1>4. /\ f \in EditorType /\ Elsewhere(e, f) /\ f.romaji = <<>>
      /\ f.draft = e.draft \/ f.draft = Preedit(e)
  BY <1>1, <1>2, <1>3, EditorIs DEF Elsewhere
<1>5. f.draft \in Texts
  BY <1>1, <1>2, <1>4
<1> QED BY <1>4, <1>5, TextsConcat DEF Preedit

\* The letters that are given up are no longer due, and were the last ones.
LEMMA FlushKeeps ==
    ASSUME Types(editor, due, typed), Kept(editor, due), NEW f \in Flush(editor) \cup {editor}
    PROVE  f \in EditorType /\ DueAfter(editor, f) \in Texts /\ Kept(f, DueAfter(editor, f))
<1> DEFINE w == Written(editor)
           d == editor.draft
           r == editor.romaji
           left == DueAfter(editor, f)
<1>1. editor \in EditorType /\ due \in Texts /\ w \in Texts /\ d \in Texts /\ r \in Texts
  BY EditorIs, WrittenType DEF Types
<1>2. f \in EditorType /\ Elsewhere(editor, f)
  BY <1>1, FlushIs DEF Elsewhere
<1>3. Written(f) = w /\ f.mishaps = editor.mishaps
  BY <1>1, <1>2, WaitingIs DEF Elsewhere, Written
<1>4. left \in Texts
  BY <1>1, TextsCut DEF DueAfter
<1>5. CASE Preedit(f) = Preedit(editor)
  <2>1. left = due
    BY <1>5 DEF DueAfter
  <2> QED BY <1>2, <1>3, <1>4, <1>5, <2>1 DEF Kept
<1>6. CASE Preedit(f) # Preedit(editor)
  <2>1. Preedit(f) = d
    BY <1>1, <1>6, FlushIs
  <2>2. left = SubSeq(due, 1, Len(due) - Len(r))
    BY <1>6 DEF DueAfter
  <2>3. ASSUME f.mishaps \subseteq {"overtaken", "kept"} PROVE w \o d = left
    <3>1. due = w \o (d \o r)
      BY <1>3, <2>3 DEF Kept, Preedit
    <3> HIDE DEF w, d, r, left
    <3>2. due = (w \o d) \o r
      BY <1>1, <3>1, TextsAssociate
    <3>3. w \o d \in Texts
      BY <1>1, TextsConcat
    <3> DEFINE x == w \o d
    <3>4. x \in Texts /\ due = x \o r
      BY <3>2, <3>3
    <3> HIDE DEF x
    <3>5. SubSeq(x \o r, 1, Len(x \o r) - Len(r)) = x
      BY <1>1, <3>4, TextsCut
    <3>6. left = x
      BY <2>2, <3>4, <3>5
    <3> QED BY <3>6 DEF x
  <2> QED BY <1>2, <1>3, <1>4, <2>1, <2>3 DEF Kept
<1> QED BY <1>5, <1>6

LEMMA TextsSplit ==
    /\ \A s \in Texts : \A n \in 0 .. Len(s) :
          /\ SubSeq(s, 1, n) \in Texts /\ SubSeq(s, n + 1, Len(s)) \in Texts
          /\ SubSeq(s, 1, n) \o SubSeq(s, n + 1, Len(s)) = s
    /\ \A s, t \in Texts : SubSeq(s \o t, Len(s) + 1, Len(s \o t)) = t
    /\ \A s \in Texts : SubSeq(s, Len(s) + 1, Len(s)) = <<>>
<1>1. ASSUME NEW s \in Texts, NEW n \in 0 .. Len(s)
      PROVE  /\ SubSeq(s, 1, n) \in Texts /\ SubSeq(s, n + 1, Len(s)) \in Texts
             /\ SubSeq(s, 1, n) \o SubSeq(s, n + 1, Len(s)) = s
  <2> DEFINE l == SubSeq(s, 1, n)
             r == SubSeq(s, n + 1, Len(s))
             x == l \o r
  <2>1. s \in Texts /\ Len(s) \in Nat /\ n \in Nat /\ n <= Len(s)
    BY DEF Texts
  <2>2. l \in Texts /\ Len(l) = n /\ \A i \in 1 .. n : l[i] = s[i]
    BY <2>1 DEF Texts
  <2>3. /\ r \in Texts /\ Len(r) = Len(s) - n
        /\ \A i \in 1 .. Len(s) - n : r[i] = s[n + i]
    BY <2>1 DEF Texts
  <2> HIDE DEF l, r
  <2>4. /\ x \in Texts /\ Len(x) = Len(s)
        /\ \A i \in 1 .. Len(s) : x[i] = IF i <= n THEN l[i] ELSE r[i - n]
    BY <2>1, <2>2, <2>3 DEF Texts
  <2> HIDE DEF x
  <2>5. \A i \in 1 .. Len(s) : x[i] = s[i]
    BY <2>1, <2>2, <2>3, <2>4
  <2>6. x = s
    BY <2>1, <2>4, <2>5, SeqEqual DEF Texts
  <2> QED BY <2>2, <2>3, <2>6 DEF x, l, r
<1>2. ASSUME NEW s \in Texts, NEW t \in Texts
      PROVE  SubSeq(s \o t, Len(s) + 1, Len(s \o t)) = t
  BY DEF Texts
<1>3. ASSUME NEW s \in Texts PROVE SubSeq(s, Len(s) + 1, Len(s)) = <<>>
  BY DEF Texts
<1> QED BY <1>1, <1>2, <1>3

\* A key that gives text: f is the editor after a flush, or as it was, and e the
\* one with the letter, whose draft ends with what is new.
Keyed(f, e, before, newly) ==
    /\ Elsewhere(f, e)
    /\ Preedit(e) = Append(Preedit(f), typed + 1)
    /\ e.draft = before \o newly
    /\ due' = Append(DueAfter(editor, f), typed + 1)
    /\ editor' \in Enters(e, newly)

LEMMA KeyIs ==
    ASSUME editor \in EditorType, typed \in 0 .. MaxKeys, Type \/ TypeDirectly
    PROVE  /\ typed' = typed + 1 /\ typed < MaxKeys /\ typed + 1 \in Letters
           /\ \E f \in Flush(editor) \cup {editor} : \E e \in EditorType, before, newly \in Texts :
                 Keyed(f, e, before, newly)
<1> DEFINE k == typed + 1
<1>1. typed' = k /\ typed < MaxKeys /\ k \in Letters
  <2>1. typed' = typed + 1 /\ CanType
    BY Zenon DEF Type, TypeDirectly
  <2> QED BY <2>1, BoundsAssumption DEF CanType, Letters
<1>2. ASSUME NEW f \in Flush(editor) \cup {editor}
      PROVE  f \in EditorType /\ f.draft \in Texts /\ f.romaji \in Texts
  BY FlushIs, EditorIs
<1> HIDE DEF k
<1>3. CASE Type
  <2>1. PICK f \in Flush(editor) \cup {editor} :
           LET romaji == Append(f.romaji, k)
           IN  /\ due' = Append(DueAfter(editor, f), k)
               /\ \E n \in 0 .. Len(romaji) :
                   LET newly == SubSeq(romaji, 1, n)
                   IN  editor' \in Enters([f EXCEPT !.draft = @ \o newly,
                                                   !.romaji = SubSeq(romaji, n + 1, Len(romaji))], newly)
    BY <1>3 DEF Type, k
  <2> DEFINE romaji == Append(f.romaji, k)
  <2>2. PICK n \in 0 .. Len(romaji) :
           editor' \in Enters([f EXCEPT !.draft = @ \o SubSeq(romaji, 1, n),
                                       !.romaji = SubSeq(romaji, n + 1, Len(romaji))],
                              SubSeq(romaji, 1, n))
    BY <2>1
  <2> DEFINE newly == SubSeq(romaji, 1, n)
             rest == SubSeq(romaji, n + 1, Len(romaji))
             draft == f.draft \o newly
             e == [f EXCEPT !.draft = draft, !.romaji = rest]
  <2>3. f \in EditorType /\ f.draft \in Texts /\ f.romaji \in Texts
    BY <1>2
  <2>4. romaji \in Texts /\ f.draft \o romaji = Append(f.draft \o f.romaji, k)
    BY <1>1, <2>3, TextsConcat
  <2> HIDE DEF romaji
  <2>5. newly \in Texts /\ rest \in Texts /\ newly \o rest = romaji
    BY <2>4, TextsSplit
  <2>6. editor' \in Enters(e, newly)
    BY <2>2, <2>3, EditorIs
  <2> HIDE DEF newly, rest
  <2>7. draft \in Texts /\ draft \o rest = Append(f.draft \o f.romaji, k)
    BY <2>3, <2>4, <2>5, TextsConcat
  <2>8. e \in EditorType /\ e.draft = draft /\ e.romaji = rest /\ Elsewhere(f, e)
    <3> HIDE DEF draft
    <3> QED BY <2>3, <2>5, <2>7, EditorIs DEF Elsewhere
  <2> HIDE DEF e
  <2>9. Keyed(f, e, f.draft, newly)
    BY <2>1, <2>6, <2>7, <2>8 DEF Keyed, Preedit, k
  <2> QED BY <1>1, <2>3, <2>5, <2>8, <2>9 DEF k
<1>4. CASE TypeDirectly
  <2>1. PICK f \in Flush(editor) :
           LET flushed == SubSeq(f.draft, Len(editor.draft) + 1, Len(f.draft))
           IN  /\ due' = Append(DueAfter(editor, f), k)
               /\ editor' \in Enters([f EXCEPT !.draft = Append(@, k)], Append(flushed, k))
    BY <1>4 DEF TypeDirectly, k
  <2> DEFINE flushed == SubSeq(f.draft, Len(editor.draft) + 1, Len(f.draft))
             newly == Append(flushed, k)
             draft == Append(f.draft, k)
             e == [f EXCEPT !.draft = draft]
  <2>2. /\ f \in EditorType /\ f.draft \in Texts /\ f.romaji = <<>> /\ Preedit(f) = f.draft
        /\ editor.draft \in Texts /\ editor.romaji \in Texts
        /\ f.draft = editor.draft \/ f.draft = editor.draft \o editor.romaji
    BY FlushIs, EditorIs DEF Preedit
  <2>3. flushed \in Texts /\ f.draft = editor.draft \o flushed
    <3>1. CASE f.draft = editor.draft
      <4>1. flushed = <<>> /\ <<>> \in Texts
        BY <2>2, <3>1, TextsSplit, EditorIs
      <4> QED BY <2>2, <3>1, <4>1, TextsConcat
    <3>2. CASE f.draft = editor.draft \o editor.romaji
      <4>1. flushed = SubSeq(editor.draft \o editor.romaji, Len(editor.draft) + 1,
                             Len(editor.draft \o editor.romaji))
        BY <3>2
      <4>2. flushed = editor.romaji
        BY ONLY <2>2, <4>1, TextsSplit
      <4> HIDE DEF flushed
      <4> QED BY <2>2, <3>2, <4>2
    <3> QED BY <2>2, <3>1, <3>2
  <2>4. editor' \in Enters(e, newly)
    BY <2>1, <2>2, EditorIs
  <2> HIDE DEF flushed
  <2>5. newly \in Texts /\ draft \in Texts /\ draft = editor.draft \o newly
    <3>1. newly \in Texts /\ editor.draft \o newly = Append(editor.draft \o flushed, k)
      BY <1>1, <2>2, <2>3, TextsConcat
    <3>2. draft \in Texts
      BY <1>1, <2>2, TextsConcat
    <3> QED BY <2>3, <3>1, <3>2
  <2> HIDE DEF newly, draft
  <2>6. e \in EditorType /\ e.draft = draft /\ e.romaji = <<>> /\ Elsewhere(f, e)
    BY <2>2, <2>5, EditorIs DEF Elsewhere
  <2> HIDE DEF e
  <2>7. Preedit(e) = Append(Preedit(f), k)
    BY <2>2, <2>5, <2>6, TextsConcat DEF Preedit, draft
  <2>8. Keyed(f, e, editor.draft, newly)
    BY <2>1, <2>4, <2>5, <2>6, <2>7 DEF Keyed, k
  <2> QED BY <1>1, <2>2, <2>5, <2>6, <2>8 DEF k
<1> QED BY <1>3, <1>4

LEMMA EntersKeeps ==
    ASSUME NEW e \in EditorType, NEW d, Kept(e, d), NEW newly \in Texts, NEW f \in Enters(e, newly)
    PROVE  f \in EditorType /\ Kept(f, d)
<1>1. PICK g \in EnsureComposition(e) :
             f \in IF g.open THEN UpdateCompositionText(g, Preedit(g))
                   ELSE IF newly # <<>> THEN InsertDirectly(g, newly) ELSE {g}
  BY DEF Enters
<1>2. g \in EditorType /\ Kept(g, d) /\ Preedit(g) \in Texts
  BY EnsureKeeps, PreeditType DEF Texts
<1> QED BY <1>1, <1>2, UpdateKeeps, InsertKeeps

\* A key: the letters that are due and those of the preedit get the same one.
LEMMA TypeKeeps ==
    ASSUME Types(editor, due, typed), Kept(editor, due), Type \/ TypeDirectly
    PROVE  Types(editor, due, typed)' /\ Kept(editor, due)'
<1> DEFINE k == typed + 1
<1>1. /\ typed' = k /\ typed < MaxKeys /\ k \in Letters
      /\ \E f \in Flush(editor) \cup {editor} : \E e \in EditorType, before, newly \in Texts :
            Keyed(f, e, before, newly)
  BY KeyIs DEF Types
<1>2. PICK f \in Flush(editor) \cup {editor} : \E e \in EditorType, before, newly \in Texts :
            Keyed(f, e, before, newly)
  BY <1>1
<1>3. PICK e \in EditorType, before \in Texts, newly \in Texts : Keyed(f, e, before, newly)
  BY <1>2
<1> DEFINE d == DueAfter(editor, f)
<1>4. f \in EditorType /\ d \in Texts /\ Kept(f, d)
  BY FlushKeeps
<1>5. /\ Elsewhere(f, e) /\ Preedit(e) = Append(Preedit(f), k)
      /\ due' = Append(d, k) /\ editor' \in Enters(e, newly)
  BY <1>3 DEF Keyed
<1> HIDE DEF d, k
<1>6. typed' \in 0 .. MaxKeys /\ due' \in Texts
  BY <1>1, <1>4, <1>5, TextsConcat, BoundsAssumption DEF Letters
<1>7. Kept(e, due')
  <2>1. Written(e) = Written(f) /\ e.mishaps = f.mishaps
    BY <1>4, <1>5, WaitingIs DEF Elsewhere, Written
  <2>2. Written(f) \in Texts /\ Preedit(f) \in Texts
    BY <1>4, WrittenType, PreeditType DEF Texts
  <2>3. Written(f) \o Append(Preedit(f), k) = Append(Written(f) \o Preedit(f), k)
    BY <1>1, <2>2, TextsAppend
  <2> QED BY <1>4, <1>5, <2>1, <2>3 DEF Kept
<1>8. editor' \in EditorType /\ Kept(editor', due')
  BY <1>3, <1>5, <1>7, EntersKeeps
<1> QED BY <1>6, <1>8 DEF Types, Kept, Written, Waiting, Preedit

\* The last letter that is due goes with the last one of the preedit.
LEMMA BackspaceKeeps ==
    ASSUME Types(editor, due, typed), Kept(editor, due), Backspace
    PROVE  Types(editor, due, typed)' /\ Kept(editor, due)'
<1> DEFINE romaji == IF editor.romaji # <<>> THEN Front(editor.romaji) ELSE editor.romaji
           draft == IF editor.romaji # <<>> THEN editor.draft ELSE Front(editor.draft)
           e == [editor EXCEPT !.draft = draft, !.romaji = romaji]
<1>1. editor.draft \in Texts /\ editor.romaji \in Texts /\ editor \in EditorType /\ <<>> \in Texts
  BY EditorIs DEF Types
<1>2. e = IF editor.romaji # <<>> THEN [editor EXCEPT !.romaji = Front(@)]
                                  ELSE [editor EXCEPT !.draft = Front(@)]
  BY <1>1, EditorIs
<1>3. /\ due' = Front(due) /\ typed' = typed /\ Preedit(editor) # <<>>
      /\ editor' \in IF HasPreedit(e) THEN Shows(e) ELSE CancelComposition(e)
  BY <1>2 DEF Backspace, HasPreedit
<1>4. romaji \in Texts /\ draft \in Texts /\ due' \in Texts
  BY <1>1, <1>3, TextsCut DEF Types
<1>5. draft \o romaji = Front(Preedit(editor))
  <2>1. CASE editor.romaji # <<>>
    BY <1>1, <2>1, TextsCut DEF Preedit
  <2>2. CASE editor.romaji = <<>>
    <3>1. editor.draft \o <<>> = editor.draft /\ Front(editor.draft) \o <<>> = Front(editor.draft)
      BY <1>1, TextsConcat, TextsCut
    <3> QED BY <2>2, <3>1 DEF Preedit
  <2> QED BY <2>1, <2>2
<1> HIDE DEF romaji, draft
<1>6. /\ e \in EditorType /\ e.draft = draft /\ e.romaji = romaji
      /\ e.document = editor.document /\ e.queue = editor.queue /\ e.mishaps = editor.mishaps
      /\ e.open = editor.open /\ e.shown = editor.shown
  BY <1>1, <1>4, EditorIs
<1> HIDE DEF e
<1>7. Kept(e, due') /\ Written(e) \in Texts
  <2>1. Written(e) = Written(editor) /\ Written(editor) \in Texts /\ Preedit(editor) \in Texts
    BY <1>1, <1>6, WaitingIs, WrittenType, PreeditType DEF Written, Texts
  <2>2. Preedit(e) = Front(Preedit(editor))
    BY <1>5, <1>6 DEF Preedit
  <2>3. Front(Written(editor) \o Preedit(editor)) = Written(editor) \o Front(Preedit(editor))
    BY <1>3, <2>1, TextsCut
  <2> QED BY <1>3, <1>6, <2>1, <2>2, <2>3 DEF Kept
<1>8. CASE HasPreedit(e)
  <2>1. editor' \in EditorType /\ Kept(editor', due')
    BY <1>3, <1>6, <1>7, <1>8, ShowsKeeps
  <2> QED BY <1>3, <1>4, <2>1 DEF Types, Kept, Written, Waiting, Preedit
<1>9. CASE ~HasPreedit(e)
  <2>1. /\ editor' \in EditorType /\ Preedit(editor') = <<>>
        /\ Regular(editor') => Regular(e) /\ Written(editor') = Written(e)
    BY <1>3, <1>6, <1>9, CancelKeeps
  <2>2. Kept(editor', due')
    BY <1>7, <1>9, <2>1 DEF Kept, Regular, HasPreedit
  <2> QED BY <1>3, <1>4, <2>1, <2>2 DEF Types, Kept, Written, Waiting, Preedit
<1> QED BY <1>8, <1>9

\* The whole preedit is taken back.
LEMMA WithoutPreeditIs ==
    ASSUME Types(editor, due, typed), Kept(editor, due)
    PROVE  /\ WithoutPreedit \in Texts
           /\ Regular(editor) => WithoutPreedit = Written(editor)
<1>1. Written(editor) \in Texts /\ Preedit(editor) \in Texts
  BY WrittenType, PreeditType DEF Types, Texts
<1>2. WithoutPreedit \in Texts
  BY <1>1, TextsCut DEF Types, WithoutPreedit
<1>3. ASSUME Regular(editor) PROVE WithoutPreedit = Written(editor)
  <2>1. due = Written(editor) \o Preedit(editor)
    BY <1>3 DEF Kept, Regular
  <2>2. SubSeq(Written(editor) \o Preedit(editor), 1,
               Len(Written(editor) \o Preedit(editor)) - Len(Preedit(editor))) = Written(editor)
    BY <1>1, TextsCut
  <2> QED BY <2>1, <2>2 DEF WithoutPreedit
<1> QED BY <1>2, <1>3

LEMMA EscapeKeeps ==
    ASSUME Types(editor, due, typed), Kept(editor, due), Escape
    PROVE  Types(editor, due, typed)' /\ Kept(editor, due)'
<1>1. /\ editor' \in CancelComposition(editor) /\ due' = WithoutPreedit /\ typed' = typed
      /\ editor \in EditorType
  BY DEF Escape, Types
<1>2. /\ editor' \in EditorType /\ Preedit(editor') = <<>>
      /\ Regular(editor') => Regular(editor) /\ Written(editor') = Written(editor)
  BY <1>1, CancelKeeps
<1>3. Kept(editor', due') /\ due' \in Texts
  BY <1>1, <1>2, WithoutPreeditIs, WrittenType DEF Kept, Regular
<1> QED BY <1>1, <1>2, <1>3 DEF Types, Kept, Written, Waiting, Preedit

\* The draft, with the romaji that are left, goes to the document.
LEMMA CommitsAll ==
    ASSUME NEW e \in EditorType, NEW d, Kept(e, d), e.romaji = <<>>,
           NEW f \in CommitComposition(e, e.draft)
    PROVE  f \in EditorType /\ Kept(f, d)
<1>1. Preedit(e) = e.draft /\ e.draft \in Texts
  BY EditorIs, TextsConcat DEF Preedit
<1>2. /\ f \in EditorType /\ Preedit(f) = <<>>
      /\ Regular(f) => Regular(e) /\ Written(f) = Written(e) \o e.draft
  BY <1>1, CommitKeeps
<1>3. Written(f) \o <<>> = Written(f)
  BY <1>2, WrittenType
<1> QED BY <1>1, <1>2, <1>3 DEF Kept, Regular

LEMMA EnterKeeps ==
    ASSUME Types(editor, due, typed), Kept(editor, due), Enter
    PROVE  Types(editor, due, typed)' /\ Kept(editor, due)'
<1>1. PICK f \in Flush(editor) :
         /\ editor' \in UNION {CommitComposition(e, e.draft) : e \in Shows(f)}
         /\ due' = DueAfter(editor, f)
  BY DEF Enter
<1>2. PICK e \in Shows(f) : editor' \in CommitComposition(e, e.draft)
  BY <1>1
<1>3. f \in EditorType /\ due' \in Texts /\ Kept(f, due') /\ f.romaji = <<>>
  BY <1>1, FlushKeeps, FlushIs DEF Types
<1>4. e \in EditorType /\ e.romaji = <<>> /\ Kept(e, due')
  BY <1>3, ShowsKeeps
<1>5. editor' \in EditorType /\ Kept(editor', due')
  BY <1>2, <1>4, CommitsAll
<1>6. typed' = typed
  BY DEF Enter
<1> QED BY <1>3, <1>5, <1>6 DEF Types, Kept, Written, Waiting, Preedit

\* A commit without a context is a mishap: the text is pasted, or there is none
\* and only the draft of an open composition is cleared.
OnlyKept(e, f) ==
    /\ e.open /\ e.draft = <<>> /\ f.mishaps = e.mishaps \cup {"kept"}
    /\ f.open = e.open /\ f.shown = e.shown /\ f.queue = e.queue /\ f.document = e.document

LEMMA CommitElsewhereIs ==
    ASSUME NEW e \in EditorType, e.open \/ e.draft # <<>>, NEW f \in CommitElsewhere(e, e.draft)
    PROVE  /\ f \in EditorType /\ Preedit(f) = <<>>
           /\ f.open = e.open /\ f.queue = e.queue /\ e.mishaps \subseteq f.mishaps
           /\ e.open => "kept" \in f.mishaps
           /\ "pasted" \in f.mishaps \/ OnlyKept(e, f)
<1> DEFINE h == IF e.open THEN With(e, "kept") ELSE e
           g == Emptied(h)
<1>1. /\ With(e, "kept") \in EditorType
      /\ With(e, "kept") = [e EXCEPT !.mishaps = e.mishaps \cup {"kept"}]
  BY WithType DEF Mishaps
<1>2. /\ h \in EditorType /\ h.open = e.open /\ h.shown = e.shown /\ h.queue = e.queue
      /\ h.document = e.document /\ e.mishaps \subseteq h.mishaps
      /\ e.open => h.mishaps = e.mishaps \cup {"kept"}
  BY <1>1, EditorIs
<1> HIDE DEF h
<1>3. /\ g \in EditorType /\ g.open = e.open /\ g.shown = e.shown /\ g.queue = e.queue
      /\ g.document = e.document /\ e.mishaps \subseteq g.mishaps
      /\ e.open => g.mishaps = e.mishaps \cup {"kept"}
      /\ Preedit(g) = <<>> /\ g.draft = <<>> /\ g.romaji = <<>>
  BY <1>2, EmptiedWrites
<1>4. f \in IF e.draft = <<>> THEN {g}
            ELSE {With([g EXCEPT !.document = @ \o e.draft \o pasted], "pasted") :
                     pasted \in {e.draft, <<>>}}
  BY DEF CommitElsewhere, h
<1> HIDE DEF g
<1>5. CASE e.draft = <<>>
  <2>1. f = g /\ e.open
    BY <1>4, <1>5
  <2>2. f \in EditorType /\ Preedit(f) = <<>>
    BY <1>3, <2>1
  <2>3. /\ f.mishaps = e.mishaps \cup {"kept"} /\ f.open = e.open /\ f.shown = e.shown
        /\ f.queue = e.queue /\ f.document = e.document
    BY <1>3, <2>1
  <2>4. OnlyKept(e, f)
    BY <1>5, <2>1, <2>3, Zenon DEF OnlyKept
  <2>5. e.mishaps \subseteq f.mishaps /\ "kept" \in f.mishaps
    BY <2>3
  <2> QED BY <2>2, <2>3, <2>4, <2>5
<1>6. CASE e.draft # <<>>
  <2>1. PICK pasted \in {e.draft, <<>>} :
           f = With([g EXCEPT !.document = @ \o e.draft \o pasted], "pasted")
    BY <1>4, <1>6
  <2> DEFINE document == g.document \o e.draft \o pasted
             x == [g EXCEPT !.document = document]
  <2>2. document \in Texts
    BY <1>3, EditorIs, TextsConcat
  <2>3. f = With(x, "pasted")
    BY <1>3, <2>1, EditorIs
  <2> HIDE DEF document
  <2>4. /\ x \in EditorType /\ x.draft = <<>> /\ x.romaji = <<>>
        /\ x.open = g.open /\ x.queue = g.queue /\ x.mishaps = g.mishaps
    BY <1>3, <2>2, EditorIs
  <2> HIDE DEF x
  <2>5. f \in EditorType /\ f = [x EXCEPT !.mishaps = x.mishaps \cup {"pasted"}]
    BY <2>3, <2>4, WithType DEF Mishaps
  <2>6. /\ f.draft = <<>> /\ f.romaji = <<>> /\ f.mishaps = g.mishaps \cup {"pasted"}
        /\ f.open = g.open /\ f.queue = g.queue
    BY <2>4, <2>5, EditorIs
  <2>7. Preedit(f) = <<>>
    BY <1>3, <2>6 DEF Preedit
  <2>8. /\ f.open = e.open /\ f.queue = e.queue /\ e.mishaps \subseteq f.mishaps
        /\ "pasted" \in f.mishaps
    BY <1>3, <2>6
  <2>9. e.open => "kept" \in f.mishaps
    BY <1>3, <2>6
  <2> QED BY <2>5, <2>7, <2>8, <2>9
<1> QED BY <1>5, <1>6

LEMMA LeaveKeeps ==
    ASSUME Types(editor, due, typed), Kept(editor, due),
           NEW hasContext \in BOOLEAN, LeaveKanaMode(hasContext)
    PROVE  Types(editor, due, typed)' /\ Kept(editor, due)'
<1>1. PICK e \in Flush(editor) :
         /\ editor' \in IF e.draft = <<>> /\ ~e.open THEN {e}
                        ELSE IF hasContext THEN CommitComposition(e, e.draft)
                        ELSE CommitElsewhere(e, e.draft)
         /\ due' = DueAfter(editor, e)
  BY DEF LeaveKanaMode
<1>2. /\ e \in EditorType /\ due' \in Texts /\ Kept(e, due') /\ e.romaji = <<>>
      /\ Preedit(e) = e.draft /\ typed' = typed
  BY <1>1, FlushKeeps, FlushIs DEF Types, LeaveKanaMode
<1>3. editor' \in EditorType /\ Kept(editor', due')
  <2>1. CASE e.draft = <<>> /\ ~e.open
    BY <1>1, <1>2, <2>1
  <2>2. CASE (e.draft # <<>> \/ e.open) /\ hasContext
    BY <1>1, <1>2, <2>2, CommitsAll
  <2>3. CASE (e.draft # <<>> \/ e.open) /\ ~hasContext
    <3>1. /\ editor' \in EditorType /\ Preedit(editor') = <<>>
          /\ "pasted" \in editor'.mishaps \/ OnlyKept(e, editor')
      BY <1>1, <1>2, <2>3, CommitElsewhereIs
    <3>2. CASE "pasted" \in editor'.mishaps
      <4>1. "pasted" \notin {"overtaken", "kept"}
        OBVIOUS
      <4> QED BY <3>1, <3>2, <4>1 DEF Kept
    <3>3. CASE OnlyKept(e, editor')
      <4>1. Written(editor') = Written(e)
        BY <1>2, <3>1, <3>3, WaitingIs DEF OnlyKept, Written
      <4> QED BY <1>2, <3>1, <3>3, <4>1 DEF OnlyKept, Kept
    <3> QED BY <3>1, <3>2, <3>3
  <2> QED BY <2>1, <2>2, <2>3
<1> QED BY <1>2, <1>3 DEF Types, Kept, Written, Waiting, Preedit

\* What the host keeps of the composition is due, and what was not shown is not.
LEMMA TerminatedKeeps ==
    ASSUME Types(editor, due, typed), Kept(editor, due), OnCompositionTerminated
    PROVE  Types(editor, due, typed)' /\ Kept(editor, due)'
<1> DEFINE g == Emptied(editor)
           e == Closed([g EXCEPT !.document = @ \o g.shown])
<1>1. /\ g \in EditorType /\ Written(g) = Written(editor) /\ Preedit(g) = <<>>
      /\ g.document = editor.document /\ g.shown = editor.shown
      /\ g.queue = editor.queue /\ g.mishaps = editor.mishaps
      /\ g.draft = <<>> /\ g.romaji = <<>>
      /\ editor.shown \in Texts /\ editor.document \in Texts
  BY EmptiedWrites, EditorIs DEF Types
<1>2. /\ editor' = IF Waiting(editor) = <<>> THEN e ELSE With(e, "terminated")
      /\ due' = WithoutPreedit \o editor.shown /\ typed' = typed
  BY <1>1 DEF OnCompositionTerminated
<1>3. e \in EditorType /\ Same(g, e) /\ Ends(g, e, g.shown)
  BY <1>1, ClosedEnds DEF Texts
<1> HIDE DEF g, e
<1>4. due' \in Texts
  BY <1>1, <1>2, WithoutPreeditIs, TextsConcat
<1>5. CASE Waiting(editor) = <<>>
  <2>1. Waiting(e) = <<>>
    BY <1>1, <1>3, <1>5, WaitingIs DEF Same, Types
  <2>2. Regular(e) => Regular(editor)
    BY <1>1, <1>3 DEF Regular, Ends
  <2>3. Written(editor) = editor.document /\ Written(e) = editor.document \o editor.shown
    BY <1>1, <1>3, <1>5, <2>1, EditorIs, TextsConcat DEF Written, Ends
  <2>4. Preedit(e) = <<>> /\ Written(e) \o <<>> = Written(e)
    BY <1>1, <1>3, WrittenType, TextsConcat, EditorIs DEF Same, Preedit
  <2>5. Kept(e, due')
    BY <1>2, <2>2, <2>3, <2>4, WithoutPreeditIs DEF Kept, Regular
  <2> QED BY <1>2, <1>3, <1>4, <1>5, <2>5 DEF Types, Kept, Written, Waiting, Preedit
<1>6. CASE Waiting(editor) # <<>>
  <2>1. /\ editor' \in EditorType
        /\ editor' = [e EXCEPT !.mishaps = e.mishaps \cup {"terminated"}]
    BY <1>2, <1>3, <1>6, WithType DEF Mishaps
  <2>2. "terminated" \in editor'.mishaps /\ "terminated" \notin {"overtaken", "kept"}
    BY <1>3, <2>1, EditorIs
  <2> QED BY <1>2, <1>4, <2>1, <2>2 DEF Types, Kept
<1> QED BY <1>5, <1>6

\* The oldest session writes what waited as its.
LEMMA RunKeeps ==
    ASSUME Types(editor, due, typed), Kept(editor, due), RunSession
    PROVE  Types(editor, due, typed)' /\ Kept(editor, due)'
<1> DEFINE s == Head(editor.queue)
           rest == Tail(editor.queue)
           e == [editor EXCEPT !.queue = rest]
<1>1. /\ editor \in EditorType /\ editor.queue # <<>> /\ editor.queue \in Queues
      /\ editor' \in Run(s, e) /\ due' = due /\ typed' = typed
  BY WaitingIs, EditorIs DEF RunSession, Types
<1>2. s \in Sessions /\ rest \in Queues /\ WaitingIn(editor.queue) = TextOf(s) \o WaitingIn(rest)
  BY <1>1, WaitingHead
<1> HIDE DEF s, rest
<1>3. /\ e \in EditorType /\ e.queue = rest /\ e.document = editor.document
      /\ e.draft = editor.draft /\ e.romaji = editor.romaji /\ e.mishaps = editor.mishaps
  BY <1>1, <1>2, EditorIs
<1> HIDE DEF e
<1>4. editor' \in EditorType /\ Same(e, editor') /\ Does(e, editor', s)
  BY <1>1, <1>2, <1>3, RunDoes
<1>5. ASSUME Regular(editor')
      PROVE  Regular(editor) /\ Written(editor') = Written(editor)
  <2>1. /\ editor.document \in Texts /\ TextOf(s) \in Texts /\ WaitingIn(rest) \in Texts
        /\ editor'.document \in Texts
    BY <1>1, <1>2, <1>4, EditorIs, WaitingType DEF TextOf, Sessions, Texts
  <2>2. Regular(e) /\ editor'.document = e.document \o TextOf(s)
    <3>1. e.document \o <<>> = e.document
      BY <1>3, <2>1, TextsConcat
    <3> QED BY <1>4, <1>5, <3>1 DEF Does, Starts, Updates, Ends, Inserts, TextOf, Carries, Regular
  <2>3. /\ Written(editor') = (editor.document \o TextOf(s)) \o WaitingIn(rest)
        /\ Written(editor) = editor.document \o (TextOf(s) \o WaitingIn(rest))
    BY <1>1, <1>2, <1>3, <1>4, <2>2, WaitingIs DEF Written, Same
  <2>4. Written(editor') = Written(editor)
    BY <2>1, <2>3, TextsConcat
  <2> QED BY <1>3, <2>2, <2>4 DEF Regular
<1>6. Kept(editor', due)
  BY <1>3, <1>4, <1>5 DEF Kept, Regular, Preedit, Same
<1> QED BY <1>1, <1>4, <1>6 DEF Types, Kept, Written, Waiting, Preedit

KeptSoFar == Types(editor, due, typed) /\ Kept(editor, due)

LEMMA InitKeeps == Init => KeptSoFar
<1> SUFFICES ASSUME Init PROVE KeptSoFar
  OBVIOUS
<1>1. editor \in EditorType /\ due \in Texts /\ typed \in 0 .. MaxKeys
  BY EditorIs, BoundsAssumption DEF Init
<1>2. editor.queue = <<>> /\ Preedit(editor) = <<>> /\ editor.document = <<>> /\ due = <<>>
  <2>1. editor.draft = <<>> /\ editor.romaji = <<>> /\ <<>> \o <<>> = <<>>
    BY EditorIs, TextsConcat DEF Init
  <2> QED BY <2>1 DEF Init, Preedit
<1>3. Waiting(editor) = <<>>
  BY <1>1, <1>2, WaitingIs, WaitingEmpty
<1>4. <<>> \o <<>> = <<>>
  BY EditorIs, TextsConcat
<1> QED BY <1>1, <1>2, <1>3, <1>4 DEF KeptSoFar, Types, Kept, Written

LEMMA NextKeeps == KeptSoFar /\ [Next]_vars => KeptSoFar'
<1> SUFFICES ASSUME KeptSoFar, [Next]_vars PROVE KeptSoFar'
  OBVIOUS
<1> USE DEF KeptSoFar
<1>1. CASE Type \/ TypeDirectly
  BY <1>1, TypeKeeps
<1>2. CASE Backspace
  BY <1>2, BackspaceKeeps
<1>3. CASE Escape
  BY <1>3, EscapeKeeps
<1>4. CASE Enter
  BY <1>4, EnterKeeps
<1>5. ASSUME NEW hasContext \in BOOLEAN, LeaveKanaMode(hasContext) PROVE KeptSoFar'
  BY <1>5, LeaveKeeps
<1>6. CASE OnCompositionTerminated
  BY <1>6, TerminatedKeeps
<1>7. CASE RunSession
  BY <1>7, RunKeeps
<1>8. CASE UNCHANGED vars
  BY <1>8 DEF vars, Types, Kept, Written, Waiting, Preedit
<1> QED BY <1>1, <1>2, <1>3, <1>4, <1>5, <1>6, <1>7, <1>8 DEF Next

\* The editor, the letters that are due and the count have their types.
THEOREM TypeCorrect ==
    Spec => [](editor \in EditorType /\ due \in Seq(Letters) /\ typed \in 0 .. MaxKeys)
<1>1. KeptSoFar => editor \in EditorType /\ due \in Seq(Letters) /\ typed \in 0 .. MaxKeys
  BY DEF KeptSoFar, Types, Texts
<1> QED BY InitKeeps, NextKeeps, <1>1, PTL DEF Spec

\* However late the host runs the sessions, and whether or not it grants a
\* composition, every letter typed, not taken back and not given up in a flush is
\* written, waits to be written or is in the draft (CommitComposition,
\* ConvertRomaji, DoEditSession).
THEOREM NoLetterIsLost == Spec => []EveryLetterOnce
<1>1. KeptSoFar => EveryLetterOnce
  <2> SUFFICES ASSUME KeptSoFar PROVE EveryLetterOnce
    OBVIOUS
  <2>1. editor.document \in Texts /\ Waiting(editor) \in Texts /\ Preedit(editor) \in Texts
    BY EditorIs, WaitingIs, WaitingType, PreeditType DEF KeptSoFar, Types, Texts
  <2> QED BY <2>1, TextsConcat DEF KeptSoFar, Kept, Written, EveryLetterOnce
<1> QED BY InitKeeps, NextKeeps, <1>1, PTL DEF Spec

-----------------------------------------------------------------------------
\* An open composition shows the preedit.

LEMMA AppendIs ==
    ASSUME NEW q \in Queues, NEW s \in Sessions
    PROVE  /\ Append(q, s) \in Queues /\ Len(q) \in Nat
           /\ DOMAIN q = 1 .. Len(q) /\ DOMAIN Append(q, s) = 1 .. Len(q) + 1
           /\ \A i \in 1 .. Len(q) : Append(q, s)[i] = q[i]
           /\ Append(q, s)[Len(q) + 1] = s
BY DEF Queues

LEMMA TailIs ==
    ASSUME NEW q \in Queues, q # <<>>
    PROVE  /\ Tail(q) \in Queues /\ Len(q) \in Nat /\ Len(q) # 0 /\ Head(q) = q[1]
           /\ DOMAIN q = 1 .. Len(q) /\ DOMAIN Tail(q) = 1 .. Len(q) - 1
           /\ \A i \in 1 .. Len(q) - 1 : Tail(q)[i] = q[i + 1]
BY DEF Queues

LEMMA OvertakesAppend ==
    ASSUME NEW q \in Queues, NEW s \in Sessions, s.kind # "update", ~Overtakes(q)
    PROVE  ~Overtakes(Append(q, s))
<1> DEFINE r == Append(q, s)
<1>1. /\ Len(q) \in Nat /\ DOMAIN q = 1 .. Len(q) /\ DOMAIN r = 1 .. Len(q) + 1
      /\ \A i \in 1 .. Len(q) : r[i] = q[i]
      /\ r[Len(q) + 1] = s
  BY AppendIs
<1> HIDE DEF r
<1> SUFFICES ASSUME NEW i \in DOMAIN r, NEW j \in DOMAIN r, i < j,
                    r[i].kind = "start", r[j].kind = "update"
             PROVE  FALSE
  BY DEF Overtakes, r
<1>2. j # Len(q) + 1
  BY <1>1
<1>3. i \in DOMAIN q /\ j \in DOMAIN q /\ r[i] = q[i] /\ r[j] = q[j]
  BY <1>1, <1>2
<1> QED BY <1>3 DEF Overtakes

LEMMA OvertakesTail ==
    ASSUME NEW q \in Queues, q # <<>>, ~Overtakes(q)
    PROVE  /\ ~Overtakes(Tail(q))
           /\ Head(q).kind = "start" => \A i \in DOMAIN Tail(q) : Tail(q)[i].kind # "update"
<1> DEFINE r == Tail(q)
<1>1. /\ Len(q) \in Nat /\ Len(q) # 0 /\ Head(q) = q[1]
      /\ DOMAIN q = 1 .. Len(q) /\ DOMAIN r = 1 .. Len(q) - 1
      /\ \A i \in 1 .. Len(q) - 1 : r[i] = q[i + 1]
  BY TailIs
<1> HIDE DEF r
<1>2. \A i \in DOMAIN r : i + 1 \in DOMAIN q /\ 1 \in DOMAIN q /\ 1 < i + 1 /\ r[i] = q[i + 1]
  BY <1>1
<1>3. ASSUME NEW i \in DOMAIN r, NEW j \in DOMAIN r, i < j,
             r[i].kind = "start", r[j].kind = "update"
      PROVE  FALSE
  <2>1. i + 1 < j + 1
    BY <1>1, <1>3
  <2> QED BY <1>2, <1>3, <2>1 DEF Overtakes
<1>4. ASSUME Head(q).kind = "start", NEW i \in DOMAIN r PROVE r[i].kind # "update"
  BY <1>1, <1>2, <1>4 DEF Overtakes
<1> QED BY <1>3, <1>4 DEF Overtakes, r

Steady(e) == Calm(e) /\ ~e.open => ~Overtakes(e.queue)

LEMMA ClosedShows ==
    ASSUME NEW e, Steady(e), ~e.open
    PROVE  Showing(e)
BY DEF Showing, Steady, Calm, UpToDate

LEMMA ShowingIsSteady ==
    ASSUME NEW e, Showing(e)
    PROVE  Steady(e)
BY DEF Showing, Steady, Calm

\* No session is asked for that a start would come before.
LEMMA RequestSteady ==
    ASSUME NEW e \in EditorType, Steady(e), NEW kind \in {"start", "end", "insert"},
           NEW text \in Texts, NEW f \in Request(kind, text, e)
    PROVE  /\ f \in EditorType /\ Steady(f) /\ f.draft = e.draft /\ f.romaji = e.romaji
           /\ kind = "insert" /\ ~e.open => ~f.open
           /\ (kind = "end" /\ Calm(f) /\ f.open) => \E i \in DOMAIN f.queue : f.queue[i].kind = "end"
<1> DEFINE s == [kind |-> kind, text |-> text]
<1>1. /\ s \in Sessions /\ f \in EditorType
      /\ \/ Waits(e, f, s)
         \/ Refuses(e, f)
         \/ e.queue = <<>> /\ Same(e, f) /\ Does(e, f, s)
  BY RequestDoes
<1>2. s.kind = kind /\ e.queue \in Queues
  BY WaitingIs
<1> HIDE DEF s
<1>3. CASE Waits(e, f, s)
  <2>1. /\ f.queue = Append(e.queue, s) /\ f.open = e.open /\ f.mishaps = e.mishaps
        /\ f.draft = e.draft /\ f.romaji = e.romaji
    BY <1>3 DEF Waits
  <2>2. Steady(f)
    BY <1>1, <1>2, <2>1, OvertakesAppend DEF Steady, Calm
  <2>3. Len(e.queue) + 1 \in DOMAIN f.queue /\ f.queue[Len(e.queue) + 1] = s
    <3>1. /\ Len(e.queue) \in Nat /\ DOMAIN f.queue = 1 .. Len(e.queue) + 1
          /\ f.queue[Len(e.queue) + 1] = s
      BY <1>1, <1>2, <2>1, AppendIs
    <3> QED BY <3>1
  <2> QED BY <1>1, <1>2, <2>1, <2>2, <2>3
<1>4. CASE Refuses(e, f)
  <2>1. "refused" \in f.mishaps
    BY <1>4 DEF Refuses
  <2> QED BY <1>1, <1>4, <2>1 DEF Refuses, Same, Steady, Calm
<1>5. CASE e.queue = <<>> /\ Same(e, f) /\ Does(e, f, s)
  <2>1. ~Overtakes(f.queue)
    BY <1>5 DEF Same, Overtakes
  <2>2. kind = "end" => ~f.open
    BY <1>2, <1>5 DEF Does, Ends
  <2>3. kind = "insert" /\ ~e.open => ~f.open
    BY <1>2, <1>5 DEF Does, Inserts
  <2> QED BY <1>1, <1>5, <2>1, <2>2, <2>3 DEF Same, Steady
<1> QED BY <1>1, <1>3, <1>4, <1>5

\* The update brings an open composition up to date.
LEMMA UpdateShows ==
    ASSUME NEW e \in EditorType, Steady(e), NEW f \in UpdateCompositionText(e, Preedit(e))
    PROVE  f \in EditorType /\ f.draft = e.draft /\ f.romaji = e.romaji /\ Showing(f)
<1>1. CASE ~e.open
  <2>1. f = e
    BY <1>1 DEF UpdateCompositionText
  <2> QED BY <1>1, <2>1, ClosedShows
<1>2. CASE e.open
  <2> DEFINE text == Preedit(e)
             s == [kind |-> "update", text |-> text]
  <2>1. text \in Texts /\ f \in Request("update", text, e)
    BY <1>2, PreeditType DEF UpdateCompositionText, Texts
  <2>2. /\ s \in Sessions /\ f \in EditorType
        /\ \/ Waits(e, f, s)
           \/ Refuses(e, f)
           \/ e.queue = <<>> /\ Same(e, f) /\ Does(e, f, s)
    BY <2>1, RequestDoes
  <2>3. s.kind = "update" /\ s.text = text /\ e.queue \in Queues
    BY WaitingIs
  <2> HIDE DEF s, text
  <2>4. CASE Waits(e, f, s)
    <3> DEFINE n == Len(e.queue) + 1
    <3>1. /\ f.queue = Append(e.queue, s) /\ f.open = e.open
          /\ f.draft = e.draft /\ f.romaji = e.romaji /\ Preedit(f) = text
      BY <2>4 DEF Waits, Preedit, text
    <3>2. Len(e.queue) \in Nat /\ DOMAIN f.queue = 1 .. n /\ f.queue[n] = s
      BY <2>2, <2>3, <3>1, AppendIs
    <3>3. n \in DOMAIN f.queue /\ \A i \in DOMAIN f.queue : i # n => i < n
      BY <3>2
    <3> HIDE DEF n
    <3>4. UpToDate(f)
      <4>1. \A i \in DOMAIN f.queue :
               (/\ f.queue[i].kind = "update"
                /\ \A j \in DOMAIN f.queue : i < j => f.queue[j].kind # "update")
               => f.queue[i].text = Preedit(f)
        BY <2>3, <3>1, <3>2, <3>3
      <4>2. ~\A i \in DOMAIN f.queue : f.queue[i].kind # "update"
        BY <2>3, <3>2, <3>3
      <4> QED BY <4>1, <4>2 DEF UpToDate
    <3> QED BY <1>2, <2>2, <3>1, <3>4 DEF Showing
  <2>5. CASE Refuses(e, f)
    <3>1. "refused" \in f.mishaps
      BY <2>5 DEF Refuses
    <3> QED BY <2>2, <2>5, <3>1 DEF Refuses, Same, Showing, Calm
  <2>6. CASE e.queue = <<>> /\ Same(e, f) /\ Does(e, f, s)
    <3>1. f.shown = text /\ f.open /\ f.draft = e.draft /\ f.romaji = e.romaji /\ f.queue = <<>>
      BY <1>2, <2>3, <2>6 DEF Does, Updates, Same
    <3>2. Preedit(f) = text /\ DOMAIN f.queue = {}
      BY <3>1 DEF Preedit, text
    <3> QED BY <2>2, <3>1, <3>2 DEF Showing, UpToDate
  <2> QED BY <2>2, <2>4, <2>5, <2>6
<1> QED BY <1>1, <1>2

LEMMA EnsureSteady ==
    ASSUME NEW e \in EditorType, Steady(e), NEW f \in EnsureComposition(e)
    PROVE  f \in EditorType /\ Steady(f)
<1>1. <<>> \in Texts
  BY EditorIs
<1> QED BY <1>1, RequestSteady DEF EnsureComposition

LEMMA ShowsShows ==
    ASSUME NEW e \in EditorType, Steady(e), NEW f \in Shows(e)
    PROVE  f \in EditorType /\ Showing(f)
<1>1. PICK g \in EnsureComposition(e) : f \in UpdateCompositionText(g, Preedit(g))
  BY DEF Shows
<1> QED BY <1>1, EnsureSteady, UpdateShows

LEMMA CommitShows ==
    ASSUME NEW e \in EditorType, Steady(e), NEW text \in Texts, NEW f \in CommitComposition(e, text)
    PROVE  Showing(f)
<1>1. PICK g \in Request("end", text, e) : f = Emptied(g)
  BY DEF CommitComposition
<1>2. /\ g \in EditorType /\ Steady(g)
      /\ Calm(g) /\ g.open => \E i \in DOMAIN g.queue : g.queue[i].kind = "end"
  BY RequestSteady
<1>3. f.open = g.open /\ f.queue = g.queue /\ f.mishaps = g.mishaps
  BY <1>1, <1>2, EmptiedWrites
<1> QED BY <1>2, <1>3 DEF Showing, Steady, UpToDate, Calm

LEMMA CancelShows ==
    ASSUME NEW e \in EditorType, Steady(e), NEW f \in CancelComposition(e)
    PROVE  Showing(f)
<1>1. CASE e.open
  <2>1. <<>> \in Texts
    BY EditorIs
  <2> QED BY <1>1, <2>1, CommitShows DEF CancelComposition
<1>2. CASE ~e.open
  <2>1. f.open = e.open /\ f.queue = e.queue /\ f.mishaps = e.mishaps
    BY <1>2, EmptiedWrites DEF CancelComposition
  <2> QED BY <1>2, <2>1 DEF Showing, Steady, UpToDate, Calm
<1> QED BY <1>1, <1>2

LEMMA InsertShows ==
    ASSUME NEW e \in EditorType, Steady(e), ~e.open, NEW newly \in Texts,
           NEW f \in InsertDirectly(e, newly)
    PROVE  Showing(f)
<1>1. PICK g \in Request("insert", newly, e) :
             f = Emptied(IF Preedit(e) = newly THEN g ELSE With(g, "dropped"))
  BY DEF InsertDirectly
<1>2. g \in EditorType /\ Steady(g) /\ ~g.open
  BY RequestSteady
<1>3. /\ With(g, "dropped") \in EditorType
      /\ With(g, "dropped") = [g EXCEPT !.mishaps = g.mishaps \cup {"dropped"}]
  BY <1>2, WithType DEF Mishaps
<1>4. LET h == With(g, "dropped")
      IN  h.mishaps = g.mishaps \cup {"dropped"} /\ h.open = g.open /\ h.queue = g.queue
  BY <1>2, <1>3, EditorIs
<1>5. CASE Preedit(e) = newly
  <2>1. f.open = g.open /\ f.queue = g.queue /\ f.mishaps = g.mishaps
    BY <1>1, <1>2, <1>5, EmptiedWrites
  <2> QED BY <1>2, <2>1 DEF Showing, Steady, UpToDate, Calm
<1>6. CASE Preedit(e) # newly
  <2>1. f.mishaps = g.mishaps \cup {"dropped"} /\ f.open = g.open /\ f.queue = g.queue
    BY <1>1, <1>3, <1>4, <1>6, EmptiedWrites
  <2> QED BY <1>2, <2>1 DEF Showing, Steady, UpToDate, Calm
<1> QED BY <1>5, <1>6

\* Steady does not look at the preedit.
LEMMA EditedIsSteady ==
    ASSUME NEW e \in EditorType, Steady(e), NEW draft \in Texts, NEW romaji \in Texts
    PROVE  LET f == [e EXCEPT !.draft = draft, !.romaji = romaji]
           IN  f \in EditorType /\ Steady(f)
<1> DEFINE f == [e EXCEPT !.draft = draft, !.romaji = romaji]
<1>1. f \in EditorType /\ f.open = e.open /\ f.queue = e.queue /\ f.mishaps = e.mishaps
  BY EditorIs
<1> QED BY <1>1 DEF Steady, Calm

\* Neither does it look at what a flush changes.
LEMMA ElsewhereSteady ==
    ASSUME NEW e, NEW f, Elsewhere(e, f), Steady(e)
    PROVE  Steady(f)
BY DEF Elsewhere, Steady, Calm

LEMMA TypeShows ==
    ASSUME editor \in EditorType, typed \in 0 .. MaxKeys, Showing(editor), Type \/ TypeDirectly
    PROVE  Showing(editor')
<1>1. PICK f \in Flush(editor) \cup {editor} : \E e \in EditorType, before, newly \in Texts :
            Keyed(f, e, before, newly)
  BY KeyIs
<1>2. PICK e \in EditorType, before \in Texts, newly \in Texts : Keyed(f, e, before, newly)
  BY <1>1
<1>3. Steady(e)
  <2>1. Elsewhere(editor, f)
    BY FlushIs DEF Elsewhere
  <2>2. Steady(f)
    BY <2>1, ShowingIsSteady, ElsewhereSteady
  <2> QED BY <1>2, <2>2, ElsewhereSteady DEF Keyed
<1>4. PICK g \in EnsureComposition(e) :
             editor' \in IF g.open THEN UpdateCompositionText(g, Preedit(g))
                         ELSE IF newly # <<>> THEN InsertDirectly(g, newly) ELSE {g}
  BY <1>2 DEF Keyed, Enters
<1>5. g \in EditorType /\ Steady(g)
  BY <1>2, <1>3, EnsureSteady
<1>6. CASE g.open
  BY <1>4, <1>5, <1>6, UpdateShows
<1>7. CASE ~g.open /\ newly # <<>>
  BY <1>2, <1>4, <1>5, <1>7, InsertShows
<1>8. CASE ~g.open /\ newly = <<>>
  BY <1>4, <1>5, <1>8, ClosedShows
<1> QED BY <1>6, <1>7, <1>8

LEMMA BackspaceShows ==
    ASSUME editor \in EditorType, Showing(editor), Backspace
    PROVE  Showing(editor')
<1> DEFINE romaji == IF editor.romaji # <<>> THEN Front(editor.romaji) ELSE editor.romaji
           draft == IF editor.romaji # <<>> THEN editor.draft ELSE Front(editor.draft)
           e == [editor EXCEPT !.draft = draft, !.romaji = romaji]
<1>1. editor.draft \in Texts /\ editor.romaji \in Texts
  BY EditorIs
<1>2. e = IF editor.romaji # <<>> THEN [editor EXCEPT !.romaji = Front(@)]
                                  ELSE [editor EXCEPT !.draft = Front(@)]
  BY <1>1, EditorIs
<1>3. editor' \in IF HasPreedit(e) THEN Shows(e) ELSE CancelComposition(e)
  BY <1>2 DEF Backspace
<1>4. romaji \in Texts /\ draft \in Texts
  BY <1>1, TextsCut
<1> HIDE DEF romaji, draft
<1>5. e \in EditorType /\ Steady(e)
  BY <1>4, EditedIsSteady, ShowingIsSteady
<1> HIDE DEF e
<1> QED BY <1>3, <1>5, ShowsShows, CancelShows

LEMMA LeaveShows ==
    ASSUME editor \in EditorType, Showing(editor),
           NEW hasContext \in BOOLEAN, LeaveKanaMode(hasContext)
    PROVE  Showing(editor')
<1>1. PICK e \in Flush(editor) :
         editor' \in IF e.draft = <<>> /\ ~e.open THEN {e}
                    ELSE IF hasContext THEN CommitComposition(e, e.draft)
                    ELSE CommitElsewhere(e, e.draft)
  BY DEF LeaveKanaMode
<1>2. e \in EditorType /\ Steady(e) /\ e.draft \in Texts
  BY FlushIs, ShowingIsSteady, ElsewhereSteady
<1>3. CASE e.draft = <<>> /\ ~e.open
  BY <1>1, <1>2, <1>3, ClosedShows
<1>4. CASE (e.draft # <<>> \/ e.open) /\ hasContext
  BY <1>1, <1>2, <1>4, CommitShows
<1>5. CASE (e.draft # <<>> \/ e.open) /\ ~hasContext
  <2>1. /\ editor'.open = e.open /\ editor'.queue = e.queue /\ e.mishaps \subseteq editor'.mishaps
        /\ e.open => "kept" \in editor'.mishaps
    BY <1>1, <1>2, <1>5, CommitElsewhereIs
  <2> QED BY <1>2, <2>1 DEF Showing, Steady, UpToDate, Calm
<1> QED BY <1>3, <1>4, <1>5

LEMMA EndedShows ==
    ASSUME NEW e, NEW f, NEW text, Same(e, f), Ends(e, f, text)
    PROVE  Showing(f)
<1>1. CASE Overtakes(e.queue)
  <2>1. "overtaken" \in f.mishaps
    BY <1>1 DEF Ends
  <2> QED BY <2>1 DEF Showing, Calm
<1>2. CASE ~Overtakes(e.queue)
  BY <1>2 DEF Same, Ends, Showing, UpToDate
<1> QED BY <1>1, <1>2

LEMMA TerminatedShows ==
    ASSUME editor \in EditorType, OnCompositionTerminated
    PROVE  Showing(editor')
<1> DEFINE g == Emptied(editor)
           e == Closed([g EXCEPT !.document = @ \o g.shown])
<1>1. g \in EditorType /\ g.shown = editor.shown /\ g.shown \in Texts
  BY EmptiedWrites, EditorIs
<1>2. editor' = IF Waiting(editor) = <<>> THEN e ELSE With(e, "terminated")
  BY <1>1 DEF OnCompositionTerminated
<1>3. e \in EditorType /\ Same(g, e) /\ Ends(g, e, g.shown)
  BY <1>1, ClosedEnds DEF Texts
<1> HIDE DEF g, e
<1>4. CASE Waiting(editor) = <<>>
  BY <1>2, <1>3, <1>4, EndedShows
<1>5. CASE Waiting(editor) # <<>>
  <2>1. editor' = [e EXCEPT !.mishaps = e.mishaps \cup {"terminated"}]
    BY <1>2, <1>3, <1>5, WithType DEF Mishaps
  <2>2. /\ editor'.mishaps = e.mishaps \cup {"terminated"}
        /\ editor'.open = e.open /\ editor'.queue = e.queue
    BY <1>3, <2>1, EditorIs
  <2>3. ~e.open /\ Showing(e)
    BY <1>3, EndedShows DEF Ends
  <2> QED BY <2>2, <2>3 DEF Showing, UpToDate, Calm
<1> QED BY <1>4, <1>5

LEMMA EnterShows ==
    ASSUME editor \in EditorType, Showing(editor), Enter
    PROVE  Showing(editor')
<1>1. PICK f \in Flush(editor) :
         editor' \in UNION {CommitComposition(e, e.draft) : e \in Shows(f)}
  BY DEF Enter
<1>2. PICK e \in Shows(f) : editor' \in CommitComposition(e, e.draft)
  BY <1>1
<1>3. f \in EditorType /\ Steady(f)
  BY FlushIs, ShowingIsSteady, ElsewhereSteady
<1>4. e \in EditorType /\ Steady(e)
  BY <1>3, ShowsShows, ShowingIsSteady
<1>5. e.draft \in Texts
  BY <1>4, EditorIs
<1> QED BY <1>2, <1>4, <1>5, CommitShows

\* A start that runs shows the preedit of the moment, and no older update waits
\* behind it; an update that runs is the last one, or a newer one waits.
LEMMA RunShows ==
    ASSUME editor \in EditorType, Showing(editor), RunSession
    PROVE  Showing(editor')
<1> DEFINE q == editor.queue
           s == Head(editor.queue)
           rest == Tail(editor.queue)
           e == [editor EXCEPT !.queue = rest]
<1>1. q # <<>> /\ q \in Queues /\ editor' \in Run(s, e)
  BY WaitingIs DEF RunSession
<1>2. /\ s \in Sessions /\ rest \in Queues /\ Len(q) \in Nat /\ Len(q) # 0 /\ s = q[1]
      /\ DOMAIN q = 1 .. Len(q) /\ DOMAIN rest = 1 .. Len(q) - 1
      /\ \A i \in 1 .. Len(q) - 1 : rest[i] = q[i + 1]
  BY <1>1, TailIs, WaitingHead
<1>3. ~Overtakes(q) => /\ ~Overtakes(rest)
                       /\ s.kind = "start" => \A i \in DOMAIN rest : rest[i].kind # "update"
  BY <1>1, OvertakesTail
<1> HIDE DEF s, rest, q
<1>4. /\ e \in EditorType /\ e.queue = rest /\ e.mishaps = editor.mishaps
      /\ e.open = editor.open /\ e.shown = editor.shown /\ Preedit(e) = Preedit(editor)
  BY <1>2, EditorIs DEF Preedit
<1> HIDE DEF e
<1>5. editor' \in EditorType /\ Same(e, editor') /\ Does(e, editor', s)
  BY <1>1, <1>2, <1>4, RunDoes
<1>6. editor'.queue = rest /\ Preedit(editor') = Preedit(editor)
  BY <1>4, <1>5 DEF Same, Preedit
<1>7. /\ Calm(editor) /\ ~editor.open => ~Overtakes(q)
      /\ Calm(editor) => UpToDate(editor)
  BY DEF Showing, q
<1>8. \A i \in DOMAIN rest : i + 1 \in DOMAIN q /\ rest[i] = q[i + 1]
  BY <1>2
<1>9. /\ \A i \in DOMAIN q : i = 1 \/ (i - 1 \in DOMAIN rest /\ rest[i - 1] = q[i])
      /\ 1 \in DOMAIN q
  BY <1>2
\* What is asked of the newest update does not change when the oldest session is taken away.
<1>10. ASSUME editor.open, UpToDate(editor), s.kind # "end",
              \A i \in DOMAIN rest : rest[i].kind # "end",
              NEW i \in DOMAIN rest, rest[i].kind = "update",
              \A j \in DOMAIN rest : i < j => rest[j].kind # "update"
       PROVE  rest[i].text = Preedit(editor)
  <2>1. i + 1 \in DOMAIN q /\ q[i + 1] = rest[i] /\ i \in Nat
    BY <1>2, <1>8
  <2>2. \A k \in DOMAIN q : q[k].kind # "end"
    BY <1>2, <1>9, <1>10
  <2>3. ASSUME NEW j \in DOMAIN q, i + 1 < j PROVE q[j].kind # "update"
    <3>1. j # 1 /\ i < j - 1 /\ j - 1 \in DOMAIN rest /\ rest[j - 1] = q[j]
      BY <1>2, <1>9, <2>1, <2>3
    <3> QED BY <1>10, <3>1
  <2> QED BY <1>10, <2>1, <2>2, <2>3 DEF UpToDate, q
<1>11. CASE s.kind = "start" /\ editor'.open = editor.open /\ editor'.shown = editor.shown
                             /\ editor'.mishaps = editor.mishaps
  <2> SUFFICES ASSUME Calm(editor) PROVE Showing(editor')
    BY <1>11 DEF Showing, Calm
  <2>1. ~editor'.open => ~Overtakes(editor'.queue)
    BY <1>3, <1>6, <1>7, <1>11
  <2>2. ASSUME editor'.open, \A i \in DOMAIN rest : rest[i].kind # "end",
               \A i \in DOMAIN rest : rest[i].kind # "update"
        PROVE  editor'.shown = Preedit(editor')
    <3>1. \A k \in DOMAIN q : q[k].kind # "end" /\ q[k].kind # "update"
      BY <1>2, <1>9, <1>11, <2>2
    <3> QED BY <1>6, <1>7, <1>11, <2>2, <3>1 DEF UpToDate, q
  <2>3. UpToDate(editor')
    BY <1>6, <1>7, <1>10, <1>11, <2>2 DEF UpToDate
  <2> QED BY <2>1, <2>3 DEF Showing
<1>12. CASE s.kind = "start" /\ ~editor.open /\ editor'.open /\ editor'.shown = Preedit(editor)
                             /\ editor'.mishaps = editor.mishaps
  <2> SUFFICES ASSUME Calm(editor) PROVE Showing(editor')
    BY <1>12 DEF Showing, Calm
  <2>1. \A i \in DOMAIN rest : rest[i].kind # "update"
    BY <1>3, <1>7, <1>12
  <2> QED BY <1>6, <1>12, <2>1 DEF Showing, UpToDate
<1>13. CASE s.kind = "update" /\ editor'.mishaps = editor.mishaps /\ editor'.open = editor.open
                              /\ (editor.open => editor'.shown = s.text)
  <2> SUFFICES ASSUME Calm(editor) PROVE Showing(editor')
    BY <1>13 DEF Showing, Calm
  <2>1. ~editor'.open => ~Overtakes(editor'.queue)
    BY <1>3, <1>6, <1>7, <1>13
  <2>2. ASSUME editor'.open, \A i \in DOMAIN rest : rest[i].kind # "end",
               \A i \in DOMAIN rest : rest[i].kind # "update"
        PROVE  editor'.shown = Preedit(editor')
    <3>1. \A k \in DOMAIN q : q[k].kind # "end" /\ (1 < k => q[k].kind # "update")
      BY <1>2, <1>9, <1>13, <2>2
    <3>2. q[1].text = Preedit(editor)
      BY <1>2, <1>7, <1>9, <1>13, <2>2, <3>1 DEF UpToDate, q
    <3> QED BY <1>2, <1>6, <1>13, <2>2, <3>2
  <2>3. UpToDate(editor')
    BY <1>6, <1>7, <1>10, <1>13, <2>2 DEF UpToDate
  <2> QED BY <2>1, <2>3 DEF Showing
<1>14. CASE s.kind = "end" /\ Ends(e, editor', s.text)
  BY <1>5, <1>14, EndedShows
<1>15. CASE s.kind = "insert" /\ Inserts(e, editor', s.text)
  <2>1. CASE editor.open
    <3>1. "inserted" \in editor'.mishaps
      BY <1>4, <1>15, <2>1 DEF Inserts
    <3> QED BY <3>1 DEF Showing, Calm
  <2>2. CASE ~editor.open
    <3>1. ~editor'.open /\ editor'.mishaps = editor.mishaps
      BY <1>4, <1>15, <2>2 DEF Inserts
    <3> QED BY <1>3, <1>6, <1>7, <2>2, <3>1 DEF Showing, UpToDate, Calm
  <2> QED BY <2>1, <2>2
<1>16. /\ s.kind = "start" /\ Starts(e, editor') =>
             \/ editor'.open = editor.open /\ editor'.shown = editor.shown
                                           /\ editor'.mishaps = editor.mishaps
             \/ ~editor.open /\ editor'.open /\ editor'.shown = Preedit(editor)
                                             /\ editor'.mishaps = editor.mishaps
       /\ s.kind = "update" /\ Updates(e, editor', s.text) =>
             /\ editor'.mishaps = editor.mishaps /\ editor'.open = editor.open
             /\ editor.open => editor'.shown = s.text
  BY <1>4 DEF Starts, Updates
<1> QED BY <1>5, <1>11, <1>12, <1>13, <1>14, <1>15, <1>16 DEF Does

ShowingSoFar == KeptSoFar /\ Showing(editor)

LEMMA ShowingHolds == Spec => []ShowingSoFar
<1>1. Init => ShowingSoFar
  BY InitKeeps DEF Init, ShowingSoFar, Showing, UpToDate, Overtakes
<1>2. ShowingSoFar /\ [Next]_vars => ShowingSoFar'
  <2> SUFFICES ASSUME ShowingSoFar, [Next]_vars PROVE ShowingSoFar'
    OBVIOUS
  <2>1. /\ editor \in EditorType /\ typed \in 0 .. MaxKeys /\ Showing(editor) /\ KeptSoFar
    BY DEF ShowingSoFar, KeptSoFar, Types
  <2>2. KeptSoFar'
    BY <2>1, NextKeeps
  <2>3. Showing(editor')
    BY <2>1, TypeShows, BackspaceShows, CancelShows, ShowingIsSteady, EnterShows, LeaveShows,
       TerminatedShows, RunShows DEF Next, Escape, vars
  <2> QED BY <2>2, <2>3 DEF ShowingSoFar, Showing, UpToDate, Preedit
<1> QED BY <1>1, <1>2, PTL DEF Spec

\* Once the host has run what it was asked for, an open composition shows the
\* kana and the romaji of the draft (UpdateCompositionText, the start session).
THEOREM CompositionShowsThePreedit == Spec => []ShownIsThePreedit
<1>1. ShowingSoFar => ShownIsThePreedit
  <2> SUFFICES ASSUME ShowingSoFar, editor.open, editor.queue = <<>>, Calm(editor)
               PROVE  editor.shown = Preedit(editor)
    BY DEF ShownIsThePreedit, Calm
  <2>1. DOMAIN editor.queue = {}
    OBVIOUS
  <2> QED BY <2>1 DEF ShowingSoFar, Showing, UpToDate
<1> QED BY <1>1, ShowingHolds, PTL

-----------------------------------------------------------------------------
\* No letter twice.

LEMMA TextsOrder ==
    /\ \A s \in Texts : Rises(<<>>) /\ Under(<<>>, s) /\ Under(s, <<>>)
    /\ \A n : UpTo(<<>>, n)
    /\ \A s, t \in Texts : Rises(s \o t) <=> Rises(s) /\ Rises(t) /\ Under(s, t)
    /\ \A s, t, u \in Texts : /\ Under(s \o t, u) <=> Under(s, u) /\ Under(t, u)
                              /\ Under(u, s \o t) <=> Under(u, s) /\ Under(u, t)
    /\ \A s, t \in Texts, n \in Nat : UpTo(s \o t, n) <=> UpTo(s, n) /\ UpTo(t, n)
<1>1. \A s \in Texts : s \in Seq(Nat)
  <2>1. Letters \subseteq Nat
    BY DEF Letters
  <2> QED BY <2>1, SeqMonotonic DEF Texts
<1>2. \A s \in Texts : Rises(<<>>) /\ Under(<<>>, s) /\ Under(s, <<>>)
  BY DEF Rises, Under
<1>3. \A n : UpTo(<<>>, n)
  BY DEF UpTo
<1>4. ASSUME NEW s \in Texts, NEW t \in Texts
      PROVE  Rises(s \o t) <=> Rises(s) /\ Rises(t) /\ Under(s, t)
  BY <1>1, RisesConcat
<1>5. ASSUME NEW s \in Texts, NEW t \in Texts, NEW u \in Texts
      PROVE  /\ Under(s \o t, u) <=> Under(s, u) /\ Under(t, u)
             /\ Under(u, s \o t) <=> Under(u, s) /\ Under(u, t)
  BY <1>1, UnderConcat
<1>6. ASSUME NEW s \in Texts, NEW t \in Texts, NEW n \in Nat
      PROVE  UpTo(s \o t, n) <=> UpTo(s, n) /\ UpTo(t, n)
  <2> DEFINE u == s \o t
  <2>1. /\ Len(s) \in Nat /\ Len(t) \in Nat /\ DOMAIN s = 1 .. Len(s) /\ DOMAIN t = 1 .. Len(t)
        /\ DOMAIN u = 1 .. Len(s) + Len(t)
        /\ \A i \in 1 .. Len(s) : u[i] = s[i]
        /\ \A i \in 1 .. Len(t) : u[Len(s) + i] = t[i]
    BY DEF Texts
  <2> HIDE DEF u
  <2>2. \A i \in DOMAIN s : i \in DOMAIN u /\ u[i] = s[i]
    BY <2>1
  <2>3. \A i \in DOMAIN t : Len(s) + i \in DOMAIN u /\ u[Len(s) + i] = t[i]
    BY <2>1
  <2>4. ASSUME NEW i \in DOMAIN u
        PROVE  (\E a \in DOMAIN s : u[i] = s[a]) \/ (\E b \in DOMAIN t : u[i] = t[b])
    <3>1. CASE i <= Len(s)
      BY <2>1, <3>1
    <3>2. CASE ~(i <= Len(s))
      <4>1. i - Len(s) \in 1 .. Len(t) /\ i = Len(s) + (i - Len(s))
        BY <2>1, <3>2
      <4> QED BY <2>1, <4>1
    <3> QED BY <3>1, <3>2
  <2>5. UpTo(u, n) <=> UpTo(s, n) /\ UpTo(t, n)
    BY <2>2, <2>3, <2>4 DEF UpTo
  <2> QED BY <2>5 DEF u
<1> QED BY <1>2, <1>3, <1>4, <1>5, <1>6

\* The letter that is typed next is the newest.
LEMMA NewestLetter ==
    ASSUME NEW n \in Nat, n < MaxKeys, NEW s \in Texts
    PROVE  /\ <<n + 1>> \in Texts /\ Append(s, n + 1) = s \o <<n + 1>>
           /\ Rises(<<n + 1>>) /\ UpTo(<<n + 1>>, n + 1)
           /\ UpTo(s, n) => UpTo(s, n + 1) /\ Under(s, <<n + 1>>)
<1>1. n + 1 \in Letters /\ \A x \in Letters : x \in Nat
  BY BoundsAssumption DEF Letters
<1>2. <<n + 1>> \in Texts /\ Append(s, n + 1) = s \o <<n + 1>>
  BY <1>1 DEF Texts
<1>3. Rises(<<n + 1>>) /\ UpTo(<<n + 1>>, n + 1)
  BY DEF Rises, UpTo
<1>4. ASSUME UpTo(s, n) PROVE UpTo(s, n + 1) /\ Under(s, <<n + 1>>)
  <2>1. \A i \in DOMAIN s : s[i] \in Nat /\ s[i] <= n
    BY <1>1, <1>4 DEF UpTo, Texts
  <2> QED BY <2>1 DEF UpTo, Under
<1> QED BY <1>2, <1>3, <1>4

LEMMA QueueTexts ==
    ASSUME NEW e \in EditorType
    PROVE  /\ e.queue \in Queues /\ e.document \in Texts /\ e.shown \in Texts /\ Preedit(e) \in Texts
           /\ e.draft \in Texts /\ e.romaji \in Texts
           /\ \A i \in DOMAIN e.queue : e.queue[i] \in Sessions /\ e.queue[i].text \in Texts
<1>1. e.queue \in Queues /\ e.document \in Texts /\ e.shown \in Texts /\ e.draft \in Texts /\ e.romaji \in Texts
  BY EditorIs
<1>2. Preedit(e) \in Texts
  BY PreeditType DEF Texts
<1>3. \A i \in DOMAIN e.queue : e.queue[i] \in Sessions
  BY <1>1 DEF Queues
<1>4. \A s \in Sessions : s.text \in Texts
  BY DEF Sessions, Texts
<1> QED BY <1>1, <1>2, <1>3, <1>4

LEMMA FitsPart ==
    ASSUME NEW e \in EditorType, NEW n \in Nat, NEW s \in Texts, NEW t \in Texts, Fits(e, s \o t, n)
    PROVE  Fits(e, s, n) /\ Fits(e, t, n)
BY QueueTexts, TextsOrder DEF Fits

LEMMA FitsNothing ==
    ASSUME NEW e \in EditorType, NEW n \in Nat
    PROVE  Fits(e, <<>>, n)
BY QueueTexts, TextsOrder DEF Fits

LEMMA PlacedNothing ==
    ASSUME NEW e \in EditorType, NEW n \in Nat, NEW t, Placed(e, t, n)
    PROVE  Placed(e, <<>>, n)
BY FitsNothing DEF Placed

\* A letter is typed.
LEMMA PlacedNewest ==
    ASSUME NEW e \in EditorType, NEW n \in Nat, n < MaxKeys, NEW t \in Texts, Placed(e, t, n)
    PROVE  Placed(e, Append(t, n + 1), n + 1) /\ Append(t, n + 1) \in Texts
<1> DEFINE new == <<n + 1>>
<1>1. /\ new \in Texts /\ Append(t, n + 1) = t \o new
      /\ Rises(new) /\ UpTo(new, n + 1)
  BY NewestLetter
<1>2. \A s \in Texts : UpTo(s, n) => UpTo(s, n + 1) /\ Under(s, new)
  BY NewestLetter
<1> HIDE DEF new
<1>3. t \o new \in Texts
  BY <1>1, TextsConcat
<1> SUFFICES ASSUME Clean(e) PROVE InOrder(e, n + 1) /\ Fits(e, t \o new, n + 1)
  BY <1>1, <1>3 DEF Placed
<1>4. InOrder(e, n) /\ Fits(e, t, n)
  BY DEF Placed
<1>5. InOrder(e, n + 1)
  BY <1>2, <1>4, QueueTexts DEF InOrder
<1>6. Rises(t \o new) /\ UpTo(t \o new, n + 1)
  <2>1. n + 1 \in Nat /\ Rises(t) /\ UpTo(t, n + 1) /\ Under(t, new)
    BY <1>2, <1>4 DEF Fits
  <2>2. Rises(t \o new)
    BY <1>1, <2>1, TextsOrder
  <2>3. UpTo(t \o new, n + 1)
    BY <1>1, <2>1, TextsOrder
  <2> QED BY <2>2, <2>3
<1>7. Under(e.document, t \o new)
  BY <1>1, <1>2, <1>4, QueueTexts, TextsOrder DEF Fits, InOrder
<1>8. ASSUME NEW i \in DOMAIN e.queue, Carries(e.queue[i])
      PROVE  Under(e.queue[i].text, t \o new)
  <2>1. UpTo(e.queue[i].text, n) /\ Under(e.queue[i].text, t) /\ e.queue[i].text \in Texts
    BY <1>4, <1>8, QueueTexts DEF Fits, InOrder, Counts
  <2> QED BY <1>1, <1>2, <2>1, TextsOrder
<1> QED BY <1>5, <1>6, <1>7, <1>8 DEF Fits

\* A session that waits, and one that was not run.
LEMMA WaitsOrder ==
    ASSUME NEW e \in EditorType, NEW n \in Nat, NEW s \in Sessions, NEW f \in EditorType,
           InOrder(e, n), Waits(e, f, s),
           Carries(s) \/ s.kind = "update" => Fits(e, s.text, n)
    PROVE  /\ InOrder(f, n)
           /\ ~Carries(s) => \A t \in Texts : Fits(e, t, n) => Fits(f, t, n)
<1> DEFINE m == Len(e.queue)
<1>1. /\ f.queue = Append(e.queue, s) /\ f.document = e.document /\ f.open = e.open
      /\ f.shown = e.shown /\ e.queue \in Queues
  BY WaitingIs DEF Waits
<1>2. /\ m \in Nat /\ DOMAIN e.queue = 1 .. m /\ DOMAIN f.queue = 1 .. m + 1
      /\ \A i \in 1 .. m : f.queue[i] = e.queue[i]
      /\ f.queue[m + 1] = s
  BY <1>1, AppendIs
<1> HIDE DEF m
<1>3. \A i \in DOMAIN f.queue : \/ i \in DOMAIN e.queue /\ f.queue[i] = e.queue[i]
                                \/ i = m + 1 /\ f.queue[i] = s
  BY <1>2
<1>4. ASSUME NEW i \in DOMAIN f.queue, Counts(f, i)
      PROVE  /\ Rises(f.queue[i].text) /\ UpTo(f.queue[i].text, n)
             /\ Under(f.document, f.queue[i].text)
             /\ \A j \in DOMAIN f.queue : j < i /\ Carries(f.queue[j]) =>
                   Under(f.queue[j].text, f.queue[i].text)
  <2>1. CASE i \in DOMAIN e.queue /\ f.queue[i] = e.queue[i]
    <3>1. \A j \in DOMAIN f.queue : j < i => j \in DOMAIN e.queue /\ f.queue[j] = e.queue[j]
      BY <1>2, <2>1
    <3>2. Counts(e, i)
      BY <1>1, <1>4, <2>1, <3>1 DEF Counts
    <3> QED BY <1>1, <2>1, <3>1, <3>2 DEF InOrder
  <2>2. CASE i = m + 1 /\ f.queue[i] = s
    <3>1. Fits(e, s.text, n)
      BY <1>4, <2>2 DEF Counts
    <3>2. \A j \in DOMAIN f.queue : j < i => j \in DOMAIN e.queue /\ f.queue[j] = e.queue[j]
      BY <1>2, <2>2
    <3> QED BY <1>1, <2>2, <3>1, <3>2 DEF Fits
  <2> QED BY <1>3, <2>1, <2>2
<1>5. InOrder(f, n)
  BY <1>1, <1>4 DEF InOrder
<1>6. ASSUME ~Carries(s), NEW t \in Texts, Fits(e, t, n) PROVE Fits(f, t, n)
  BY <1>1, <1>3, <1>6 DEF Fits
<1> QED BY <1>5, <1>6

\* Text that fits is written, or shown in the composition.
LEMMA DoesOrder ==
    ASSUME NEW e \in EditorType, NEW n \in Nat, NEW s \in Sessions, NEW f \in EditorType,
           Does(e, f, s), Clean(f),
           ~e.open => e.shown = <<>>,
           Rises(e.document) /\ UpTo(e.document, n),
           Rises(e.shown) /\ UpTo(e.shown, n) /\ Under(e.document, e.shown),
           s.kind = "start" => Fits(e, Preedit(e), n),
           Carries(s) \/ (s.kind = "update" /\ e.open) =>
              Rises(s.text) /\ UpTo(s.text, n) /\ Under(e.document, s.text)
    PROVE  /\ Clean(e) /\ f.document = e.document \o TextOf(s)
           /\ ~f.open => f.shown = <<>>
           /\ Rises(f.document) /\ UpTo(f.document, n)
           /\ Rises(f.shown) /\ UpTo(f.shown, n) /\ Under(f.document, f.shown)
<1>1. /\ e.document \in Texts /\ e.shown \in Texts /\ s.text \in Texts
      /\ e.document \o <<>> = e.document /\ Preedit(e) \in Texts
  BY QueueTexts, TextsConcat DEF Sessions, Texts
<1>2. CASE s.kind = "start" /\ Starts(e, f)
  BY <1>1, <1>2 DEF Starts, Fits, TextOf, Carries, Clean
<1>3. CASE s.kind = "update" /\ Updates(e, f, s.text)
  BY <1>1, <1>3 DEF Updates, TextOf, Carries, Clean
<1>4. CASE Carries(s) /\ f.document = e.document \o s.text /\ f.shown = <<>> /\ Clean(e)
  <2>1. Rises(s.text) /\ UpTo(s.text, n) /\ Under(e.document, s.text) /\ f.document \in Texts
    BY <1>1, <1>4, TextsConcat
  <2>2. Rises(f.document)
    BY <1>1, <1>4, <2>1, TextsOrder
  <2>3. UpTo(f.document, n)
    BY <1>1, <1>4, <2>1, TextsOrder
  <2>4. Rises(f.shown) /\ UpTo(f.shown, n) /\ Under(f.document, f.shown)
    BY <1>4, <2>1, TextsOrder
  <2> QED BY <1>4, <2>2, <2>3, <2>4 DEF TextOf
<1>5. CASE s.kind = "end" /\ Ends(e, f, s.text)
  <2>1. f.mishaps = e.mishaps
    <3>1. "overtaken" \notin f.mishaps
      BY DEF Clean
    <3> QED BY <1>5, <3>1 DEF Ends
  <2> QED BY <1>4, <1>5, <2>1 DEF Ends, Carries, Clean
<1>6. CASE s.kind = "insert" /\ Inserts(e, f, s.text)
  <2>1. ~e.open
    <3>1. "inserted" \notin f.mishaps
      BY DEF Clean
    <3> QED BY <1>6, <3>1 DEF Inserts
  <2> QED BY <1>4, <1>6, <2>1 DEF Inserts, Carries, Clean
<1> QED BY <1>2, <1>3, <1>5, <1>6 DEF Does

LEMMA RequestOrder ==
    ASSUME NEW e \in EditorType, NEW n \in Nat, NEW text \in Texts,
           NEW kind \in {"start", "update", "end", "insert"}, NEW f \in Request(kind, text, e),
           Placed(e, text, n), kind = "start" => Placed(e, Preedit(e), n)
    PROVE  /\ f \in EditorType /\ f.draft = e.draft /\ f.romaji = e.romaji
           /\ Placed(f, <<>>, n)
           /\ kind \in {"start", "update"} =>
                 \A t \in Texts : Placed(e, t, n) => Placed(f, t, n)
<1> DEFINE s == [kind |-> kind, text |-> text]
<1>1. /\ s \in Sessions /\ f \in EditorType
      /\ \/ Waits(e, f, s)
         \/ Refuses(e, f)
         \/ e.queue = <<>> /\ Same(e, f) /\ Does(e, f, s)
  BY RequestDoes
<1>2. s.kind = kind /\ s.text = text /\ (Carries(s) <=> kind \in {"end", "insert"})
  BY DEF Carries
<1> HIDE DEF s
<1>3. f.draft = e.draft /\ f.romaji = e.romaji
  BY <1>1 DEF Waits, Refuses, Same
<1> SUFFICES ASSUME Clean(f)
             PROVE  /\ Clean(e) /\ InOrder(f, n)
                    /\ ~Carries(s) => \A t \in Texts : Fits(e, t, n) => Fits(f, t, n)
  BY <1>1, <1>2, <1>3, FitsNothing DEF Placed
<1>4. CASE Waits(e, f, s)
  <2>1. Clean(e)
    BY <1>4 DEF Waits, Clean
  <2> QED BY <1>1, <1>2, <1>4, <2>1, WaitsOrder DEF Placed
<1>5. CASE Refuses(e, f)
  <2>1. Clean(e) /\ InOrder(e, n)
    BY <1>5 DEF Refuses, Clean, Placed
  <2>2. f.queue = e.queue /\ f.document = e.document /\ f.open = e.open /\ f.shown = e.shown
    BY <1>5 DEF Refuses, Same
  <2> QED BY <2>1, <2>2 DEF InOrder, Counts, Fits
<1>6. CASE e.queue = <<>> /\ Same(e, f) /\ Does(e, f, s)
  <2>1. Clean(e)
    <3>1. e.mishaps \subseteq f.mishaps
      BY <1>6 DEF Does, Starts, Updates, Ends, Inserts
    <3> QED BY <3>1 DEF Clean
  <2>2. InOrder(e, n) /\ Fits(e, text, n) /\ (s.kind = "start" => Fits(e, Preedit(e), n))
    BY <1>2, <2>1 DEF Placed
  <2>3. /\ f.document = e.document \o TextOf(s)
        /\ ~f.open => f.shown = <<>>
        /\ Rises(f.document) /\ UpTo(f.document, n)
        /\ Rises(f.shown) /\ UpTo(f.shown, n) /\ Under(f.document, f.shown)
    <3>1. /\ ~e.open => e.shown = <<>>
          /\ Rises(e.document) /\ UpTo(e.document, n)
          /\ Rises(e.shown) /\ UpTo(e.shown, n) /\ Under(e.document, e.shown)
          /\ s.kind = "start" => Fits(e, Preedit(e), n)
          /\ Rises(s.text) /\ UpTo(s.text, n) /\ Under(e.document, s.text)
      BY <1>2, <2>2 DEF InOrder, Fits
    <3> QED BY <1>1, <1>6, <3>1, DoesOrder
  <2>4. DOMAIN e.queue = {} /\ DOMAIN f.queue = {}
    BY <1>6 DEF Same
  <2>5. InOrder(f, n)
    BY <2>3, <2>4 DEF InOrder
  <2>6. ~Carries(s) => f.document = e.document
    <3>1. e.document \in Texts
      BY QueueTexts
    <3> QED BY <2>3, <3>1, TextsConcat DEF TextOf
  <2> QED BY <2>1, <2>4, <2>5, <2>6 DEF Fits
<1> QED BY <1>1, <1>4, <1>5, <1>6

\* The handlers, for which the preedit is the text that may still be written.

LEMMA EmptiedOrder ==
    ASSUME NEW e \in EditorType, NEW n, NEW t, Placed(e, t, n), Preedit(e) = t \/ t = <<>>
    PROVE  Placed(Emptied(e), t, n) /\ Preedit(Emptied(e)) = <<>>
<1>1. /\ Emptied(e).mishaps = e.mishaps /\ Emptied(e).open = e.open /\ Emptied(e).shown = e.shown
      /\ Emptied(e).queue = e.queue /\ Emptied(e).document = e.document
      /\ Preedit(Emptied(e)) = <<>>
  BY EmptiedWrites
<1> QED BY <1>1 DEF Placed, Clean, InOrder, Counts, Fits

LEMMA EnsureOrder ==
    ASSUME NEW e \in EditorType, NEW n \in Nat, Placed(e, Preedit(e), n), NEW f \in EnsureComposition(e)
    PROVE  f \in EditorType /\ f.draft = e.draft /\ f.romaji = e.romaji /\ Placed(f, Preedit(f), n)
<1>1. <<>> \in Texts /\ Placed(e, <<>>, n) /\ Preedit(e) \in Texts
  BY EditorIs, PlacedNothing, QueueTexts
<1>2. CASE f = e
  BY <1>2
<1>3. CASE f \in Request("start", <<>>, e)
  <2>1. /\ f \in EditorType /\ f.draft = e.draft /\ f.romaji = e.romaji
        /\ Placed(f, Preedit(e), n)
    BY <1>1, <1>3, RequestOrder
  <2> QED BY <2>1 DEF Preedit
<1> QED BY <1>2, <1>3 DEF EnsureComposition

LEMMA UpdateOrder ==
    ASSUME NEW e \in EditorType, NEW n \in Nat, Placed(e, Preedit(e), n),
           NEW f \in UpdateCompositionText(e, Preedit(e))
    PROVE  f \in EditorType /\ f.draft = e.draft /\ f.romaji = e.romaji /\ Placed(f, Preedit(f), n)
<1>1. Preedit(e) \in Texts
  BY QueueTexts
<1>2. CASE f = e
  BY <1>2
<1>3. CASE f \in Request("update", Preedit(e), e)
  <2>1. /\ f \in EditorType /\ f.draft = e.draft /\ f.romaji = e.romaji
        /\ Placed(f, Preedit(e), n)
    BY <1>1, <1>3, RequestOrder
  <2> QED BY <2>1 DEF Preedit
<1> QED BY <1>2, <1>3 DEF UpdateCompositionText

LEMMA ShowsOrder ==
    ASSUME NEW e \in EditorType, NEW n \in Nat, Placed(e, Preedit(e), n), NEW f \in Shows(e)
    PROVE  f \in EditorType /\ f.draft = e.draft /\ f.romaji = e.romaji /\ Placed(f, Preedit(f), n)
<1>1. PICK g \in EnsureComposition(e) : f \in UpdateCompositionText(g, Preedit(g))
  BY DEF Shows
<1>2. g \in EditorType /\ g.draft = e.draft /\ g.romaji = e.romaji /\ Placed(g, Preedit(g), n)
  BY EnsureOrder
<1> QED BY <1>1, <1>2, UpdateOrder

LEMMA CommitOrder ==
    ASSUME NEW e \in EditorType, NEW n \in Nat, NEW text \in Texts, Placed(e, text, n),
           NEW f \in CommitComposition(e, text)
    PROVE  Placed(f, Preedit(f), n)
<1>1. PICK g \in Request("end", text, e) : f = Emptied(g)
  BY DEF CommitComposition
<1>2. g \in EditorType /\ Placed(g, <<>>, n)
  BY RequestOrder
<1> QED BY <1>1, <1>2, EmptiedOrder

LEMMA CancelOrder ==
    ASSUME NEW e \in EditorType, NEW n \in Nat, Placed(e, Preedit(e), n),
           NEW f \in CancelComposition(e)
    PROVE  Placed(f, Preedit(f), n)
<1>1. <<>> \in Texts /\ Placed(e, <<>>, n)
  BY EditorIs, PlacedNothing
<1> QED BY <1>1, CommitOrder, EmptiedOrder DEF CancelComposition

LEMMA InsertOrder ==
    ASSUME NEW e \in EditorType, NEW n \in Nat, NEW newly \in Texts, Placed(e, newly, n),
           NEW f \in InsertDirectly(e, newly)
    PROVE  Placed(f, Preedit(f), n)
<1>1. PICK g \in Request("insert", newly, e) :
             f = Emptied(IF Preedit(e) = newly THEN g ELSE With(g, "dropped"))
  BY DEF InsertDirectly
<1>2. g \in EditorType /\ Placed(g, <<>>, n)
  BY RequestOrder
<1> DEFINE h == With(g, "dropped")
<1>3. h \in EditorType /\ h = [g EXCEPT !.mishaps = g.mishaps \cup {"dropped"}]
  BY <1>2, WithType DEF Mishaps
<1>4. /\ h.mishaps = g.mishaps \cup {"dropped"} /\ h.open = g.open /\ h.shown = g.shown
      /\ h.queue = g.queue /\ h.document = g.document
  BY <1>2, <1>3, EditorIs
<1> HIDE DEF h
<1>5. Placed(h, <<>>, n)
  BY <1>2, <1>4 DEF Placed, Clean, InOrder, Counts, Fits
<1>6. f = Emptied(g) \/ f = Emptied(h)
  BY <1>1 DEF h
<1> QED BY <1>2, <1>3, <1>5, <1>6, EmptiedOrder

\* The order does not look at the draft.
LEMMA EditedOrder ==
    ASSUME NEW e, NEW f, Elsewhere(e, f), NEW n, NEW t, Placed(e, t, n)
    PROVE  Placed(f, t, n)
BY DEF Elsewhere, Placed, Clean, InOrder, Counts, Fits

Sorted == Placed(editor, Preedit(editor), typed)

\* A flush may shorten the preedit.
LEMMA FlushOrder ==
    ASSUME editor \in EditorType, typed \in Nat, Sorted, NEW f \in Flush(editor) \cup {editor}
    PROVE  f \in EditorType /\ Placed(f, Preedit(f), typed)
<1>1. /\ f \in EditorType /\ Elsewhere(editor, f)
      /\ Preedit(f) = editor.draft \/ Preedit(f) = Preedit(editor)
  BY FlushIs DEF Elsewhere
<1>2. editor.draft \in Texts /\ editor.romaji \in Texts
  BY EditorIs
<1>3. Placed(editor, editor.draft, typed)
  BY <1>2, FitsPart DEF Sorted, Placed, Preedit
<1>4. Placed(editor, Preedit(f), typed)
  BY <1>1, <1>3 DEF Sorted
<1> QED BY <1>1, <1>4, EditedOrder

LEMMA TypeOrder ==
    ASSUME editor \in EditorType, typed \in 0 .. MaxKeys, Sorted, Type \/ TypeDirectly
    PROVE  Placed(editor', Preedit(editor'), typed')
<1> DEFINE k == typed + 1
<1>1. /\ typed' = k /\ typed \in Nat /\ typed < MaxKeys /\ k \in Nat
      /\ \E f \in Flush(editor) \cup {editor} : \E e \in EditorType, before, newly \in Texts :
            Keyed(f, e, before, newly)
  BY KeyIs
<1>2. PICK f \in Flush(editor) \cup {editor} : \E e \in EditorType, before, newly \in Texts :
            Keyed(f, e, before, newly)
  BY <1>1
<1>3. PICK e \in EditorType, before \in Texts, newly \in Texts : Keyed(f, e, before, newly)
  BY <1>2
<1>4. f \in EditorType /\ Preedit(f) \in Texts /\ Placed(f, Append(Preedit(f), k), k)
  BY <1>1, FlushOrder, QueueTexts, PlacedNewest
<1>5. Placed(e, Preedit(e), k)
  BY <1>3, <1>4, EditedOrder DEF Keyed
<1> HIDE DEF k
<1>6. PICK g \in EnsureComposition(e) :
             editor' \in IF g.open THEN UpdateCompositionText(g, Preedit(g))
                         ELSE IF newly # <<>> THEN InsertDirectly(g, newly) ELSE {g}
  BY <1>3 DEF Keyed, Enters
<1>7. g \in EditorType /\ g.draft = e.draft /\ g.romaji = e.romaji /\ Placed(g, Preedit(g), k)
  BY <1>1, <1>3, <1>5, EnsureOrder
<1>8. Placed(g, newly, k)
  <2>1. Preedit(g) = (before \o newly) \o g.romaji /\ g.romaji \in Texts
    BY <1>3, <1>7, EditorIs DEF Keyed, Preedit
  <2>2. before \o newly \in Texts
    BY TextsConcat
  <2>3. ASSUME Clean(g) PROVE Fits(g, newly, k)
    <3> DEFINE x == before \o newly
    <3>1. Fits(g, x \o g.romaji, k) /\ x \in Texts
      BY <1>7, <2>1, <2>2, <2>3 DEF Placed
    <3> HIDE DEF x
    <3>2. Fits(g, x, k)
      BY <1>1, <1>7, <2>1, <3>1, FitsPart
    <3> QED BY <1>1, <1>7, <3>2, FitsPart DEF x
  <2> QED BY <1>7, <2>3 DEF Placed
<1> QED BY <1>1, <1>3, <1>6, <1>7, <1>8, UpdateOrder, InsertOrder

LEMMA BackspaceOrder ==
    ASSUME editor \in EditorType, typed \in Nat, Sorted, Backspace
    PROVE  Placed(editor', Preedit(editor'), typed)
<1> DEFINE romaji == IF editor.romaji # <<>> THEN Front(editor.romaji) ELSE editor.romaji
           draft == IF editor.romaji # <<>> THEN editor.draft ELSE Front(editor.draft)
           e == [editor EXCEPT !.draft = draft, !.romaji = romaji]
           p == Preedit(editor)
<1>1. editor.draft \in Texts /\ editor.romaji \in Texts /\ p \in Texts /\ <<>> \in Texts
  BY QueueTexts, EditorIs
<1>2. e = IF editor.romaji # <<>> THEN [editor EXCEPT !.romaji = Front(@)]
                                  ELSE [editor EXCEPT !.draft = Front(@)]
  BY <1>1, EditorIs
<1>3. /\ editor' \in IF HasPreedit(e) THEN Shows(e) ELSE CancelComposition(e)
      /\ p # <<>>
  BY <1>2 DEF Backspace, HasPreedit
<1>4. romaji \in Texts /\ draft \in Texts /\ Front(p) \in Texts
  BY <1>1, TextsCut
<1>5. draft \o romaji = Front(p)
  <2>1. CASE editor.romaji # <<>>
    BY <1>1, <2>1, TextsCut DEF Preedit
  <2>2. CASE editor.romaji = <<>>
    <3>1. editor.draft \o <<>> = editor.draft /\ Front(editor.draft) \o <<>> = Front(editor.draft)
      BY <1>1, TextsConcat, TextsCut
    <3> QED BY <2>2, <3>1 DEF Preedit
  <2> QED BY <2>1, <2>2
<1>6. PICK last \in Texts : p = Front(p) \o last
  <2>1. PICK x \in Letters : p = Append(Front(p), x)
    BY <1>1, <1>3, ConcatFront, EmptySeq DEF Texts
  <2>2. <<x>> \in Texts /\ Append(Front(p), x) = Front(p) \o <<x>>
    <3> HIDE DEF p
    <3> DEFINE t == Front(p)
    <3>1. t \in Seq(Letters)
      BY <1>4 DEF Texts
    <3> HIDE DEF t
    <3>2. <<x>> \in Seq(Letters) /\ Append(t, x) = t \o <<x>>
      BY <3>1
    <3> QED BY <3>2 DEF t, Texts
  <2> QED BY <2>1, <2>2
<1> HIDE DEF romaji, draft
<1>7. Placed(editor, Front(p), typed)
  <2>1. Placed(editor, Front(p) \o last, typed)
    BY <1>6 DEF Sorted
  <2> HIDE DEF p
  <2> QED BY <1>4, <2>1, FitsPart DEF Placed
<1>8. e \in EditorType /\ Placed(e, Preedit(e), typed)
  <2>1. e \in EditorType /\ Elsewhere(editor, e) /\ e.draft = draft /\ e.romaji = romaji
    BY <1>4, EditorIs DEF Elsewhere
  <2> HIDE DEF e
  <2>2. Preedit(e) = draft \o romaji
    BY <2>1 DEF Preedit
  <2> QED BY <1>5, <1>7, <2>1, <2>2, EditedOrder
<1> HIDE DEF e
<1> QED BY <1>3, <1>8, ShowsOrder, CancelOrder

LEMMA EnterOrder ==
    ASSUME editor \in EditorType, typed \in Nat, Sorted, Enter
    PROVE  Placed(editor', Preedit(editor'), typed)
<1>1. PICK f \in Flush(editor) :
         editor' \in UNION {CommitComposition(e, e.draft) : e \in Shows(f)}
  BY DEF Enter
<1>2. PICK e \in Shows(f) : editor' \in CommitComposition(e, e.draft)
  BY <1>1
<1>3. f \in EditorType /\ f.romaji = <<>> /\ Placed(f, Preedit(f), typed)
  BY FlushIs, FlushOrder
<1>4. e \in EditorType /\ e.romaji = <<>> /\ Placed(e, Preedit(e), typed)
  BY <1>3, ShowsOrder
<1>5. Preedit(e) = e.draft /\ e.draft \in Texts
  BY <1>4, QueueTexts, TextsConcat DEF Preedit
<1> QED BY <1>2, <1>4, <1>5, CommitOrder

LEMMA LeaveOrder ==
    ASSUME editor \in EditorType, typed \in Nat, Sorted,
           NEW hasContext \in BOOLEAN, LeaveKanaMode(hasContext)
    PROVE  Placed(editor', Preedit(editor'), typed)
<1>1. PICK e \in Flush(editor) :
         editor' \in IF e.draft = <<>> /\ ~e.open THEN {e}
                    ELSE IF hasContext THEN CommitComposition(e, e.draft)
                    ELSE CommitElsewhere(e, e.draft)
  BY DEF LeaveKanaMode
<1>2. /\ e \in EditorType /\ Placed(e, e.draft, typed) /\ Preedit(e) = e.draft /\ e.draft \in Texts
  BY FlushIs, FlushOrder
<1>3. CASE e.draft = <<>> /\ ~e.open
  <2>1. editor' = e
    BY <1>1, <1>3
  <2> QED BY <1>2, <2>1
<1>4. CASE (e.draft # <<>> \/ e.open) /\ hasContext
  BY <1>1, <1>2, <1>4, CommitOrder
<1>5. CASE (e.draft # <<>> \/ e.open) /\ ~hasContext
  <2>1. /\ editor' \in EditorType /\ Preedit(editor') = <<>>
        /\ "pasted" \in editor'.mishaps \/ OnlyKept(e, editor')
    BY <1>1, <1>2, <1>5, CommitElsewhereIs
  <2>2. CASE "pasted" \in editor'.mishaps
    BY <2>2 DEF Placed, Clean
  <2>3. CASE OnlyKept(e, editor')
    BY <1>2, <2>1, <2>3 DEF OnlyKept, Placed, Clean, InOrder, Counts, Fits
  <2> QED BY <2>1, <2>2, <2>3
<1> QED BY <1>3, <1>4, <1>5

\* What the host keeps was shown, so it is newer than the document; nothing that
\* waits may come after it, or the composition is overtaken.
LEMMA TerminatedOrder ==
    ASSUME editor \in EditorType, typed \in Nat, Sorted, OnCompositionTerminated
    PROVE  Placed(editor', Preedit(editor'), typed)
<1> DEFINE g == Emptied(editor)
           e == Closed([g EXCEPT !.document = @ \o g.shown])
           q == editor.queue
<1>1. /\ g \in EditorType /\ g.document = editor.document /\ g.shown = editor.shown
      /\ g.queue = q /\ g.mishaps = editor.mishaps /\ g.draft = <<>> /\ g.romaji = <<>>
      /\ editor.shown \in Texts /\ editor.document \in Texts /\ <<>> \in Texts
  BY EmptiedWrites, EditorIs
<1>2. editor' = IF Waiting(editor) = <<>> THEN e ELSE With(e, "terminated")
  BY <1>1 DEF OnCompositionTerminated
<1>3. e \in EditorType /\ Same(g, e) /\ Ends(g, e, g.shown)
  BY <1>1, ClosedEnds DEF Texts
<1>4. Preedit(e) = <<>> /\ e.queue = q
  BY <1>1, <1>3, TextsConcat DEF Same, Preedit
<1> HIDE DEF g, e
<1>5. CASE Waiting(editor) # <<>>
  <2>1. editor' = [e EXCEPT !.mishaps = e.mishaps \cup {"terminated"}]
    BY <1>2, <1>3, <1>5, WithType DEF Mishaps
  <2>2. "terminated" \in editor'.mishaps
    BY <1>3, <2>1, EditorIs
  <2> QED BY <2>2 DEF Placed, Clean
<1>6. CASE Waiting(editor) = <<>>
  <2> SUFFICES ASSUME Clean(e) PROVE InOrder(e, typed)
    BY <1>2, <1>3, <1>4, <1>6, FitsNothing DEF Placed
  <2>1. Clean(editor) /\ ~Overtakes(q)
    <3>1. "overtaken" \notin e.mishaps
      BY DEF Clean
    <3> QED BY <1>1, <1>3, <3>1 DEF Ends, Clean
  <2>2. InOrder(editor, typed)
    BY <2>1 DEF Sorted, Placed
  <2>3. /\ e.document = editor.document \o editor.shown /\ ~e.open /\ e.shown = <<>>
        /\ e.document \in Texts
    BY <1>1, <1>3, TextsConcat DEF Ends
  <2>4. Rises(e.document) /\ UpTo(e.document, typed)
    BY <1>1, <2>2, <2>3, TextsOrder DEF InOrder
  <2>5. Rises(e.shown) /\ UpTo(e.shown, typed) /\ Under(e.document, e.shown)
    BY <2>3, TextsOrder
  <2>6. ASSUME NEW i \in DOMAIN q, Counts(e, i)
        PROVE  /\ Rises(q[i].text) /\ UpTo(q[i].text, typed)
               /\ Under(e.document, q[i].text)
               /\ \A j \in DOMAIN q : j < i /\ Carries(q[j]) => Under(q[j].text, q[i].text)
    <3>1. Carries(q[i])
      BY <1>4, <2>1, <2>3, <2>6 DEF Counts, Overtakes
    <3>2. q[i].text = <<>>
      BY <1>6, <3>1, WaitingIs, WaitingNone DEF TextOf
    <3>3. Counts(editor, i)
      BY <3>1 DEF Counts
    <3>4. Under(e.document, q[i].text)
      BY <2>3, <3>2, TextsOrder
    <3> QED BY <2>2, <3>3, <3>4 DEF InOrder
  <2> QED BY <1>4, <2>3, <2>4, <2>5, <2>6 DEF InOrder
<1> QED BY <1>5, <1>6

\* The oldest session was in order with what waits behind it.
LEMMA RunOrder ==
    ASSUME editor \in EditorType, typed \in Nat, Sorted, RunSession
    PROVE  Placed(editor', Preedit(editor'), typed)
<1> DEFINE q == editor.queue
           s == Head(q)
           rest == Tail(q)
           e == [editor EXCEPT !.queue = rest]
           f == editor'
<1>1. q # <<>> /\ q \in Queues /\ f \in Run(s, e)
  BY WaitingIs DEF RunSession
<1>2. /\ s \in Sessions /\ rest \in Queues /\ Len(q) \in Nat /\ Len(q) # 0 /\ s = q[1]
      /\ DOMAIN q = 1 .. Len(q) /\ DOMAIN rest = 1 .. Len(q) - 1
      /\ \A i \in 1 .. Len(q) - 1 : rest[i] = q[i + 1]
  BY <1>1, TailIs, WaitingHead
<1> HIDE DEF s, rest
<1>3. e \in EditorType /\ e.queue = rest
  BY <1>2, EditorIs
<1>4. /\ e.mishaps = editor.mishaps /\ e.open = editor.open /\ e.shown = editor.shown
      /\ e.document = editor.document /\ e.draft = editor.draft /\ e.romaji = editor.romaji
  BY EditorIs
<1> HIDE DEF e, q
<1>5. f \in EditorType /\ Same(e, f) /\ Does(e, f, s)
  BY <1>1, <1>2, <1>3, RunDoes
<1> HIDE DEF f
<1>6. f.queue = rest /\ Preedit(f) = Preedit(editor) /\ Preedit(e) = Preedit(editor)
  BY <1>3, <1>4, <1>5 DEF Same, Preedit
<1> SUFFICES ASSUME Clean(f) PROVE InOrder(f, typed) /\ Fits(f, Preedit(f), typed)
  BY DEF Placed, f
<1>7. InOrder(editor, typed) /\ Fits(editor, Preedit(editor), typed)
  <2>1. e.mishaps \subseteq f.mishaps
    BY <1>5 DEF Does, Starts, Updates, Ends, Inserts
  <2> QED BY <1>4, <2>1 DEF Sorted, Placed, Clean
<1>8. 1 \in DOMAIN q /\ (Counts(editor, 1) <=> Carries(s) \/ (s.kind = "update" /\ editor.open))
  BY <1>2 DEF Counts, q
<1>9. /\ f.document = e.document \o TextOf(s)
      /\ ~f.open => f.shown = <<>>
      /\ Rises(f.document) /\ UpTo(f.document, typed)
      /\ Rises(f.shown) /\ UpTo(f.shown, typed) /\ Under(f.document, f.shown)
  <2>1. /\ ~e.open => e.shown = <<>>
        /\ Rises(e.document) /\ UpTo(e.document, typed)
        /\ Rises(e.shown) /\ UpTo(e.shown, typed) /\ Under(e.document, e.shown)
    BY <1>4, <1>7 DEF InOrder
  <2>2. Carries(s) \/ (s.kind = "update" /\ e.open) =>
           Rises(s.text) /\ UpTo(s.text, typed) /\ Under(e.document, s.text)
    BY <1>2, <1>4, <1>7, <1>8 DEF InOrder, q
  <2>3. s.kind = "start" => Fits(e, Preedit(e), typed)
    <3>1. Fits(e, Preedit(e), typed)
      <4>1. \A i \in DOMAIN rest : i + 1 \in DOMAIN q /\ rest[i] = q[i + 1]
        BY <1>2
      <4> QED BY <1>3, <1>4, <1>6, <1>7, <4>1 DEF Fits, q
    <3> QED BY <3>1
  <2>4. s \in Sessions /\ e \in EditorType /\ f \in EditorType /\ Does(e, f, s)
    BY <1>2, <1>3, <1>5
  <2> QED BY <2>1, <2>2, <2>3, <2>4, DoesOrder
<1>10. \A i \in DOMAIN rest : i + 1 \in DOMAIN q /\ rest[i] = q[i + 1] /\ 1 < i + 1
  BY <1>2
<1>11. /\ e.document \in Texts /\ TextOf(s) \in Texts /\ Preedit(editor) \in Texts
       /\ \A i \in DOMAIN rest : rest[i].text \in Texts
  <2>1. s.text \in Texts /\ <<>> \in Texts
    BY <1>2, EditorIs DEF Sessions, Texts
  <2> QED BY <1>3, <2>1, QueueTexts DEF TextOf
\* Text over what was written and over the oldest session is over what is written.
<1>12. ASSUME NEW t \in Texts, Under(e.document, t), Carries(s) => Under(s.text, t)
       PROVE  Under(f.document, t)
  <2>1. Under(TextOf(s), t)
    BY <1>12, TextsOrder DEF TextOf
  <2> QED BY <1>9, <1>11, <1>12, <2>1, TextsOrder
<1>13. ASSUME NEW i \in DOMAIN rest, Counts(f, i)
       PROVE  /\ Rises(rest[i].text) /\ UpTo(rest[i].text, typed)
              /\ Under(f.document, rest[i].text)
              /\ \A j \in DOMAIN rest : j < i /\ Carries(rest[j]) => Under(rest[j].text, rest[i].text)
  <2>1. Counts(editor, i + 1)
    <3>1. CASE Carries(rest[i])
      BY <1>10, <3>1 DEF Counts, q
    <3>2. CASE rest[i].kind = "update" /\ f.open
      <4>1. editor.open \/ s.kind = "start"
        BY <1>4, <1>5, <3>2 DEF Does, Starts, Updates, Ends, Inserts
      <4> QED BY <1>2, <1>8, <1>10, <3>2, <4>1 DEF Counts, q
    <3>3. ASSUME rest[i].kind = "update", NEW j \in DOMAIN rest, j < i, rest[j].kind = "start"
          PROVE  Counts(editor, i + 1)
      <4>1. j + 1 < i + 1
        BY <1>2, <3>3
      <4> QED BY <1>10, <3>3, <4>1 DEF Counts, q
    <3> QED BY <1>6, <1>13, <3>1, <3>2, <3>3 DEF Counts
  <2>2. /\ Rises(rest[i].text) /\ UpTo(rest[i].text, typed) /\ Under(editor.document, rest[i].text)
        /\ \A j \in DOMAIN q : j < i + 1 /\ Carries(q[j]) => Under(q[j].text, rest[i].text)
    BY <1>7, <1>10, <2>1 DEF InOrder, q
  <2>3. Under(f.document, rest[i].text)
    BY <1>2, <1>4, <1>8, <1>10, <1>11, <1>12, <2>2
  <2>4. ASSUME NEW j \in DOMAIN rest, j < i, Carries(rest[j])
        PROVE  Under(rest[j].text, rest[i].text)
    <3>1. j + 1 < i + 1
      BY <1>2, <2>4
    <3> QED BY <1>10, <2>2, <2>4, <3>1
  <2> QED BY <2>2, <2>3, <2>4
<1>14. InOrder(f, typed)
  BY <1>6, <1>9, <1>13 DEF InOrder
<1>15. Fits(f, Preedit(f), typed)
  <2> DEFINE t == Preedit(editor)
  <2>1. Rises(t) /\ UpTo(t, typed) /\ Under(editor.document, t)
    BY <1>7 DEF Fits
  <2>2. \A i \in DOMAIN q : Carries(q[i]) => Under(q[i].text, t)
    BY <1>7 DEF Fits, q
  <2> HIDE DEF t
  <2>3. Under(f.document, t)
    BY <1>2, <1>4, <1>8, <1>11, <1>12, <2>1, <2>2 DEF t
  <2>4. \A i \in DOMAIN rest : Carries(rest[i]) => Under(rest[i].text, t)
    BY <1>10, <2>2
  <2> QED BY <1>6, <2>1, <2>3, <2>4 DEF t, Fits
<1> QED BY <1>14, <1>15

SortedSoFar == KeptSoFar /\ Sorted

LEMMA SortedHolds == Spec => []SortedSoFar
<1>1. Init => SortedSoFar
  <2> SUFFICES ASSUME Init PROVE Sorted
    BY InitKeeps DEF SortedSoFar
  <2>1. /\ editor \in EditorType /\ editor.document = <<>> /\ editor.shown = <<>> /\ typed = 0
        /\ DOMAIN editor.queue = {} /\ <<>> \in Texts /\ ~editor.open
    BY InitKeeps, EditorIs DEF Init, KeptSoFar, Types
  <2>2. Preedit(editor) = <<>>
    BY <2>1, TextsConcat DEF Init, Preedit
  <2>3. InOrder(editor, typed)
    BY <2>1, TextsOrder DEF InOrder
  <2> QED BY <2>1, <2>2, <2>3, FitsNothing DEF Sorted, Placed
<1>2. SortedSoFar /\ [Next]_vars => SortedSoFar'
  <2> SUFFICES ASSUME SortedSoFar, [Next]_vars PROVE SortedSoFar'
    OBVIOUS
  <2>1. /\ editor \in EditorType /\ typed \in 0 .. MaxKeys /\ typed \in Nat /\ Sorted /\ KeptSoFar
    BY BoundsAssumption DEF SortedSoFar, KeptSoFar, Types
  <2>2. KeptSoFar'
    BY <2>1, NextKeeps
  <2> SUFFICES Placed(editor', Preedit(editor'), typed')
    BY <2>2 DEF SortedSoFar, Sorted, Placed, InOrder, Fits, Clean, Counts, Preedit
  <2>3. CASE Type \/ TypeDirectly
    BY <2>1, <2>3, TypeOrder
  <2>4. CASE Backspace
    BY <2>1, <2>4, BackspaceOrder DEF Backspace
  <2>5. CASE Escape
    BY <2>1, <2>5, CancelOrder DEF Escape, Sorted
  <2>6. CASE Enter
    BY <2>1, <2>6, EnterOrder DEF Enter
  <2>7. CASE \E hasContext \in BOOLEAN : LeaveKanaMode(hasContext)
    BY <2>1, <2>7, LeaveOrder DEF LeaveKanaMode
  <2>8. CASE OnCompositionTerminated
    BY <2>1, <2>8, TerminatedOrder DEF OnCompositionTerminated
  <2>9. CASE RunSession
    BY <2>1, <2>9, RunOrder DEF RunSession
  <2>10. CASE UNCHANGED vars
    BY <2>1, <2>10 DEF vars, Sorted
  <2> QED BY <2>3, <2>4, <2>5, <2>6, <2>7, <2>8, <2>9, <2>10 DEF Next
<1> QED BY <1>1, <1>2, PTL DEF Spec

\* No letter is in the document and the composition twice, even when sessions
\* are lost and drafts are dropped (OnKeyDown, DoEditSession).
THEOREM NoLetterTwice == Spec => []NothingTwice
<1>1. SortedSoFar => NothingTwice
  <2> SUFFICES ASSUME SortedSoFar, Clean(editor)
               PROVE  IsInjective(editor.document \o editor.shown)
    BY DEF NothingTwice, Clean
  <2>1. editor.document \in Texts /\ editor.shown \in Texts
    BY QueueTexts DEF SortedSoFar, KeptSoFar, Types
  <2>2. Rises(editor.document \o editor.shown)
    BY <2>1, TextsOrder DEF SortedSoFar, Sorted, Placed, InOrder
  <2>3. editor.document \o editor.shown \in Seq(Nat)
    <3> DEFINE t == editor.document \o editor.shown
    <3>1. Letters \subseteq Nat
      BY DEF Letters
    <3>2. t \in Seq(Letters)
      BY <2>1 DEF Texts
    <3> HIDE DEF t
    <3>3. t \in Seq(Nat)
      BY <3>1, <3>2, SeqMonotonic
    <3> QED BY <3>3 DEF t
  <2> QED BY <2>2, <2>3, RisingIsInjective
<1> QED BY <1>1, SortedHolds, PTL

=============================================================================
