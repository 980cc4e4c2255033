-------------------------- MODULE DictionaryWords ---------------------------
(***************************************************************************)
(* DictionaryConversionProvider::SegmentReading                            *)
(* (src/provider/dictionary_conversion_provider.cpp): the cheapest way to  *)
(* read a text as words of the dictionary and single unknown letters.  A   *)
(* word has a key (its reading), a surface and a cost.                     *)
(***************************************************************************)
EXTENDS Readings, Integers

CONSTANTS
    MaxWord,         \* the longest word that is looked up (6 in the code)
    UnknownPenalty,  \* the cost of an unknown letter (40000)
    KanaPenalty,     \* what a surface in kana costs more (2000)
    LetterPenalty    \* what a word costs for each letter (8)

ASSUME WordsAssumption ==
    /\ MaxWord \in Nat \ {0}
    /\ UnknownPenalty \in Nat /\ KanaPenalty \in Nat /\ LetterPenalty \in Nat

KanaOnly(text) == \A i \in DOMAIN text : ~text[i].kanji

AdjustedCost(w) == w.cost + (IF KanaOnly(w.surface) THEN KanaPenalty ELSE 0)

\* The words for a stretch of the reading; an unknown letter is one as well.
Matches(words, key) == {w \in words : w.key = key}
CostOfWord(w) == AdjustedCost(w) + Len(w.key) * LetterPenalty
Unknown(letter) == [text |-> InKana(<<letter>>), cost |-> UnknownPenalty]

\* Mutant of TokensBetween: what a surface in kana costs more is not compared.
TokensBetweenByCost(words, reading, i, end) ==
    LET matches == Matches(words, SubSeq(reading, i + 1, end))
        best == CHOOSE w \in matches : \A v \in matches : w.cost <= v.cost
    IN  (IF matches = {} THEN {} ELSE {[text |-> best.surface, cost |-> CostOfWord(best)]})
        \cup (IF end = i + 1 THEN {Unknown(reading[end])} ELSE {})

\* The tokens from which the stretch behind i up to end may be read: the word
\* that costs least, and the unknown letter.
TokensBetween(words, reading, i, end) ==
    LET matches == Matches(words, SubSeq(reading, i + 1, end))
        best == CHOOSE w \in matches : \A v \in matches : AdjustedCost(w) <= AdjustedCost(v)
    IN  (IF matches = {} THEN {} ELSE {[text |-> best.surface, cost |-> CostOfWord(best)]})
        \cup (IF end = i + 1 THEN {Unknown(reading[end])} ELSE {})

Cheapest(paths) == CHOOSE p \in paths : \A q \in paths : p.cost <= q.cost

\* The paths to a place of the reading by way of the cheapest paths to the
\* places before it, from which a word is looked up.
PathsTo(words, reading, path, end) ==
    UNION {{[text |-> path[i].text \o t.text, cost |-> path[i].cost + t.cost] :
                t \in TokensBetween(words, reading, i, end)} :
           i \in Max({0, end - MaxWord}) .. end - 1}

\* The table dp of the code: the cheapest path to every place of the reading.
\* Every place is reached, so the code's case of an invalid node never occurs.
SegmentReading(words, reading) ==
    LET path[end \in 0 .. Len(reading)] ==
            IF end = 0 THEN [text |-> <<>>, cost |-> 0]
            ELSE Cheapest(PathsTo(words, reading, path, end))
    IN  path[Len(reading)]

-----------------------------------------------------------------------------
\* The reference: every division of the reading, given by the ends of its parts,
\* and every choice of a word or an unknown letter for each part.

Divisions(reading) ==
    LET n == Len(reading)
    IN  {ends \in UNION {[1 .. k -> 1 .. n] : k \in 1 .. n} :
            /\ ends[Len(ends)] = n
            /\ \A k \in 2 .. Len(ends) : ends[k - 1] < ends[k]}

Total(costs) == FoldLeft(+, 0, costs)

PartOf(reading, ends, k) == SubSeq(reading, (IF k = 1 THEN 0 ELSE ends[k - 1]) + 1, ends[k])

CostsOfPart(words, key) ==
    (IF Len(key) > MaxWord THEN {} ELSE {CostOfWord(w) : w \in Matches(words, key)})
    \cup (IF Len(key) = 1 THEN {UnknownPenalty} ELSE {})

\* The cost of the best choice, for each division that has one.
CostsOfReading(words, reading) ==
    LET Costs(ends, k) == CostsOfPart(words, PartOf(reading, ends, k))
    IN  {Total([k \in DOMAIN ends |-> Min(Costs(ends, k))]) :
            ends \in {e \in Divisions(reading) : \A k \in DOMAIN e : Costs(e, k) # {}}}

\* The text reads the reading, and no other division and no other choice of
\* words is cheaper.
IsCheapest(path, words, reading) ==
    ReadingOf(path.text) = reading /\ path.cost = Min(CostsOfReading(words, reading))

=============================================================================
