------------------------------ MODULE Readings ------------------------------
(***************************************************************************)
(* Texts and their readings, and the clauses ("segments") into which a     *)
(* converter divides one.  A reading is a sequence of kana letters.  A     *)
(* character is a kana, which reads one letter, or a kanji, which reads    *)
(* one or more, so a text knows what it reads and how long it is: the two  *)
(* lengths differ as soon as it has a kanji.                               *)
(*                                                                         *)
(* A segment has a place in the reading (start, from 0, and length) and a  *)
(* surface, the text that stands for it.                                   *)
(***************************************************************************)
EXTENDS Naturals, Sequences, SequencesExt

CONSTANT Letters  \* the kana

Chars == [kanji : BOOLEAN, reads : Seq(Letters)]
Texts == Seq(Chars)
Segments == [start : Nat, length : Nat, surface : Texts]

Kana(letter) == [kanji |-> FALSE, reads |-> <<letter>>]
InKana(reading) == [i \in DOMAIN reading |-> Kana(reading[i])]
InKanji(reading) == <<[kanji |-> TRUE, reads |-> reading]>>

ReadingOf(text) == FlattenSeq([i \in DOMAIN text |-> text[i].reads])

\* The texts in order, without the empty ones and without repetitions.
Distinct(texts) ==
    FoldLeft(LAMBDA out, t : IF t = <<>> \/ Contains(out, t) THEN out ELSE Append(out, t),
             <<>>, texts)

\* Where a sequence of adjacent segments ends.
EndOf(segments) ==
    IF segments = <<>> THEN 0 ELSE Last(segments).start + Last(segments).length

Stretch(reading, start, length) == SubSeq(reading, start + 1, start + length)

\* The segments lie one behind the other and cover the reading.
Tiles(segments, reading) ==
    /\ EndOf(segments) = Len(reading)
    /\ \A i \in DOMAIN segments :
        /\ segments[i].length > 0
        /\ segments[i].start = EndOf(SubSeq(segments, 1, i - 1))

-----------------------------------------------------------------------------
\* What the text service makes of the segments of an answer.

\* InitializeSegmentMode: the segments that it edits, without a locked prefix.
\* Gaps become segments in kana, overlaps are cut off, and the rest is added.
SegmentRuntime(segments, reading) ==
    LET n == Len(reading)
        AsKana(start, end) ==
            IF end <= start THEN <<>>
            ELSE <<[start |-> start, length |-> end - start,
                    surface |-> InKana(Stretch(reading, start, end - start))]>>
        Put(runtime, s) ==
            LET cursor == EndOf(runtime)
                from == Max({cursor, s.start})
                end == Min({n, s.start + s.length})
            IN  IF s.length = 0 \/ s.start >= n \/ end <= from THEN runtime
                ELSE runtime \o AsKana(cursor, from)
                             \o <<[start |-> from, length |-> end - from, surface |-> s.surface]>>
        runtime == FoldLeft(Put, <<>>, segments)
    IN  runtime \o AsKana(EndOf(runtime), n)

\* ComposeSegmentReading, before the user chooses anything else.
ComposeSegmentReading(runtime) ==
    FlattenSeq([i \in DOMAIN runtime |-> runtime[i].surface])

\* What the composition shows when the candidate list opens: the clauses put
\* together when there are several, and the first candidate otherwise.
OpeningPreview(candidates, segments, reading) ==
    LET runtime == SegmentRuntime(segments, reading)
    IN  IF segments # <<>> /\ Len(runtime) > 1 THEN ComposeSegmentReading(runtime)
        ELSE candidates[1]

=============================================================================
