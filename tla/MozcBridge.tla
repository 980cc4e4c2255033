----------------------------- MODULE MozcBridge -----------------------------
(***************************************************************************)
(* The in-process bridge to another Japanese IME                           *)
(* (tools/mozc_bridge/main.cpp): one call of QueryCandidatesInProcess.  It *)
(* asks the session pipes of Google Japanese Input one after the other     *)
(* and, if none of them has a candidate, four keyboard layouts through     *)
(* IMM32; at last it completes candidates for the first clause with the    *)
(* other clauses.                                                          *)
(*                                                                         *)
(* What a converter answers is an input: its fields after decoding, and    *)
(* with them what damage the decoders notice.  A clause of the candidate   *)
(* list, or of the preedit, that cannot be decoded is dropped, and the     *)
(* rest of the message after damage is not read.  A clause of the list may *)
(* come without its key, which the decoder takes for a clause all the      *)
(* same.  The candidate window has texts for the clause in focus, which is *)
(* the first one.                                                          *)
(***************************************************************************)
EXTENDS Readings

CONSTANTS
    MaxPipes,  \* bound on the session pipes found
    Polls      \* how often the pipes are looked for after a launch (10 in the code)

ASSUME PipesAssumption == MaxPipes \in Nat /\ Polls \in Nat \ {0}

VARIABLE bridge  \* the call: a record

Layouts == 1 .. 4       \* the current one, Google's, Microsoft's and the legacy one
Attempts == 1 .. 5      \* the ways in which one layout is asked
NoReading == <<>>

IdleBridge ==
    [at |-> "idle", reading |-> NoReading, katakana |-> FALSE,
     pipes |-> 0, polls |-> 0, layout |-> 1, attempt |-> 1,
     segments |-> <<>>, source |-> "none", candidates |-> <<>>, error |-> FALSE,
     held |-> {},        \* the window, the context, and the layouts activated and loaded
     plain |-> <<>>,     \* history: the candidates before they were completed,
     intact |-> TRUE,    \*   whether the answer that the segments are of had all
                         \*   of its clauses, and the first one its key,
     fresh |-> TRUE]     \*   and whether the candidates are of the same answer

BridgeInit == bridge = IdleBridge

-----------------------------------------------------------------------------
\* From an answer to segments and candidates.

\* Mutants of PlaceClause: the clause starts anew; it may reach past the end.
PlaceClauseAtStart(reading, segments, key, surface) ==
    IF key = <<>> \/ EndOf(segments) >= Len(reading) THEN segments
    ELSE Append(segments, [start |-> 0, length |-> Len(key), surface |-> surface])

PlaceClauseUnclamped(reading, segments, key, surface) ==
    IF key = <<>> \/ EndOf(segments) >= Len(reading) THEN segments
    ELSE Append(segments, [start |-> EndOf(segments), length |-> Len(key), surface |-> surface])

\* A clause takes as many letters as its key has, and what is left of them.
PlaceClause(reading, segments, key, surface) ==
    LET cursor == EndOf(segments)
    IN  IF key = <<>> \/ cursor >= Len(reading) THEN segments
        ELSE Append(segments, [start |-> cursor, length |-> Min({Len(key), Len(reading) - cursor}),
                               surface |-> surface])

\* What no clause took becomes a last one, in kana.
WithRest(reading, segments) ==
    LET cursor == EndOf(segments)
        rest == Stretch(reading, cursor, Len(reading) - cursor)
    IN  IF rest = <<>> THEN segments
        ELSE Append(segments, [start |-> cursor, length |-> Len(rest), surface |-> InKana(rest)])

\* The candidate in focus, or the first one when the index is out of range.
FocusedOf(clause) ==
    clause.candidates[IF clause.focus < Len(clause.candidates) THEN clause.focus + 1 ELSE 1]

PickSegmentFocusedValue(clause) ==
    IF clause.candidates = <<>> THEN InKana(clause.key) ELSE FocusedOf(clause)

\* Without any clause there are no segments; when none of the clauses has a key
\* the whole reading is the rest.
BuildSegmentsFromCandidateList(list, reading) ==
    IF list = <<>> THEN <<>>
    ELSE WithRest(reading, FoldLeft(
        LAMBDA segments, c : PlaceClause(reading, segments, c.key, PickSegmentFocusedValue(c)),
        <<>>, list))

BuildSegmentsFromPreedit(preedit, reading) ==
    IF preedit = <<>> THEN <<>>
    ELSE WithRest(reading, FoldLeft(
        LAMBDA segments, c : PlaceClause(reading, segments, c.key, c.value), <<>>, preedit))

\* Of the first clause, also when it has no key: the one in focus comes first.
ExtractPrimarySegmentCandidates(list) ==
    IF list = <<>> THEN <<>>
    ELSE IF Head(list).candidates # <<>>
         THEN Distinct(<<FocusedOf(Head(list))>> \o Head(list).candidates)
         ELSE Distinct(<<InKana(Head(list).key)>>)

\* Mutant of ComposeSentence: nothing is appended.
ComposeSentenceNever(candidates, segments) == Distinct(candidates)

\* ComposeSentenceCandidatesFromSegments: a candidate that does not end with
\* the text of the later segments is completed with it.
ComposeSentence(candidates, segments) ==
    LET tail == FlattenSeq([i \in 1 .. Len(segments) - 1 |-> segments[i + 1].surface])
    IN  IF Len(segments) < 2 THEN candidates
        ELSE Distinct([i \in DOMAIN candidates |->
                 IF IsSuffix(tail, candidates[i]) THEN candidates[i] ELSE candidates[i] \o tail])

-----------------------------------------------------------------------------
\* What converters answer, and what of it gets through.

Splits(reading) ==
    {<<reading>>} \cup
    {<<SubSeq(reading, 1, n), SubSeq(reading, n + 1, Len(reading))>> : n \in 1 .. Len(reading) - 1}

Offers(key) == {<<InKanji(key)>>, <<InKanji(key), InKana(key)>>, <<InKana(key), InKanji(key)>>}
Clauses(key) == [key : {key}, candidates : Offers(key), focus : {0, 1}]
PlainClause(key) == [key |-> key, candidates |-> <<InKanji(key)>>, focus |-> 0]
Shown(key) == [key : {key}, value : {InKanji(key), InKana(key)}]

\* The sequences with a member of Of(key) for every key.
PerClause(split, Of(_)) ==
    IF Len(split) = 1 THEN {<<c>> : c \in Of(split[1])}
    ELSE {<<c, d>> : c \in Of(split[1]), d \in Of(split[2])}

PlainShown(key) == [key |-> key, value |-> InKanji(key)]
Lacking(clauses, keys) ==
    [i \in DOMAIN clauses |-> IF i \in keys THEN [clauses[i] EXCEPT !.key = <<>>] ELSE clauses[i]]

Reply(list, preedit, window, intact) ==
    [list |-> list, preedit |-> preedit, window |-> window, intact |-> intact]

Replies(reading) ==
    \* A key is longer than what was asked for.
    {Reply(<<PlainClause(Append(reading, Head(reading)))>>, <<>>, <<>>, FALSE)}
    \cup UNION {
        \* The list of candidates arrives.
        {Reply(list, <<>>, <<>>, TRUE) : list \in PerClause(split, Clauses)}
        \* It does not, and the preedit and the window are used.
        \cup [list : {<<>>}, preedit : PerClause(split, Shown),
              window : {<<>>} \cup Offers(split[1]), intact : {TRUE}]
        \* A clause of the list is damaged, or some of them have no key.
        \cup {Reply(RemoveAt([i \in DOMAIN split |-> PlainClause(split[i])], n), <<>>, <<>>, FALSE) :
                n \in DOMAIN split}
        \cup {Reply(Lacking([i \in DOMAIN split |-> PlainClause(split[i])], keys),
                     preedit, <<>>, 1 \notin keys) :
                keys \in (SUBSET DOMAIN split) \ {{}}, preedit \in PerClause(split, Shown)}
        \* There is no list, and a clause of the preedit is damaged.
        \cup {Reply(<<>>, RemoveAt([i \in DOMAIN split |-> PlainShown(split[i])], n), window, FALSE) :
                n \in DOMAIN split, window \in {<<>>} \cup Offers(split[1])}
        : split \in Splits(reading)}

\* What a layout converts the reading to: whole texts, or nothing.
Conversions(reading) ==
    {<<>>, <<InKanji(reading), InKana(reading)>>} \cup
    {<<FlattenSeq([i \in DOMAIN split |-> InKanji(split[i])])>> : split \in Splits(reading)}

-----------------------------------------------------------------------------
\* QueryGoogleSessionCandidates.

At(where) == bridge.at = where
Move(b) == bridge' = b

\* The end of the call: without a candidate the answer has no segments either.
Respond(b) ==
    IF b.candidates = <<>> THEN [b EXCEPT !.at = "answered", !.error = TRUE, !.segments = <<>>]
    ELSE [b EXCEPT !.at = "answered", !.plain = b.candidates,
                   !.candidates = ComposeSentence(b.candidates, b.segments)]

BridgeCall(reading, katakana) ==
    /\ At("idle")
    /\ Move([IdleBridge EXCEPT !.at = "pipes", !.reading = reading, !.katakana = katakana])

FoundPipes(n) ==
    IF n > 0 THEN [bridge EXCEPT !.at = "create", !.pipes = n]
    ELSE [bridge EXCEPT !.at = "load"]

FindPipes == At("pipes") /\ \E n \in 1 .. MaxPipes : Move(FoundPipes(n))

FindNoPipe == At("pipes") /\ Move([bridge EXCEPT !.at = "launch"])

LaunchConverter ==
    At("launch") /\ Move([bridge EXCEPT !.at = "poll", !.polls = Polls])

LaunchConverterFails == At("launch") /\ Move(FoundPipes(0))

PollPipes ==
    /\ At("poll")
    /\ \E n \in 0 .. MaxPipes :
        Move(IF n > 0 \/ bridge.polls = 1 THEN FoundPipes(n)
             ELSE [bridge EXCEPT !.polls = @ - 1])

\* The next pipe, with the segments that this one left.
NextPipe(b) ==
    LET left == [b EXCEPT !.fresh = b.segments = <<>>, !.intact = @ \/ b.segments = <<>>]
    IN  IF b.pipes > 1 THEN [left EXCEPT !.at = "create", !.pipes = @ - 1]
        ELSE [left EXCEPT !.at = "load"]

CreateSession == At("create") /\ Move([bridge EXCEPT !.at = "convert"])

\* The pipe is busy, cannot be opened, written or read, or sends no id.
CreateSessionFails == At("create") /\ Move(NextPipe(bridge))

ConvertFails == At("convert") /\ Move(NextPipe(bridge))

Convert ==
    /\ At("convert")
    /\ \E r \in Replies(bridge.reading) :
        LET fromList == BuildSegmentsFromCandidateList(r.list, bridge.reading)
            fromPreedit == BuildSegmentsFromPreedit(r.preedit, bridge.reading)
            primary == ExtractPrimarySegmentCandidates(r.list)
            b == [bridge EXCEPT
                     !.segments = IF fromList # <<>> THEN fromList ELSE fromPreedit,
                     !.source = IF fromList # <<>> THEN "candidate_list"
                                ELSE IF fromPreedit # <<>> THEN "preedit" ELSE "none",
                     !.candidates = IF primary # <<>> THEN primary ELSE Distinct(r.window),
                     !.fresh = TRUE, !.intact = r.intact]
        IN  Move(IF b.candidates # <<>> THEN Respond(b) ELSE NextPipe(b))

-----------------------------------------------------------------------------
\* QueryCandidates and QueryCandidatesWithHkl: the layouts.  All that a layout
\* converts is the whole reading.

NextLayout(b) ==
    IF b.layout = Max(Layouts) THEN Respond(b)
    ELSE [b EXCEPT !.at = "load", !.layout = @ + 1, !.attempt = 1]

\* The current layout is not loaded, so it is not unloaded either.
LoadLayout ==
    /\ At("load")
    /\ Move([bridge EXCEPT !.at = "window",
                           !.held = IF bridge.layout = 1 THEN {} ELSE {"loaded"}])

LoadLayoutFails == At("load") /\ Move(NextLayout(bridge))

CreateBridgeWindow ==
    At("window") /\ Move([bridge EXCEPT !.at = "activate", !.held = @ \cup {"window"}])

CreateBridgeWindowFails == At("window") /\ Move([bridge EXCEPT !.at = "unload"])

ActivateLayout ==
    /\ At("activate")
    /\ \E activated \in SUBSET {"activated"} :
        Move([bridge EXCEPT !.at = "context", !.held = @ \cup activated])

CreateContext ==
    At("context") /\ Move([bridge EXCEPT !.at = "ask", !.held = @ \cup {"context"}])

CreateContextFails == At("context") /\ Move([bridge EXCEPT !.at = "restore"])

\* One of the attempts; the last one is for a reading with katakana in it.
AskLayout ==
    /\ At("ask")
    /\ \E texts \in Conversions(bridge.reading) :
        LET last == IF bridge.katakana THEN Max(Attempts) ELSE Max(Attempts) - 1
        IN  Move(IF texts = <<>> /\ bridge.attempt < last
                 THEN [bridge EXCEPT !.attempt = @ + 1]
                 ELSE [bridge EXCEPT !.at = "restore", !.candidates = Distinct(texts)])

\* Mutant of RestoreLayout: the layout is put back only with a context.
RestoreLayoutWithContext ==
    /\ At("restore")
    /\ Move([bridge EXCEPT !.at = "unload",
             !.held = @ \ (IF "context" \in @ THEN {"window", "context", "activated"} ELSE {"window"})])

RestoreLayout ==
    /\ At("restore")
    /\ Move([bridge EXCEPT !.at = "unload", !.held = @ \ {"window", "context", "activated"}])

UnloadLayout ==
    /\ At("unload")
    /\ LET b == [bridge EXCEPT !.held = @ \ {"loaded"}]
       IN  Move(IF b.candidates # <<>> THEN Respond(b) ELSE NextLayout(b))

-----------------------------------------------------------------------------
PipeStep ==
    \/ FindPipes \/ FindNoPipe \/ LaunchConverter \/ LaunchConverterFails \/ PollPipes
    \/ CreateSession \/ CreateSessionFails \/ Convert \/ ConvertFails

LayoutStep ==
    \/ LoadLayout \/ LoadLayoutFails \/ CreateBridgeWindow \/ CreateBridgeWindowFails
    \/ ActivateLayout \/ CreateContext \/ CreateContextFails
    \/ AskLayout \/ RestoreLayout \/ UnloadLayout

BridgeStep == PipeStep \/ LayoutStep

-----------------------------------------------------------------------------
\* Properties.

\* Whatever clauses are damaged, lack a key or are too long: the segments of an
\* answer lie one behind the other and cover the reading
\* (BuildSegmentsFromCandidateList, BuildSegmentsFromPreedit).
SegmentsTile ==
    At("answered") /\ bridge.segments # <<>> => Tiles(bridge.segments, bridge.reading)

\* The candidates for a clause are told from those for the whole reading only
\* by their last characters, when there are other clauses.
TailIsUnambiguous ==
    LET tail == FlattenSeq([i \in 1 .. Len(bridge.segments) - 1 |-> bridge.segments[i + 1].surface])
    IN  Len(bridge.segments) > 1 =>
            \A i \in DOMAIN bridge.plain :
                ReadingOf(bridge.plain[i]) # bridge.reading => ~IsSuffix(tail, bridge.plain[i])

\* A candidate stands for all of the reading (ComposeSentenceCandidatesFromSegments);
\* it stands for it once, unless the segments of an earlier pipe were left
\* behind.  Left out are answers with damaged clauses or a first clause without
\* a key, whose candidates are completed with the text of the wrong clauses, or
\* with nothing when no clause has a key.
SentencesReadTheReading ==
    At("answered") /\ (bridge.fresh => bridge.intact) /\ TailIsUnambiguous =>
        \A i \in DOMAIN bridge.candidates :
            IF bridge.fresh THEN ReadingOf(bridge.candidates[i]) = bridge.reading
            ELSE IsPrefix(bridge.reading, ReadingOf(bridge.candidates[i]))

\* However the call went, the window, the input context, and the keyboard
\* layout that was activated or loaded are not left behind.
NothingHeld == At("answered") => bridge.held = {}

=============================================================================
