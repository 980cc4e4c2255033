----------------------------- MODULE LayerFlow -----------------------------
(***************************************************************************)
(* The keys of one TextService in kana mode, from the first letter to the  *)
(* text in the document (Ime3/rtas_text_service.h): the draft and its      *)
(* pending letters, the candidates of Layer1 whole or clause by clause,    *)
(* the text held in Layer2, its merge and the locked prefix that carries   *)
(* it on, and the translation as far as the composition shows it.          *)
(*                                                                         *)
(* The provider is Mozc, the default, whose Layer2 is the held text        *)
(* itself.  A handler of the TSF thread is one action.  The handlers call  *)
(* each other, so they are operators from a state of the input method to   *)
(* the state after them; an action applies one of them to ime.  Edit       *)
(* sessions are synchronous and succeed.                                   *)
(*                                                                         *)
(* A text is a sequence of characters.  A character knows its form and     *)
(* which keystrokes, by number, it was made of: a conversion changes the   *)
(* forms and the number of characters, and keeps the keystrokes.           *)
(***************************************************************************)
EXTENDS Naturals, Sequences, FiniteSets, SequencesExt

CONSTANTS
    Letters,     \* the letters typed: "a" a vowel, "n", "k" any other consonant
    MaxKeys      \* bound on the text keys pressed

ASSUME LettersAssumption == Letters \subseteq {"a", "n", "k"}
ASSUME MaxKeysAssumption == MaxKeys \in Nat

VARIABLES
    givesClauses,  \* the provider may answer with a reading of two clauses
    translates,    \* its capability supports_translation
    ime,       \* the fields of the text service, and what the host shows
    document,  \* the text inserted into the document so far
    typed,     \* history: the keystrokes that the user has not taken back
    pressed    \* history: how many text keys were pressed

vars == <<givesClauses, translates, ime, document, typed, pressed>>

Tabs == {"Layer1", "Layer2", "Translation"}
Forms == {"a", "n", "k", "kana", "kanji", "english"}
Chars == [form : Forms, keys : Seq(1 .. MaxKeys)]
Texts == Seq(Chars)
ClauseTypes == [start : Nat, list : Seq(Texts), index : 1 .. 2]

-----------------------------------------------------------------------------
\* Texts and what is made of them.

Keystrokes(text) == FlattenSeq([i \in DOMAIN text |-> text[i].keys])
Made(form, text) == <<[form |-> form, keys |-> Keystrokes(text)]>>
Typed(letter, key) == [form |-> letter, keys |-> <<key>>]
HasKanji(text) == \E i \in DOMAIN text : text[i].form = "kanji"

\* How many letters at its head ConvertRomaji takes out of the buffer.  An
\* unfinished or impossible syllable stays, even if the input is final.
Consumed(letters, final) ==
    CASE letters = <<>> -> 0
      [] Len(letters) = 1 ->
           IF letters[1].form = "a" \/ (letters[1].form = "n" /\ final) THEN 1 ELSE 0
      [] Len(letters) > 1 ->
           LET first == letters[1].form  second == letters[2].form IN
           IF second = "a" \/ (first = "n" /\ second = "n") THEN 2
           ELSE IF first = second \/ first = "n" THEN 1 ELSE 0

\* The kana of those letters.
ConvertRomaji(letters, final) ==
    LET n == Consumed(letters, final) IN
    IF n = 0 THEN <<>> ELSE Made("kana", SubSeq(letters, 1, n))

\* The provider's candidates: the conversion, and the text as it is.
Layer1Candidates(text) ==
    IF text = <<>> THEN <<>>
    ELSE IF Made("kanji", text) = text THEN <<text>>
    ELSE <<Made("kanji", text), text>>

\* Mutant of LockedCandidates: converts the prefix once more.
LockedCandidatesTwice(prefix, tail) ==
    IF tail = <<>> THEN <<prefix>>
    ELSE <<prefix \o Made("kanji", prefix \o tail), prefix \o tail>>

\* With a locked prefix only the tail is converted, and comes first as it is.
LockedCandidates(prefix, tail) ==
    IF tail = <<>> THEN <<prefix>>
    ELSE IF Made("kanji", tail) = tail THEN <<prefix \o tail>>
    ELSE <<prefix \o tail, prefix \o Made("kanji", tail)>>

-----------------------------------------------------------------------------
\* The state of the text service.

Idle == [
    draft |-> <<>>, romaji |-> <<>>,              \* m_reading, m_romajiBuffer
    carryOpen |-> FALSE, lockedPrefix |-> <<>>,   \* m_layer2MergedCarryOpen, ...LockedPrefix
    ui |-> FALSE, tab |-> "Layer1",               \* m_candidateUI exists, m_layerState
    merged |-> FALSE, pendingCarry |-> FALSE,
    spaceTriggered |-> FALSE,                     \* m_layer1SpaceTriggered
    list |-> <<>>, selection |-> 1,               \* m_layer1DisplayCache, m_layer1Selection
    clauses |-> <<>>, active |-> 1,               \* m_layer1SegmentRuntime: empty, no segment mode
    held |-> <<>>,                                \* m_layer2SourceText
    source |-> <<>>, answered |-> FALSE,          \* m_candidateSourceText, its translation is known
    kanaKanjiOnly |-> FALSE,
    composing |-> FALSE, shown |-> <<>>]          \* m_composition exists, and its text

\* The types; an open window has candidates, and its selection is one of them.
TypeOK ==
    /\ givesClauses \in BOOLEAN /\ translates \in BOOLEAN
    /\ DOMAIN ime = DOMAIN Idle
    /\ {ime.draft, ime.romaji, ime.lockedPrefix, ime.held, ime.source, ime.shown} \subseteq Texts
    /\ {ime.carryOpen, ime.ui, ime.merged, ime.pendingCarry, ime.spaceTriggered,
        ime.answered, ime.kanaKanjiOnly, ime.composing} \subseteq BOOLEAN
    /\ ime.tab \in Tabs
    /\ ime.list \in Seq(Texts) /\ ime.selection \in 1 .. 2
    /\ ime.ui => ime.selection \in DOMAIN ime.list
    /\ ime.clauses \in Seq(ClauseTypes) /\ ime.active \in 1 .. 2
    /\ document \in Texts /\ typed \in Seq(1 .. MaxKeys) /\ pressed \in 0 .. MaxKeys

Init ==
    /\ givesClauses \in BOOLEAN /\ translates \in BOOLEAN
    /\ ime = Idle /\ document = <<>> /\ typed = <<>> /\ pressed = 0

PreeditText(s) == s.draft \o s.romaji
HasActiveInput(s) == s.ui \/ PreeditText(s) # <<>>
HasCarry(s) == s.carryOpen /\ s.lockedPrefix # <<>>
IsMerged(s) == s.merged /\ s.tab = "Layer1"
HasPendingCarry(s) == s.pendingCarry /\ s.tab = "Layer2"
IsOrange(s) == s.tab = "Layer2" \/ IsMerged(s) \/ HasCarry(s)
SupportsLayer2(s) == ~s.kanaKanjiOnly
SupportsTranslation(s) == translates /\ ~s.kanaKanjiOnly

\* In segment mode the selection of Layer1 is composed of the clauses.
ComposedSelection(s) ==
    IF s.clauses = <<>> THEN s.list[s.selection]
    ELSE SubSeq(s.draft, 1, s.clauses[1].start)
           \o FlattenSeq([i \in DOMAIN s.clauses |-> s.clauses[i].list[s.clauses[i].index]])

-----------------------------------------------------------------------------
\* The parts that the handlers are made of.

ClearCarry(s) == [s EXCEPT !.carryOpen = FALSE, !.lockedPrefix = <<>>]

\* Mutant of CloseCandidateUI: keeps the mark that Space set.
CloseCandidateUIMarked(s, preserveCarry) ==
    LET keep == preserveCarry /\ HasCarry(s) IN
    [Idle EXCEPT !.draft = s.draft, !.romaji = s.romaji, !.kanaKanjiOnly = s.kanaKanjiOnly,
                 !.composing = s.composing, !.shown = s.shown, !.carryOpen = keep,
                 !.lockedPrefix = IF keep THEN s.lockedPrefix ELSE <<>>,
                 !.spaceTriggered = s.spaceTriggered]

CloseCandidateUI(s, preserveCarry) ==
    LET keep == preserveCarry /\ HasCarry(s) IN
    [Idle EXCEPT !.draft = s.draft, !.romaji = s.romaji, !.kanaKanjiOnly = s.kanaKanjiOnly,
                 !.composing = s.composing, !.shown = s.shown, !.carryOpen = keep,
                 !.lockedPrefix = IF keep THEN s.lockedPrefix ELSE <<>>]

\* The draft and the letters are cleared, the candidates closed (CancelComposition).
EndComposition(s) ==
    [CloseCandidateUI(s, FALSE) EXCEPT !.draft = <<>>, !.romaji = <<>>,
                                       !.composing = FALSE, !.shown = <<>>]

\* EnsureComposition and UpdateCompositionText.
ShowPreedit(s) == [s EXCEPT !.composing = TRUE, !.shown = PreeditText(s)]

\* Mutant of FlushRomaji: does not finish a pending n.
FlushRomajiUnfinished(s) ==
    [s EXCEPT !.draft = @ \o ConvertRomaji(s.romaji, FALSE), !.romaji = <<>>]

\* What is left of the letters after the last conversion is dropped.
FlushRomaji(s) == [s EXCEPT !.draft = @ \o ConvertRomaji(s.romaji, TRUE), !.romaji = <<>>]

\* The composition follows only if the window notifies its owner.
ShowLayer1Candidates(s, notifyOwner) ==
    [s EXCEPT !.tab = "Layer1",
              !.shown = IF notifyOwner THEN ComposedSelection([s EXCEPT !.tab = "Layer1"]) ELSE @]

\* MoveSelection, and OnCandidateSelectionChanged in Layer1.  A window with one
\* candidate notifies nobody.
MoveSelection(s) ==
    LET next == (s.selection % Len(s.list)) + 1
        moved == [s EXCEPT !.selection = next,
                           !.clauses = IF @ = <<>> THEN @ ELSE [@ EXCEPT ![s.active].index = next]]
    IN IF Len(s.list) = 1 THEN s ELSE [moved EXCEPT !.shown = ComposedSelection(moved)]

\* The provider answers at once, with the source itself.
SwitchToLayer2FromLayer1(s, source) ==
    [ClearCarry(s) EXCEPT !.held = source, !.tab = "Layer2", !.merged = FALSE,
                          !.pendingCarry = TRUE, !.clauses = <<>>, !.shown = source]

\* Mutant of MergeLayer2Selection: leaves the draft as it was.
MergeLayer2SelectionDraftKept(s) ==
    [s EXCEPT !.lockedPrefix = s.held, !.list = <<s.held>>, !.selection = 1, !.merged = TRUE,
              !.pendingCarry = FALSE, !.source = s.held, !.tab = "Layer1", !.shown = s.held]

MergeLayer2Selection(s) ==
    [s EXCEPT !.draft = s.held, !.lockedPrefix = s.held, !.list = <<s.held>>, !.selection = 1,
              !.merged = TRUE, !.pendingCarry = FALSE, !.source = s.held,
              !.tab = "Layer1", !.shown = s.held]

\* The text held in Layer2 becomes the locked prefix of what is typed next.
FinalizeLayer2BeforeNewInput(s) ==
    LET mergedNow == IF HasPendingCarry(s)
                     THEN [MergeLayer2Selection(s) EXCEPT !.carryOpen = TRUE]
                     ELSE s
        open == mergedNow.carryOpen \/ mergedNow.lockedPrefix # <<>>
    IN IF s.ui /\ open THEN [mergedNow EXCEPT !.carryOpen = TRUE, !.merged = FALSE] ELSE s

\* promoteLayer1ToOrangeBeforeTyping: after Space the selection is locked as Enter would.
PromoteLayer1(s) ==
    LET selectionCounts == s.ui /\ s.tab = "Layer1" /\ ~IsMerged(s)
        unmarked == [s EXCEPT !.spaceTriggered = FALSE]
        inLayer2 == IF selectionCounts /\ SupportsLayer2(s)
                    THEN SwitchToLayer2FromLayer1(unmarked, ComposedSelection(s))
                    ELSE unmarked
        final == FinalizeLayer2BeforeNewInput(inLayer2)
        locked == IF selectionCounts THEN ComposedSelection(s) ELSE final.draft
    IN IF ~s.spaceTriggered THEN FinalizeLayer2BeforeNewInput(s)
       ELSE IF HasCarry(final) \/ locked = <<>> THEN final
       ELSE [final EXCEPT !.draft = locked, !.lockedPrefix = locked, !.carryOpen = TRUE,
                          !.merged = FALSE, !.pendingCarry = FALSE, !.source = locked]

\* What every text key does first.
LeaveCandidates(s) ==
    LET promoted == IF s.spaceTriggered THEN PromoteLayer1(s) ELSE s IN
    IF promoted.ui THEN CloseCandidateUI(PromoteLayer1(promoted), TRUE) ELSE promoted

\* The clauses after the locked prefix; with one clause there is no segment mode.
InitializeSegmentMode(s, cut) ==
    LET floor == IF HasCarry(s) THEN Len(s.lockedPrefix) ELSE 0
        Clause(from, to) == [start |-> from, index |-> 1,
                             list |-> Layer1Candidates(SubSeq(s.draft, from + 1, to))]
        clauses == <<Clause(floor, floor + cut), Clause(floor + cut, Len(s.draft))>>
        segmented == [s EXCEPT !.clauses = clauses, !.active = 1,
                               !.list = clauses[1].list, !.selection = 1]
    IN IF cut = 0 \/ floor + cut >= Len(s.draft) THEN s
       ELSE [segmented EXCEPT !.shown = ComposedSelection(segmented)]

\* Nothing opens for an empty draft.
OpenCandidateUI(s, cut) ==
    LET prefix == IF HasCarry(s) /\ IsPrefix(s.lockedPrefix, s.draft) THEN s.lockedPrefix ELSE <<>>
        list == IF prefix = <<>> THEN Layer1Candidates(s.draft)
                ELSE LockedCandidates(prefix, SubSeq(s.draft, Len(prefix) + 1, Len(s.draft)))
        closed == CloseCandidateUI(s, FALSE)
    IN IF list = <<>> THEN closed
       ELSE InitializeSegmentMode(
              [closed EXCEPT !.ui = TRUE, !.carryOpen = prefix # <<>>, !.lockedPrefix = prefix,
                             !.list = list, !.source = s.draft, !.shown = list[1]], cut)

\* Space on a draft that already holds kanji, and no carry: the draft as it is comes first.
PreferRawReading(s) ==
    LET list == Layer1Candidates(s.draft) IN
    IF HasKanji(s.draft) /\ ~HasCarry(s)
    THEN [s EXCEPT !.clauses = <<>>, !.list = list, !.selection = Len(list), !.shown = s.draft]
    ELSE s

Translation(s) == Made("english", s.source)

\* known: the cache answers.  Otherwise a placeholder, and the composition stays.
SwitchToTranslationTab(s, known) ==
    LET asked == [ClearCarry(s) EXCEPT !.source = IF s.tab = "Layer2" THEN s.held ELSE @,
                                       !.tab = "Translation", !.pendingCarry = FALSE,
                                       !.answered = known]
    IN IF known THEN [asked EXCEPT !.shown = Translation(asked)] ELSE asked

-----------------------------------------------------------------------------
\* The keys.

Cuts == IF givesClauses THEN 0 .. 2 ELSE {0}

\* CommitComposition: the text replaces the composition, and everything ends.
Commit(text) ==
    /\ document' = document \o text
    /\ ime' = EndComposition(ime)
    /\ UNCHANGED <<givesClauses, translates>>

Step(s) == ime' = s /\ UNCHANGED <<document, givesClauses, translates>>

Press == pressed < MaxKeys /\ pressed' = pressed + 1 /\ typed' = Append(typed, pressed + 1)

\* A letter key.
TypeLetter(letter) ==
    LET before == LeaveCandidates(ime)
        letters == Append(before.romaji, Typed(letter, pressed + 1))
    IN /\ Press
       /\ Step(ShowPreedit([before EXCEPT
                 !.draft = @ \o ConvertRomaji(letters, FALSE),
                 !.romaji = SubSeq(letters, Consumed(letters, FALSE) + 1, Len(letters))]))

\* appendDirectText: a digit or a symbol, which needs no conversion.
TypeSymbol ==
    LET before == FlushRomaji(LeaveCandidates(ime)) IN
    /\ Press
    /\ Step(ShowPreedit([before EXCEPT !.draft = Append(@, Typed("kana", pressed + 1))]))

\* Space on the draft opens the candidates.
SpaceDraft(cut) ==
    LET flushed == FlushRomaji(ime)
        opened == OpenCandidateUI(ShowPreedit(flushed), cut)
    IN /\ HasActiveInput(ime) /\ ~ime.ui
       /\ Step(IF opened.ui THEN PreferRawReading([opened EXCEPT !.spaceTriggered = TRUE]) ELSE opened)
       /\ UNCHANGED <<typed, pressed>>

\* Space on the candidates: the next one, or the translation.
SpaceCandidates(known) ==
    LET marked == [ime EXCEPT !.spaceTriggered = @ \/ ime.tab = "Layer1"]
        translatable == SupportsTranslation(ime) /\ (IsMerged(ime) \/ ime.tab = "Layer2")
    IN /\ ime.ui /\ ime.tab # "Translation"
       /\ Step(IF translatable THEN SwitchToTranslationTab(marked, known)
               ELSE IF ime.tab = "Layer1" THEN MoveSelection(marked)
               ELSE marked)
       /\ UNCHANGED <<typed, pressed>>

\* Shift+Space in the Translation tab: the answer is dropped and asked for again.
AskAgain ==
    /\ ime.ui /\ ime.tab = "Translation"
    /\ Step([ime EXCEPT !.answered = FALSE])
    /\ UNCHANGED <<typed, pressed>>

\* Enter on the draft: the draft as it stands is held in Layer2.
EnterDraft(cut) ==
    LET flushed == FlushRomaji(ime)
        opened == OpenCandidateUI(ShowPreedit(flushed), cut)
    IN /\ HasActiveInput(ime) /\ ~ime.ui
       /\ IF ~opened.ui THEN Commit(flushed.draft)
          ELSE IF SupportsLayer2(ime) THEN Step(SwitchToLayer2FromLayer1(opened, flushed.draft))
          ELSE Commit(ComposedSelection(opened))
       /\ UNCHANGED <<typed, pressed>>

\* Mutant of EnterCandidates: Layer2 commits the draft.
EnterCandidatesDraft(shift) ==
    /\ ime.ui
    /\ CASE ime.tab = "Layer1" /\ (IsMerged(ime) \/ ~SupportsLayer2(ime)) ->
              Commit(ComposedSelection(ime))
         [] ime.tab = "Layer1" /\ ~IsMerged(ime) /\ SupportsLayer2(ime) ->
              Step(SwitchToLayer2FromLayer1(ime, ComposedSelection(ime)))
         [] ime.tab = "Layer2" /\ shift -> Step(MergeLayer2Selection(ime))
         [] ime.tab = "Layer2" /\ ~shift -> Commit(ime.draft)
         [] ime.tab = "Translation" -> ime.answered /\ Commit(Translation(ime))
    /\ UNCHANGED <<typed, pressed>>

\* LayerState::OnEnter and HandleTabEnter; without an answer Enter does nothing.
EnterCandidates(shift) ==
    /\ ime.ui
    /\ CASE ime.tab = "Layer1" /\ (IsMerged(ime) \/ ~SupportsLayer2(ime)) ->
              Commit(ComposedSelection(ime))
         [] ime.tab = "Layer1" /\ ~IsMerged(ime) /\ SupportsLayer2(ime) ->
              Step(SwitchToLayer2FromLayer1(ime, ComposedSelection(ime)))
         [] ime.tab = "Layer2" /\ shift -> Step(MergeLayer2Selection(ime))
         [] ime.tab = "Layer2" /\ ~shift -> Commit(ime.held)
         [] ime.tab = "Translation" -> ime.answered /\ Commit(Translation(ime))
    /\ UNCHANGED <<typed, pressed>>

\* The keystrokes of the characters that Backspace takes away.
Erase(erased) ==
    LET Kept(key) == IF key \in Range(Keystrokes(erased)) THEN <<>> ELSE <<key>>
    IN  typed' = FlattenSeq([i \in DOMAIN typed |-> Kept(typed[i])])

\* The last letter, or else the last character of the draft; the locked prefix
\* (StepBackLockedPrefixBoundary) never reaches behind it.
PopCharacter(s) ==
    LET draft == Front(s.draft)
        prefix == IF IsPrefix(s.lockedPrefix, draft) THEN s.lockedPrefix ELSE Front(s.lockedPrefix)
        popped == [s EXCEPT !.draft = draft, !.lockedPrefix = prefix]
    IN IF s.romaji # <<>> THEN [s EXCEPT !.romaji = Front(@)]
       ELSE IF ~HasCarry(s) THEN [s EXCEPT !.draft = draft]
       ELSE IF prefix # <<>> /\ IsPrefix(prefix, draft) THEN popped
       ELSE ClearCarry(popped)

\* An empty preedit ends the composition.
ShowOrCancel(s) ==
    IF PreeditText(s) = <<>> THEN EndComposition(s) ELSE ShowPreedit(s)

\* Backspace in a window that is not orange only closes it.
Backspace ==
    LET final == FinalizeLayer2BeforeNewInput(ime)
        merged == IF final.tab = "Layer2" THEN MergeLayer2Selection(final) ELSE final
        carried == IF IsMerged(merged) /\ merged.lockedPrefix # <<>>
                   THEN [merged EXCEPT !.carryOpen = TRUE, !.merged = FALSE] ELSE merged
        closed == IF ime.ui THEN CloseCandidateUI(carried, TRUE) ELSE ime
        erased == IF closed.romaji # <<>> THEN <<Last(closed.romaji)>> ELSE <<Last(closed.draft)>>
    IN /\ HasActiveInput(ime)
       /\ IF ime.ui /\ ~IsOrange(ime)
          THEN Step(ShowOrCancel(CloseCandidateUI(ime, TRUE))) /\ UNCHANGED typed
          ELSE Step(ShowOrCancel(PopCharacter(closed))) /\ Erase(erased)
       /\ UNCHANGED pressed

\* Escape: back to Layer1, or the end of the composition.
Escape ==
    LET left == ClearCarry([ime EXCEPT !.merged = FALSE, !.held = <<>>, !.pendingCarry = FALSE,
                                       !.tab = "Layer1"])
    IN /\ HasActiveInput(ime)
       /\ CASE ime.ui /\ ime.tab = "Translation" ->
                 Step(ShowLayer1Candidates(ime, FALSE)) /\ UNCHANGED typed
            [] ime.ui /\ ime.tab = "Layer2" ->
                 Step(ShowLayer1Candidates(left, TRUE)) /\ UNCHANGED typed
            [] ~ime.ui \/ ime.tab = "Layer1" ->
                 Step(EndComposition(ime)) /\ typed' = Keystrokes(document)
       /\ UNCHANGED pressed

\* Ctrl+Tab and Ctrl+Shift+Tab.  Layer2 is entered from Layer1 only, the
\* translation from a merged Layer1 only.
CycleCandidateTab(reverse, known) ==
    /\ ime.ui
    /\ Step(IF ime.tab # "Layer1" \/ ~SupportsLayer2(ime) THEN ShowLayer1Candidates(ime, TRUE)
            ELSE IF reverse /\ SupportsTranslation(ime) /\ IsMerged(ime)
            THEN SwitchToTranslationTab(ime, known)
            ELSE SwitchToLayer2FromLayer1(ime, ComposedSelection(ime)))
    /\ UNCHANGED <<typed, pressed>>

\* Up, Down and Tab.
MoveKey ==
    /\ ime.ui /\ ime.tab = "Layer1"
    /\ Step(MoveSelection(ime))
    /\ UNCHANGED <<typed, pressed>>

\* Left and Right in segment mode.
SetActiveSegment ==
    LET other == (ime.active % Len(ime.clauses)) + 1
        moved == [ime EXCEPT !.active = other, !.list = ime.clauses[other].list,
                             !.selection = ime.clauses[other].index]
    IN /\ ime.ui /\ ime.tab = "Layer1" /\ ime.clauses # <<>>
       /\ Step([moved EXCEPT !.shown = ComposedSelection(moved)])
       /\ UNCHANGED <<typed, pressed>>

\* SetKanaKanjiOnlyMode.
ToggleKanaKanjiOnlyMode ==
    LET toggled == [ime EXCEPT !.kanaKanjiOnly = ~@, !.pendingCarry = FALSE] IN
    /\ Step(IF ime.ui /\ ime.tab # "Layer1" THEN ShowLayer1Candidates(toggled, TRUE) ELSE toggled)
    /\ UNCHANGED <<typed, pressed>>

\* SetKanaMode: leaving the kana mode commits the draft.
LeaveKanaMode ==
    /\ HasActiveInput(ime) \/ ime.composing
    /\ Commit(FlushRomaji(ime).draft)
    /\ UNCHANGED <<typed, pressed>>

\* The translation arrives, and the Translation tab shows it.
TranslationArrives ==
    /\ ime.ui /\ ime.tab = "Translation" /\ ~ime.answered
    /\ Step([ime EXCEPT !.answered = TRUE, !.shown = Translation(ime)])
    /\ UNCHANGED <<typed, pressed>>

\* CandidateUI::Abort: the host closes the window.
OnCandidateAbort ==
    LET closed == CloseCandidateUI(ime, FALSE) IN
    /\ ime.ui
    /\ Step([closed EXCEPT !.shown = PreeditText(closed)])
    /\ UNCHANGED <<typed, pressed>>

\* The host ends the composition and keeps its text.
OnCompositionTerminated ==
    /\ ime.composing
    /\ Commit(ime.shown)
    /\ UNCHANGED <<typed, pressed>>

TextKey == (\E letter \in Letters : TypeLetter(letter)) \/ TypeSymbol
CandidateKey ==
    \/ \E cut \in Cuts : SpaceDraft(cut) \/ EnterDraft(cut)
    \/ \E known \in BOOLEAN : SpaceCandidates(known)
    \/ \E reverse, known \in BOOLEAN : CycleCandidateTab(reverse, known)
    \/ \E shift \in BOOLEAN : EnterCandidates(shift)
    \/ AskAgain \/ MoveKey \/ SetActiveSegment
HostStep == TranslationArrives \/ OnCandidateAbort \/ OnCompositionTerminated

Next ==
    \/ TextKey \/ CandidateKey \/ HostStep
    \/ Backspace \/ Escape \/ ToggleKanaKanjiOnlyMode \/ LeaveKanaMode

Spec == Init /\ [][Next]_vars

-----------------------------------------------------------------------------
\* What must hold.

Increasing(keys) == \A i \in 1 .. Len(keys) - 1 : keys[i] < keys[i + 1]

\* However the user types, converts, merges, goes back and commits, nothing is
\* written twice and nothing changes places: the keystrokes in the document,
\* the draft and the pending letters are in the order in which they were typed.
\* This is what a conversion of an already converted prefix would break.
WrittenOnceInOrder ==
    /\ Increasing(Keystrokes(document \o PreeditText(ime)))
    /\ Increasing(Keystrokes(document \o ime.shown))

\* Every keystroke that the user did not take back is in the document or in the
\* preedit, across all layers, merges, locked prefixes and commits.  With clauses
\* the way back from Layer2 loses all but one (PreviewIsWhole in MCLayerFlow).
NothingTypedIsLost ==
    ~givesClauses => Keystrokes(document \o PreeditText(ime)) = typed

\* With nothing entered nothing is left of the last sentence that could reach
\* the next one: no window, no mark of Space, no carry, no merge.
NothingLeftOver ==
    HasActiveInput(ime) \/
    ime = [Idle EXCEPT !.kanaKanjiOnly = ime.kanaKanjiOnly, !.composing = ime.composing]

\* Enter on the candidates commits exactly the text that the composition shows,
\* whichever handlers brought the window into this state.  Left out are clauses,
\* and Layer1 when there are translations: Escape from the Translation tab leaves
\* the translation, or the text before it, on the screen, and Enter commits the
\* selected candidate.
EnterCommitsWhatIsShown ==
    [][LET byCandidate == \E shift \in BOOLEAN : EnterCandidates(shift)
           faithful == ~givesClauses /\ (translates => ime.tab # "Layer1")
       IN  byCandidate /\ document' # document /\ faithful
             => document' = document \o ime.shown]_vars

\* What is held in Layer2, or was chosen in Layer1 after Space, is neither
\* converted again nor lost when the user types on: it begins the new draft.
TypingKeepsWhatIsHeld ==
    [][LET chosen == IF ime.tab = "Layer2" THEN ime.held ELSE ComposedSelection(ime) IN
       /\ pressed' # pressed /\ ime.ui /\ ~ime.kanaKanjiOnly
       /\ (ime.tab = "Layer2" \/ (ime.tab = "Layer1" /\ ime.spaceTriggered))
       => IsPrefix(chosen, ime'.draft)]_vars

=============================================================================
