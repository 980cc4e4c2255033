---------------------------- MODULE Composition ----------------------------
(***************************************************************************)
(* The composition of the text service and its edit sessions               *)
(* (Ime3/rtas_text_service.h).  Text reaches the document only in edit     *)
(* sessions that the host runs: at once when it grants the request, later  *)
(* when the service has to ask again asynchronously, or never when it      *)
(* accepts the request and refuses the session, whose result nobody reads. *)
(* Meanwhile the service goes on with its draft as if the session had run. *)
(* Sessions that wait are run in the order in which they were asked for,   *)
(* and a session is granted at once only when none waits.                  *)
(*                                                                         *)
(* A letter is the number of its key.  It waits in the romaji buffer until *)
(* kana come of it, and when they do is not modelled: a key may make kana  *)
(* of any number of the letters that wait.  When the buffer is flushed one *)
(* letter alone may be an n, which is kana, and all others are given up.   *)
(* The composition, when there is one, is at the end of the document.      *)
(* Candidates and layers are those of LayerFlow: here Enter finds no       *)
(* candidates.                                                             *)
(***************************************************************************)
EXTENDS Naturals, Sequences, SequencesExt, Functions

CONSTANTS
    MaxRomaji, \* the letters that the romaji buffer holds (m_maxRomajiBuffer, 64 unless configured)
    MaxKeys,   \* bound on the letters typed
    MaxQueue   \* bound on the sessions that wait

ASSUME BoundsAssumption == MaxRomaji \in Nat \ {0} /\ MaxKeys \in Nat /\ MaxQueue \in Nat

VARIABLES
    editor,  \* the service and the document, see EditorType
    typed,   \* the number of letters typed
    due      \* history: the letters typed, not taken back and not given up in a flush

vars == <<editor, typed, due>>

Letters == 1 .. MaxKeys

\* What the user or the host did that the code has no answer to.
Mishaps ==
    {"refused",     \* a session that was accepted and then not run
     "inserted",    \* a direct insertion that ran inside a composition
     "dropped",     \* a draft cleared of which only the newest part was inserted
     "terminated",  \* the composition was ended while its commit waited
     "overtaken",   \* a composition closed before an update of it that a start precedes
     "pasted",      \* text typed and pasted because there was no context
     "kept"}        \* a composition left open, for the same reason, whose draft was cleared

Sessions == [kind : {"start", "update", "end", "insert"}, text : Seq(Letters)]

EditorType ==
    [draft : Seq(Letters), romaji : Seq(Letters),  \* DraftText(), m_romajiBuffer
     open : BOOLEAN,                               \* m_composition
     shown : Seq(Letters),                         \* the text of its range
     queue : Seq(Sessions),                        \* the sessions that wait
     document : Seq(Letters),                      \* the text before the composition
     mishaps : SUBSET Mishaps]                     \* history

Init ==
    /\ editor = [draft |-> <<>>, romaji |-> <<>>, open |-> FALSE, shown |-> <<>>,
                 queue |-> <<>>, document |-> <<>>, mishaps |-> {}]
    /\ typed = 0 /\ due = <<>>

Preedit(e) == e.draft \o e.romaji
HasPreedit(e) == Preedit(e) # <<>>
Emptied(e) == [e EXCEPT !.draft = <<>>, !.romaji = <<>>]
With(e, mishap) == [e EXCEPT !.mishaps = @ \cup {mishap}]

\* ConvertRomaji(TRUE) and the clearing of the buffer after it: what waits is
\* given up, unless it is an n alone.
Flush(e) ==
    {[e EXCEPT !.romaji = <<>>]} \cup
    (IF Len(e.romaji) = 1 THEN {[e EXCEPT !.draft = Preedit(e), !.romaji = <<>>]} ELSE {})

\* What is due once e, where nothing was given up since the last step, is e2.
DueAfter(e, e2) ==
    IF Preedit(e2) = Preedit(e) THEN due ELSE SubSeq(due, 1, Len(due) - Len(e.romaji))

\* An update that waits for the composition that was closed is run in the next
\* one when a start that waits before it opens that.
Overtakes(q) == \E i, j \in DOMAIN q : i < j /\ q[i].kind = "start" /\ q[j].kind = "update"

Closed(e) ==
    LET f == [e EXCEPT !.open = FALSE, !.shown = <<>>]
    IN  IF Overtakes(e.queue) THEN With(f, "overtaken") ELSE f

-----------------------------------------------------------------------------
\* DoEditSession of the four sessions: what the session may make of e.

\* Mutant of RunStart: only the kana are put in, not the romaji after them.
RunStartWithKana(e) ==
    IF e.open THEN {e} ELSE {e, [e EXCEPT !.open = TRUE, !.shown = e.draft]}

\* The preedit is read when the session runs, not when it was asked for.  The
\* context may have no selection or refuse a composition.
RunStart(e) ==
    IF e.open THEN {e} ELSE {e, [e EXCEPT !.open = TRUE, !.shown = Preedit(e)]}

RunUpdate(e, text) == {IF e.open THEN [e EXCEPT !.shown = text] ELSE e}

\* Mutant of RunEnd: without a composition nothing is written.
RunEndOfComposition(e, text) ==
    {IF e.open THEN Closed([e EXCEPT !.document = @ \o text]) ELSE e}

\* Without a composition the text is inserted at the selection.
RunEnd(e, text) ==
    {Closed([e EXCEPT !.document = @ \o text])}

\* The selection is in the composition when there is one.
RunInsert(e, text) ==
    IF e.open
      THEN {With([e EXCEPT !.shown = @ \o text], "inserted"),
            With([e EXCEPT !.document = @ \o text], "inserted")}
      ELSE {[e EXCEPT !.document = @ \o text]}

Run(session, e) ==
    CASE session.kind = "start" -> RunStart(e)
      [] session.kind = "update" -> RunUpdate(e, session.text)
      [] session.kind = "end" -> RunEnd(e, session.text)
      [] session.kind = "insert" -> RunInsert(e, session.text)

\* RequestEditSession, synchronous and then asynchronous.
Request(kind, text, e) ==
    LET session == [kind |-> kind, text |-> text]
    IN  {[e EXCEPT !.queue = Append(@, session)], With(e, "refused")}
          \cup IF e.queue = <<>> THEN Run(session, e) ELSE {}

EnsureComposition(e) == IF e.open THEN {e} ELSE Request("start", <<>>, e)

UpdateCompositionText(e, text) == IF e.open THEN Request("update", text, e) ELSE {e}

\* CommitComposition in a context.
CommitComposition(e, text) == {Emptied(f) : f \in Request("end", text, e)}

\* CommitComposition with no context to be had: the text is typed as key
\* strokes and then pasted as well, and the clipboard gets its old content back
\* before or after the application has read it.  A composition stays as it is.
CommitElsewhere(e, text) ==
    LET f == Emptied(IF e.open THEN With(e, "kept") ELSE e)
    IN  IF text = <<>> THEN {f}
        ELSE {With([f EXCEPT !.document = @ \o text \o pasted], "pasted") : pasted \in {text, <<>>}}

\* A composition that was asked for and is not there yet is not ended.
CancelComposition(e) == IF e.open THEN CommitComposition(e, <<>>) ELSE {Emptied(e)}

Shows(e) ==
    UNION {UpdateCompositionText(f, Preedit(f)) : f \in EnsureComposition(e)}

-----------------------------------------------------------------------------
\* OnKeyDown and the callbacks.

Room == Len(editor.queue) < MaxQueue

\* Mutant of InsertDirectly: the reading is kept for the next composition.
InsertKeepingReading(e, newly) == Request("insert", newly, e)

\* When there is no composition the kana that are new are inserted directly, and
\* the whole draft is cleared.
InsertDirectly(e, newly) ==
    {Emptied(IF Preedit(e) = newly THEN f ELSE With(f, "dropped")) :
        f \in Request("insert", newly, e)}

\* What every key that gives text ends with.
Enters(e, newly) ==
    UNION {IF f.open THEN UpdateCompositionText(f, Preedit(f))
           ELSE IF newly # <<>> THEN InsertDirectly(f, newly) ELSE {f} : f \in EnsureComposition(e)}

CanType == Room /\ typed < MaxKeys

\* A to Z: a full buffer is flushed before the letter is put into it.  Letters
\* may be left behind those that give kana, as the second one of kk or nk.
Type ==
    /\ CanType
    /\ \E f \in IF Len(editor.romaji) < MaxRomaji THEN {editor} ELSE Flush(editor) :
        LET romaji == Append(f.romaji, typed + 1)
        IN  /\ due' = Append(DueAfter(editor, f), typed + 1)
            /\ \E n \in 0 .. Len(romaji) :
                LET newly == SubSeq(romaji, 1, n)
                IN  editor' \in Enters([f EXCEPT !.draft = @ \o newly,
                                                !.romaji = SubSeq(romaji, n + 1, Len(romaji))], newly)
    /\ typed' = typed + 1

\* appendDirectText, for symbols and half-width letters: what was flushed and
\* the text are new.
TypeDirectly ==
    /\ CanType
    /\ \E f \in Flush(editor) :
        LET flushed == SubSeq(f.draft, Len(editor.draft) + 1, Len(f.draft))
        IN  /\ due' = Append(DueAfter(editor, f), typed + 1)
            /\ editor' \in Enters([f EXCEPT !.draft = Append(@, typed + 1)],
                                  Append(flushed, typed + 1))
    /\ typed' = typed + 1

Backspace ==
    LET e == IF editor.romaji # <<>>
               THEN [editor EXCEPT !.romaji = Front(@)]
               ELSE [editor EXCEPT !.draft = Front(@)]
    IN  /\ Room /\ HasPreedit(editor)
        /\ due' = Front(due)
        /\ editor' \in IF HasPreedit(e) THEN Shows(e) ELSE CancelComposition(e)
        /\ UNCHANGED typed

\* What is typed and neither committed nor taken back.
WithoutPreedit == SubSeq(due, 1, Len(due) - Len(Preedit(editor)))

Escape ==
    /\ Room /\ HasPreedit(editor)
    /\ editor' \in CancelComposition(editor)
    /\ due' = WithoutPreedit
    /\ UNCHANGED typed

Enter ==
    /\ Room /\ HasPreedit(editor)
    /\ \E f \in Flush(editor) :
        /\ editor' \in UNION {CommitComposition(e, e.draft) : e \in Shows(f)}
        /\ due' = DueAfter(editor, f)
    /\ UNCHANGED typed

\* ApplyKanaMode(FALSE), by a key or by another process, whose compartment
\* callback has no context.
LeaveKanaMode(hasContext) ==
    /\ Room /\ (HasPreedit(editor) \/ editor.open)
    /\ \E f \in Flush(editor) :
        /\ editor' \in IF f.draft = <<>> /\ ~f.open THEN {f}
                       ELSE IF hasContext THEN CommitComposition(f, f.draft)
                       ELSE CommitElsewhere(f, f.draft)
        /\ due' = DueAfter(editor, f)
    /\ UNCHANGED typed

Waiting(e) == FlattenSeq([i \in DOMAIN e.queue |->
                 IF e.queue[i].kind \in {"end", "insert"} THEN e.queue[i].text ELSE <<>>])

\* OnCompositionTerminated: the host ends the composition, its text stays.
OnCompositionTerminated ==
    /\ editor.open
    /\ LET e == Closed([Emptied(editor) EXCEPT !.document = @ \o editor.shown])
       IN  editor' = IF Waiting(editor) = <<>> THEN e ELSE With(e, "terminated")
    /\ due' = WithoutPreedit \o editor.shown
    /\ UNCHANGED typed

\* The host runs the session that has waited longest.
RunSession ==
    /\ editor.queue # <<>>
    /\ editor' \in Run(Head(editor.queue), [editor EXCEPT !.queue = Tail(@)])
    /\ UNCHANGED <<typed, due>>

Next ==
    \/ Type
    \/ TypeDirectly
    \/ Backspace
    \/ Escape
    \/ Enter
    \/ \E hasContext \in BOOLEAN : LeaveKanaMode(hasContext)
    \/ OnCompositionTerminated
    \/ RunSession

Spec == Init /\ [][Next]_vars

-----------------------------------------------------------------------------
\* However late the host runs the sessions, and whether or not it grants a
\* composition, every letter typed that the user does not take back and no flush
\* gives up is written, waits to be written or is in the draft, once and in the
\* order of the keys (CommitComposition, DoEditSession of the end and the start
\* session).  The flush itself loses the letters of an unfinished syllable, at
\* Enter, at a symbol, when the mode goes off and when the buffer is full: due
\* leaves them out, as it does what the user erases.
EveryLetterOnce ==
    editor.mishaps \subseteq {"overtaken", "kept"} =>
        editor.document \o Waiting(editor) \o Preedit(editor) = due

\* No letter is in the document and the composition twice, even when sessions
\* are lost and drafts are dropped: the draft is "cleared to avoid duplication
\* when composition later succeeds" (OnKeyDown).  Left out is what does write
\* text twice: a commit without a context, a composition that the host ends
\* while its commit waits, and an update that is run in the next composition;
\* and insertions that are run in a composition, which may come out of order.
NothingTwice ==
    editor.mishaps \subseteq {"refused", "dropped", "kept"} =>
        IsInjective(editor.document \o editor.shown)

\* Once the host has run what it was asked for, an open composition shows the
\* kana and the romaji of the draft, although the start session reads them when
\* it runs and the update session when it is asked for.  Left out are sessions
\* that are lost or run in another composition than the one they were asked for,
\* and a composition left open without a context.
ShownIsThePreedit ==
    (/\ editor.open /\ editor.queue = <<>>
     /\ editor.mishaps \subseteq {"dropped", "pasted", "terminated"}) =>
        editor.shown = Preedit(editor)

=============================================================================
