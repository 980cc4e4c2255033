-------------------------- MODULE ConversionStack ---------------------------
(***************************************************************************)
(* The conversion side of the text service as one system: the provider     *)
(* that a configuration makes (ProviderSetup), and a request for           *)
(* candidates or a translation that goes through it, on the thread of the  *)
(* user interface, to the dictionary (DictionaryWords), to IMM32, to the   *)
(* bridge (MozcBridge) or to the native converter (MozcNative).            *)
(*                                                                         *)
(* The text service loads a provider in Activate and drops it in           *)
(* Deactivate; the requests in between do not influence one another, so    *)
(* there is one.  The job queue behind a translation is TranslationFlow's  *)
(* subject: here it takes the job or refuses it.                           *)
(***************************************************************************)
EXTENDS MozcBridge, MozcNative, ProviderSetup, DictionaryWords

CONSTANTS
    Files,         \* the configurations that are tried
    ReadingsAsked, \* the readings of requests
    Dictionaries   \* sets of words: the contents of a dictionary

ASSUME FilesAssumption == \A c \in Files : c.file = "read" => c \in Configurations
ASSUME ReadingsAssumption == ReadingsAsked \subseteq Seq(Letters) \ {<<>>}
\* A word reads its key.
ASSUME DictionariesAssumption ==
    \A words \in Dictionaries :
        /\ IsFiniteSet(words)
        /\ \A w \in words : /\ w \in [key : Seq(Letters), surface : Texts, cost : Int]
                            /\ ReadingOf(w.surface) = w.key

VARIABLE stack  \* the service's side: a record

stackVars == <<stack, bridge, native>>

NoFile == [file |-> "none"]
NoProvider == Provider("none", "none", "none", FALSE)
EmptyList == [candidates |-> <<>>, segments |-> <<>>, error |-> FALSE, pending |-> FALSE, by |-> "none"]

NoStack ==
    [at |-> "none", config |-> NoFile, error |-> FALSE, provider |-> NoProvider,
     reading |-> <<>>, words |-> {},  \* history: the dictionary that answered
     path |-> [text |-> <<>>, cost |-> 0],
     list |-> EmptyList]

StackInit == stack = NoStack /\ BridgeInit /\ NativeInit

OfLlm == [EmptyList EXCEPT !.by = "llm"]
Entries(candidates) == [EmptyList EXCEPT !.candidates = candidates]
Failed(list) == [list EXCEPT !.error = TRUE]

-----------------------------------------------------------------------------
\* InitializeProviderBackend: both the settings and the provider may report.
Load ==
    /\ stack.at = "none"
    /\ \E c \in Files, files \in BOOLEAN :
        LET s == LoadProviderSettings(c)
            p == CreateConversionProvider(s, files)
        IN  stack' = [stack EXCEPT !.at = "loaded", !.config = c, !.provider = p,
                                   !.error = s.error \/ p.error]
    /\ UNCHANGED <<bridge, native>>

\* Its last part: from here on only the provider matters, not the file.
SetResultCallback ==
    /\ stack.at = "loaded"
    /\ stack' = [stack EXCEPT !.at = "ready", !.config = NoFile, !.error = FALSE]
    /\ UNCHANGED <<bridge, native>>

\* Deactivate.
Drop ==
    /\ stack.at \in {"ready", "answered"}
    /\ stack' = NoStack /\ bridge' = IdleBridge /\ native' = IdleNative

Asked(reading) == [stack EXCEPT !.at = "asking", !.reading = reading]

Answer(reading, list) == [Asked(reading) EXCEPT !.at = "answered", !.list = list]

-----------------------------------------------------------------------------
\* FetchLayer1.

\* The reading itself, its cheapest division, and the words for all of it, of
\* which there are at most six.
DictionaryEntries(words, reading) ==
    LET surface == SegmentReading(words, reading).text
        whole == SetToSeq({w.surface : w \in Matches(words, reading)} \ {InKana(reading), surface})
    IN  <<InKana(reading), surface>> \o SubSeq(whole, 1, Min({6, Len(whole)}))

DictionaryFetchLayer1 ==
    /\ stack.at = "ready" /\ stack.provider.kind = "dictionary"
    /\ \E reading \in ReadingsAsked, words \in Dictionaries :
        stack' = [Answer(reading, Entries(DictionaryEntries(words, reading)))
                     EXCEPT !.words = words, !.path = SegmentReading(words, reading)]
    /\ UNCHANGED <<bridge, native>>

\* Without a layout or a context there is nothing; otherwise the reading is
\* among the candidates, whatever the converter says.
ImmEntries(reading) ==
    {<<>>} \cup {Distinct(texts \o <<InKana(reading)>>) : texts \in Conversions(reading)}

ImmFetchLayer1 ==
    /\ stack.at = "ready" /\ stack.provider.kind = "imm32"
    /\ \E reading \in ReadingsAsked : \E texts \in ImmEntries(reading) :
        stack' = Answer(reading, Entries(texts))
    /\ UNCHANGED <<bridge, native>>

\* The answers of the placeholder for a provider that could not be made.
UnavailableFetch ==
    /\ stack.at = "ready" /\ stack.provider.kind = "unavailable"
    /\ \E reading \in ReadingsAsked : stack' = Answer(reading, Failed(EmptyList))
    /\ UNCHANGED <<bridge, native>>

\* Mutant of MozcList: the error of the transport is not passed on.
MozcListSilent(candidates, segments, error) ==
    [Entries(candidates) EXCEPT !.segments = segments]

\* What the provider makes of the answer of a transport: of its error only when
\* there is no candidate, although docs/operations/mozc_native_phase0_phase1.md:40
\* promises that a conversion that failed or ran out of time is a visible error.
MozcList(candidates, segments, error) ==
    [Entries(candidates) EXCEPT !.segments = segments, !.error = error /\ candidates = <<>>]

MozcImm32Fetch ==
    /\ stack.at = "ready" /\ stack.provider.transport = "imm32"
    /\ \E reading \in ReadingsAsked : \E texts \in Conversions(reading) :
        stack' = Answer(reading, MozcList(texts, <<>>, texts = <<>>))
    /\ UNCHANGED <<bridge, native>>

AskBridge ==
    /\ stack.at = "ready" /\ stack.provider.transport = "bridge"
    /\ \E reading \in ReadingsAsked, katakana \in BOOLEAN :
        BridgeCall(reading, katakana) /\ stack' = Asked(reading)
    /\ UNCHANGED native

BridgeWorks == stack.at = "asking" /\ BridgeStep /\ UNCHANGED <<stack, native>>

BridgeAnswers ==
    /\ stack.at = "asking" /\ At("answered")
    /\ stack' = Answer(stack.reading, MozcList(bridge.candidates, bridge.segments, bridge.error))
    /\ UNCHANGED <<bridge, native>>

AskNative ==
    /\ stack.at = "ready" /\ stack.provider.transport = "native"
    /\ \E reading \in ReadingsAsked : NativeCall(reading) /\ stack' = Asked(reading)
    /\ UNCHANGED bridge

NativeWorks == stack.at = "asking" /\ NativeStep /\ UNCHANGED <<stack, bridge>>
NativeFails == NativeFault /\ UNCHANGED <<stack, bridge>>
WrapperWorks == WrapperStep /\ UNCHANGED <<stack, bridge>>

NativeAnswers ==
    /\ stack.at = "asking" /\ Reached("answered")
    /\ stack' = Answer(stack.reading, MozcList(native.candidates, native.segments, native.error))
    /\ UNCHANGED <<bridge, native>>

-----------------------------------------------------------------------------
\* FetchTranslation.

\* A text that is not Japanese.
English == <<[kanji |-> TRUE, reads |-> <<>>]>>

\* The queue takes the job, or it is shut down and the job is done at once.
LlmAnswers == {[OfLlm EXCEPT !.pending = TRUE], [OfLlm EXCEPT !.candidates = <<English>>], Failed(OfLlm)}

MozcFetchTranslation ==
    /\ stack.at = "ready" /\ stack.provider.kind = "mozc"
    /\ \E reading \in ReadingsAsked, list \in LlmAnswers : stack' = Answer(reading, list)
    /\ UNCHANGED <<bridge, native>>

ImmFetchTranslation ==
    /\ stack.at = "ready" /\ stack.provider.kind = "imm32"
    /\ \E reading \in ReadingsAsked, list \in LlmAnswers : stack' = Answer(reading, list)
    /\ UNCHANGED <<bridge, native>>

\* A text that the bilingual dictionary lacks is passed through, with an error.
DictionaryFetchTranslation ==
    /\ stack.at = "ready" /\ stack.provider.kind = "dictionary"
    /\ \E reading \in ReadingsAsked :
        \E list \in IF stack.provider.translates = "llm" THEN LlmAnswers
                    ELSE LET found == [EmptyList EXCEPT !.by = "dictionary",
                                                       !.candidates = <<English>>]
                         IN  {found, Failed([found EXCEPT !.candidates = <<InKana(reading)>>])} :
            stack' = Answer(reading, list)
    /\ UNCHANGED <<bridge, native>>

-----------------------------------------------------------------------------
Fetch ==
    \/ DictionaryFetchLayer1 \/ ImmFetchLayer1 \/ UnavailableFetch \/ MozcImm32Fetch
    \/ AskBridge \/ AskNative
    \/ MozcFetchTranslation \/ ImmFetchTranslation \/ DictionaryFetchTranslation

\* The steps of the thread that asked, when it has something to do.
ThreadStep == BridgeWorks \/ BridgeAnswers \/ NativeWorks \/ NativeAnswers

StackNext == Load \/ SetResultCallback \/ Drop \/ Fetch \/ ThreadStep \/ NativeFails \/ WrapperWorks

\* The thread of the user interface runs; nothing is assumed of the wrapper, and
\* no system call has to fail.
StackSpec == StackInit /\ [][StackNext]_stackVars /\ WF_stackVars(ThreadStep)

-----------------------------------------------------------------------------
\* Properties.

\* docs/operations/mozc_native_phase0_phase1.md:36-40: a native converter that
\* cannot start, and a transport that is not supported, are not replaced by
\* IMM32 or by the language model.  It holds when the file could be read as far
\* as the section "mozc".
NativeFailsClosed ==
    LET c == stack.config
    IN  (/\ stack.at = "loaded" /\ c.file = "read"
         /\ c.mode = "mozc" /\ c.mozc = "on" /\ c.transport \in {"native", "unknown"}
         /\ c.dictionary # "bad")
        => \/ stack.provider.kind = "unavailable" /\ stack.error
           \/ stack.provider.kind = "mozc" /\ stack.provider.transport = "native"

\* Whatever in the file or on the disk is wrong: when the provider is not of
\* the kind that the file names, or a translation with the dictionary was asked
\* of it and will not be done, the user is told.
FallbackIsReported ==
    LET c == stack.config
    IN  stack.at = "loaded" /\ c.file = "read" =>
            \/ stack.error
            \/ /\ c.mode \in {"mozc", "dictionary"} => stack.provider.kind = c.mode
               /\ (c.translation.mode = "dictionary" /\ stack.provider.kind = "dictionary")
                    => stack.provider.translates = "dictionary"

\* The division that the dictionary offers is the cheapest there is.
DictionaryAnswersCheapest ==
    stack.at = "answered" /\ stack.provider.kind = "dictionary" /\ stack.list.by = "none" =>
        IsCheapest(stack.path, stack.words, stack.reading)

\* An answer without a candidate says why, or will be followed by one; only the
\* provider based on IMM32 stays silent, where no Japanese layout can be had.
EmptyAnswersAreExplained ==
    stack.at = "answered" /\ stack.list.candidates = <<>> =>
        stack.list.error \/ stack.list.pending \/ stack.provider.kind = "imm32"

\* Whichever system call failed: the answer leaves no window, no layout, no
\* temporary file and no end of a pipe behind.
NothingLeftBehind == NothingHeld /\ NoFileLeft

\* When the candidate list opens on an answer of the bridge, what it shows, the
\* clauses together or the first candidate, reads what was typed, also when the
\* segments are of one converter and the candidates of another.  Left out are
\* segments of an answer with damaged clauses or a first clause without a key.
OpeningReadsTheReading ==
    (/\ stack.at = "answered" /\ stack.provider.transport = "bridge" /\ stack.list.by = "none"
     /\ stack.list.candidates # <<>> /\ bridge.intact)
    => ReadingOf(OpeningPreview(stack.list.candidates, stack.list.segments, stack.reading)) =
           stack.reading

\* The same of the native converter, whose ranges the design wants to be used
\* (docs/dictionary/mozc_native_design_investigation.md:28).
NativeOpeningReadsTheReading ==
    (/\ stack.at = "answered" /\ stack.provider.transport = "native" /\ stack.list.by = "none"
     /\ stack.list.candidates # <<>> /\ ~native.error)
    => ReadingOf(OpeningPreview(stack.list.candidates, stack.list.segments, stack.reading)) =
           stack.reading

\* A request comes back to the service, however slow the wrapper is.  It can
\* only get stuck in reading the pipe of a wrapper that it has neither seen end
\* nor ended itself, because waiting for it failed.
RequestsComeBack ==
    stack.at = "asking" ~>
        \/ stack.at = "answered"
        \/ Reached("read") /\ native.wrapper = "running"

=============================================================================
