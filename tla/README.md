# Verification of the RTAS text service

TLA+ models of RTAS, a Japanese input method that translates what is typed with a
local language model: a TSF text service (`src/Ime3`), the conversion providers
behind it (`src/src/provider`) with the configuration that chooses one
(`src/src/config`), and the bridge to another Japanese IME (`src/tools/mozc_bridge`).
The models are checked by TLC on small instances; the most important safety properties
of the core are proved by TLAPS for every value of the constants. Paths below are
relative to the repository (`src/` is its root); `rtas_text_service.h` is short for
`Ime3/rtas_text_service.h`, and `rtas_translation.cpp` for `Ime3/rtas_translation.cpp`.

## The system

| Component | State | Operations | Talks to |
| --- | --- | --- | --- |
| `TextService` (`rtas_text_service.h`), a TSF COM object on an STA thread | layer and tab, candidates, draft, outstanding requests, three caches, kana mode | `Activate`, `Deactivate`, `OnKeyDown`, `OnPreservedKey`, compartment and composition callbacks | provider (calls), dispatch window (messages), candidate window, TSF |
| Translation layer (in `TextService`) | `m_translationRequest`, `m_translationPendingActive`, `m_translationCache` with access stamps | `StartTranslationForCandidate`, `CancelActiveTranslationRequest`, `OnProviderResult`, `CommitTranslationSelection` | provider, dispatch window |
| Layer2 (in `TextService`) | `m_layer2Request`, Layer2 cache | `SwitchToLayer2FromLayer1`, `MergeLayer2Selection` | provider, dispatch window |
| Draft and carry (in `TextService`, `rtas_layer_state.h`) | draft, locked prefix, raw romaji | typing, Backspace, merge, commit | Layer1 provider call |
| Dispatch window | `m_mainThreadCallbacks` under a mutex, window messages | `PostMainThreadCallback`, `DrainMainThreadCallbacks` | worker threads -> TSF thread |
| `AsyncWorkQueue` (`rtas_translation.h/.cpp`) | queue, ids in use, cancel flags, one worker thread | `Enqueue`, `Cancel`, `Shutdown`, `WorkerLoop` | provider |
| LLM job (`ExecuteTranslationJob`, `src/src/llm`) | none | HTTP request, response parser | Ollama |
| Ollama residency (in `TextService`) | activation count and generation, in shared memory or in two atomics | begin, end, warmup thread, unload thread | all services of the user, Ollama |
| Kana mode (in `TextService`) | `m_kanaMode`, the key to ignore, two TSF compartments that all services share | `OnKeyDown`, `OnPreservedKey`, `OnChange`, `OnClick` | TSF, other services |
| Composition (in `TextService`) | `m_composition`, edit sessions that wait at the host | start, update, end, direct insertion | TSF host, document |
| Learning table (in `TextService`) | a table per service, one file per user | load once, save as a whole after each choice | other services, through the file |
| Settings and factory | settings read once per activation | `LoadProviderSettings`, `CreateConversionProvider` | providers |
| Providers: dictionary, mozc, IMM32, unavailable | settings, dictionary, queue, callback | `FetchLayer1`, `FetchLayer2`, `FetchTranslation`, `CancelRequest` | queue, transports |
| Mozc transports and bridge | child process, pipe, temporary file; sessions, keyboard layouts, a window | `FetchCandidates`, `QueryCandidatesInProcess` | Google Japanese Input, IMM32, the native wrapper |
| Dictionary loaders, response parser, learning log | read-only data | load, look up | files |
| Candidate window, overlay, language bar | copies of what `TextService` shows | show, hide, draw | Windows |
| Registration, COM factory, IMM32 module, installer, tools | reference counts, registry | | Windows |

What is hard in it:

* A translation takes seconds, runs on another thread, and its answer comes back as a
  window message. Meanwhile the user types, changes tabs, cancels, asks again, or
  switches the input method off and on. A late, doubled or cancelled answer must not
  be shown or remembered as the translation of something else.
* The queue has the usual hazards of a condition variable, a cancel flag and a join.
* The text services of all processes count themselves in shared memory; detached
  threads decide after a delay whether the model may be dropped.
* They also share two compartments, written one after the other while others read them,
  and a file that each rewrites as a whole.
* Text reaches the document only in edit sessions that the host may run later, or never.
* Many system calls in a row, each of which may fail, with handles, windows, layouts and
  files to give back on every path; and answers of other programs that may be damaged.
* Sequences of legal keys nobody wrote a test for: the repository's unit tests cover
  `CandidateRequest` and `LayerState` on their own, and the loaders.

`PROJECT.json` lists the hazards at their lines, each with the properties that are
about it or the reason why there is none.

### What makes each component correct

* Queue: no wake-up is lost, a cancelled job does not start, every job settles,
  `Shutdown` returns: it implements `JobService`.
* Translation layer: a cached answer belongs to its key; the waiting mark is on
  exactly while an id is outstanding; a wait ends; the tab shows what belongs to its source.
* Residency: the count is that of the services; nobody unloads while a service is
  active; an interrupted delay unloads nothing; the last deactivation unloads.
* Draft, layers and carry: whatever the order of the keys, every keystroke that was not
  taken back is written once and in its place; what is held is not converted again; Enter
  commits what is shown; nothing of one sentence reaches the next.
* Kana mode: services and compartments agree; one press is obeyed once; with the mode off
  nothing is being typed; the services do not answer each other for ever.
* Composition: every letter that is not erased or given up reaches the document, once and in
  order; the composition shows the draft.
* Learning table: what was chosen is kept and comes first; nothing is counted that was not
  chosen.
* Settings and factory: what the file names is made, or the user is told; a native converter
  is never replaced in silence.
* Conversion: clauses cover the reading, a candidate stands for all of it once, an empty
  answer says why, nothing is left behind, a request comes back.

## Modules

| Module | Models |
| --- | --- |
| `JobService` | what the queues of a process promise to the thread that owns them: the abstract specification |
| `AsyncWorkQueue` | the queues: mutex, condition variable, cancel flags, worker thread, `Shutdown` |
| `TranslationFlow` | the translation layer of a text service, over `JobService` (`INSTANCE ... WITH Queues <- Sessions`) |
| `SequenceLemmas` | induction over the naturals, what `FlattenSeq` and the folds of the community modules do, and facts about increasing sequences |
| `AsyncWorkQueueProofs`, `TranslationFlowProofs`, `OllamaResidencyProofs`, `InputModeProofs`, `LayerFlowProofs`, `CompositionProofs` | the theorems about the modules in their names |
| `CandidateProofs` | where candidates come from and how they are ordered: the theorems about `ConversionStack` with its parts, and about `UserFiles` |
| `LayerFlow` | the keys of a text service in kana mode, from the first letter to the document |
| `OllamaResidency` | the activation counters and the two kinds of thread |
| `InputMode` | the kana mode of several services and the compartments they share |
| `Composition` | the composition, its edit sessions and the fallbacks |
| `UserFiles` | what is learned about the user's choices, and its file |
| `ProviderSetup` | from the configuration file to a provider |
| `Readings` | texts, readings and clauses, and what the text service makes of clauses |
| `DictionaryWords` | the segmentation of a reading by cost, and a reference definition of it |
| `MozcBridge` | one call of the in-process bridge: pipes, sessions, clauses, layouts |
| `MozcNative` | one call of the native transport: file, pipe, wrapper process, time limit |
| `ConversionStack` | the composition of the five modules before it: a configuration makes a provider, and a request goes through it |
| `MC...` | instances, and the statements of documents that do not hold |

### JobService and AsyncWorkQueue

`AsyncWorkQueue` has one action per critical section (`Enqueue`, `CancelLookup`,
`ShutdownSignal`, `WorkerPop`, `WorkerErase`, ...) and one per step outside the mutex
(`NotifyOne`, `CancelStore`, `CancelNotify`, `ShutdownNotify`, `ShutdownJoin`,
`WorkerLoadFlag`, `WorkerRun`), so that the worker and the caller interleave exactly
where the code lets them. `worker[q].pc` and `client.pc` say where a thread is.
`m_pending` is the set of ids whose flag can be found; the flags are the set `flag`.
`nextId` is one counter for all queues, because `m_nextId` is static. `owner` and
`ran` are history. The calls come from one thread, as in the code: the TSF thread
owns the providers.

`JobService` is the promise: `Submit`, `CancelJob`, `CloseQueue`, `BeginJob`,
`SkipJob`, `FinishJob`. The run `async_work_queue` checks that the detailed module
implements it (`ImplementsJobService`, with its fairness). `TranslationFlow` uses the
actions of `JobService` for the queue of the provider, which makes its state space
small without trusting more than what was checked.

### TranslationFlow

A handler on the TSF thread is one action, because no other handler runs on that
thread meanwhile. `tsf` is "draining" between two callbacks of one
`WM_ASYNC_DISPATCH`, and "joining" while `Deactivate` waits in the destructor of the
provider. The worker's way back is split as the code is: `WorkerReply` pushes the
callback, `WorkerPostMessage` posts the message, `WorkerFinish` ends the job;
`DrainMainThreadCallbacks` swaps the vector, `RunCallback` runs one callback.

A text is a model value: it stands for a trimmed string that is not empty, which is
its own cache key. Where the code takes the text from the draft, the segments or the
Layer2 candidates, the action takes any text. `shown` is what the candidate window
shows and for which key; `recency` is the order of the access stamps. Three providers
are told apart by how they translate: by the LLM (asynchronously), from the
dictionary (at once), and not at all.

### LayerFlow

`TranslationFlow` looks at the translation and takes texts from anywhere; `LayerFlow`
looks at the texts and takes translations from anywhere. It has every key of the kana mode:
letters, symbols, Space, Enter, Shift+Enter, Backspace, Escape, Ctrl+Tab, the arrows, the
switch to kana-kanji only, the end of the kana mode, and the host, which may close the
window or end the composition at any time.

The handlers of `OnKeyDown` call each other a lot (Backspace may merge Layer2, close the
window and then erase; a letter may lock the selection first), so the fields of the service
are one record `ime` and each C++ function is an operator from a record to a record, named
as in the code. An action applies a whole handler. `shown` is the text of the composition as
the host has it, which the handlers set in different places and which need not be the
selection: the code suppresses some notifications, and so does the model.

A character is a record of its form and of the numbers of the keystrokes it was made
of. A conversion joins the characters of a text to one of the form "kanji", a translation
to one of the form "english". That is all the properties tell apart: what is lost, doubled,
moved or converted again shows in the numbers. A vowel is "a"; "n" is special in
`ConvertRomaji`; "k" stands for every other consonant; syllables of three letters are left
out. `givesClauses` and `translates` say what the provider does, and are chosen at the
start: with clauses it answers with two, cut anywhere.

The provider is Mozc, whose Layer2 answers at once with the held text itself
(`src/provider/mozc_conversion_provider.cpp` 283-301). Edit sessions succeed at once: what
happens otherwise is the subject of `Composition`. Left out: the half-width input, caret
moves inside the composition, the learned order of the candidates, and the heuristics about
partial candidates, which Mozc mode does without (`rtas_text_service.h` 2220-2224).

### OllamaResidency

`shared`, chosen at the start, says which counters are used: shared memory under the named
mutex, where begin, end and read are one step each, or two atomics of the process, where
begin and read are two. The threads are indexed by the generation of the activation
that started them. `Exit` is the end of a process in any state. `seen` and `own` are the
values a service keeps; `starter`, `disturbed` and `sent` are history for the properties.

### InputMode

Every service has a thread, and its handlers are cut where it touches a compartment:
`WriteOpen` and `WriteNative` are the two `SetValue` of `UpdateSystemInputModeCompartments`,
`OnChange` the read of the first value and `SyncKanaModeFromCompartments` the read of the
second one and what follows. Between the writes the service ignores notifications, its own
included, which may arrive inside `SetValue` or later; both are tried. `OthersWrite` is any
other program that sets a compartment.

A press reaches a service by `OnKeyDown`, by `OnPreservedKey`, or by both (`host`), and the
code remembers the key in `suppressed` until it goes up, which the host may not tell. Three
keys stand for all: one that toggles, one that forces the mode on, and one that forces it
off. `handled` counts how often the press was obeyed. `LateCallbacks` would let a host call
`OnPreservedKey` after the key went up: then the mark is gone and the press is obeyed twice,
so the run leaves it out.

### Composition

The host and the document are in the model: a session is run at once, queued, or accepted
and never run; queued sessions run in order. A letter is the number of its key, so the
document shows what was lost, doubled or moved. A handler is one action, with the sessions it
asks for run inside it where the host grants them.

Which letters make kana is left open: a key may make kana of any number of the letters that
wait, and leave the rest (`kk` leaves a k). `Flush` is `ConvertRomaji(true)` and the clearing of
the buffer after it, at Enter, at a symbol, when the mode goes off and when the buffer is full:
one letter alone may be an n, which is kana, and everything else that waits is given up. `due`,
the letters that the document owes the user, leaves out what was erased and what a flush gave
up; that letters are given up is what the run `layer_symbol` is about.

The code has no answer to some of what a host may do, and the README would be long if it
listed each trace; the record field `mishaps` names them instead: a session accepted and not
run ("refused"), an insertion that runs inside a composition ("inserted"), a draft cleared of
which only the last kana were inserted ("dropped"), a composition ended while its commit
waits ("terminated"), an update that runs in the next composition ("overtaken"), text
typed and pasted for want of a context ("pasted"), and a composition that stays open, for the
same reason, although the draft was cleared ("kept"). Each property says which mishaps it
leaves out, and each is left out because TLC finds the property violated with it, but for one:
with "inserted" `NothingTwice` still holds in the instance, but the text comes out of order,
and the proof goes by the order. All stay actions of the model. The hazards name them at their
lines.

### UserFiles

A service reads the table when it becomes active and writes all of it after each choice:
`LearnCandidateSelection` truncates the file, `CloseFile` writes the rows. Between the two
another service may read an empty file, write its own, or the process may die. A file may be
unreadable, may not open for writing, and a row may not be encodable, after which the stream
writes nothing more. The old path is read when the new one does not exist. `mishaps` has the
same role as in `Composition`: "shared", "crashed", "unreadable", "unwritten", "unencoded".

### The conversion stack

`ProviderSetup` is a function from what the file says of the fields that decide on a provider
(each may be absent, right, unknown, or of a type that makes the reader throw) to the
provider that is made: one operator per stage of `LoadProviderSettings`, in the order of the
code, because a stage that throws ends the reading. `Readings` has texts that know what they
read: a kana reads one letter, a kanji one or more, so a text and its reading have different
lengths, which is what clauses go wrong about. `DictionaryWords` is the dynamic programme of
the dictionary provider, beside the minimum over all divisions.

`MozcBridge` and `MozcNative` have an action for every system call and one for its failure,
where it has a consequence. What another program answers is an input, taken from a set of
good answers and of answers with one kind of damage each: a clause that is missing, from the
list or from the preedit, a key that is too long, and clauses that have no key. The bytes of the
protocol are not modelled: the decoders drop a clause they cannot read, which the answers have.
A clause without a key takes no place in the reading; when none has one, the segments are a
single tail in kana over the whole reading, the preedit is not looked at, and the candidates
are still those of the first clause. `intact` says that the answer of which the segments are had
all its clauses, and the first one its key: `SentencesReadTheReading` and
`OpeningReadsTheReading` are about those. Without it they are false in the model, as in the code.
An exception is left out: an `ok` in the wrapper's object that is not a boolean makes
`value("ok", false)` throw (`mozc_transport.cpp` 618), and nothing catches it below the text
service. `held`, `file` and `pipe` say what is open. The wrapper is a process of its own that writes when the pipe
has room, ends, fails or hangs.

`ConversionStack` joins them: `Load` makes a provider from any configuration, and a request
for candidates or a translation goes through it.

## Runs

| Run | Question | Bounds |
| --- | --- | --- |
| `async_work_queue` | is the queue correct under all interleavings, and does it implement `JobService` | 2 queues, 3 jobs |
| `translation_flow` | do late, doubled and cancelled replies do any harm; is what is shown current; do waits end | 2 texts, 3 requests, 2 sessions, cache of 1 |
| `residency` | do the counters ever drift; does an interrupted delay unload; can a thread be misled into unloading | 2 services, 3 activations, 1 process end, both kinds of counters |
| `residency_unload` (violation) | two services: the unload can be lost | 2 services, 2 activations |
| `layers` | is anything lost, doubled, moved, converted again, left over, or committed that was not shown | vowels and n, 4 text keys, with and without clauses and translation |
| `layer_clauses` (violation) | does the preview always stand for the whole text | 2 text keys, two clauses |
| `layer_symbol` (violation) | does a symbol lose letters | 2 text keys |
| `input_mode` | do services and compartments agree, and come to agree; is a press obeyed once | 2 services, 2 presses, clicks or writes by others |
| `composition` | does every letter reach the document once; does the composition show the draft | 4 letters, 2 in the romaji buffer, 3 waiting sessions |
| `user_files` | is what was chosen kept, listed first, and nothing invented | 2 services, 3 candidates, 4 choices |
| `conversion_stack` | is the right provider made, is a failure told, are answers whole, is nothing left behind, do requests come back | readings of 3 letters, 2 pipes, 3 chunks of output, every set of 6 words, all switches |
| `native_ranges` (violation) | do the clauses of the native transport fit the reading | as above |

Why the bounds are enough: three jobs give one in the worker's hands, one behind it and
one in another queue or after a restart of the queue. Two texts are enough for a reply that
is for the wrong one, since every property speaks of one key and one reply, and they do not
both fit a cache of one; three requests give one being fetched, one behind it and one
current; two sessions let a reply of the first reach the second. Two services make every
pair of steps that can interleave, and three activations let one come and go while an unload
waits. In `LayerFlow` only the keys that enter text are bounded; all others may be pressed
for ever, so merging, going back and carrying on happen in every order. Four text keys make a
held prefix, a tail, a commit or a second carry, and one more key. Some losses are facts:
with clauses letters do get lost (see below), so `NothingTypedIsLost` is asked
of a provider without clauses; `EnterCommitsWhatIsShown` also leaves Layer1 out where the
provider translates. Two services with two presses write between two writes, or two reads, of
each other. Four letters are two words of a consonant and a vowel; three sessions and those of
one more key wait when one word is committed and the next begun; a buffer of two letters is full and holds an unfinished syllable. Four choices let every count overtake
another after it was written. Two pipes are one that fails and one that answers; readings of three letters
are cut into two clauses of different lengths, and one letter of theirs occurs twice; three
chunks do not fit the pipe of two.

Deadlock checking is on for the queue, whose owner can always make a call, for `LayerFlow`,
where a key can always be pressed, for `UserFiles`, where a service can always start or end, and for the
conversion stack, where a provider can always be dropped; it is off where the bounded number of requests,
sessions, activations, presses or letters lets the system stop. No symmetry is used.

`Max...` constants bound counters that are wider in the code (`m_nextId`, the generation) or
not there at all (keys pressed, sessions waiting): they guard the actions that would exceed
them and model no limit of the code. `MaxEntries`, `MaxCount`, `MaxWord`, `MaxRomaji`, `Polls`
and the penalties are parameters of the code, with smaller values.

### Fairness

* `AsyncWorkQueue`: weak fairness of the steps inside a call that has begun and of
  each worker's own steps: the scheduler runs threads that can run. No call ever has
  to be made, and a spurious wake-up never has to happen.
* `TranslationFlow`: weak fairness of the worker (its HTTP calls have timeouts), of
  the message loop, and of the return from the join. No key is ever due.
* `OllamaResidency`: weak fairness of a begun activation and of the threads
  (`sleep_for` returns, the request has a timeout). Nobody has to activate.
* `InputMode`: weak fairness of the writes and reads that a handler has begun and of the
  delivery of notifications. Nobody has to press, click, type or activate.
* `ConversionStack`: weak fairness of the thread that asked, while it has something to do.
  The wrapper may hang, and no call has to fail.

### What the violations show

* `layer_clauses`: `InitializeSegmentMode` puts the candidates of the first clause in the
  place of those of the whole text, and entering Layer2 ends the segment mode without putting
  them back. Back in Layer1 the preview and the next Enter cover one clause.
* `layer_symbol`: a consonant that still waits for its vowel is cleared, not written, when a
  symbol (or Space, Enter, the end of the kana mode) follows.
* `residency_unload`: the unload thread compares the current generation with the one of
  the service that started it. The last service to stop need not be the last that
  started, so nobody unloads.
* `native_ranges`: `BuildSequentialSegments` takes the length of a surface for the length of
  its clause in the reading. A kanji that reads two letters makes the ranges end early, the
  text service adds the rest in kana, and the composition opens with text that reads more
  than was typed.

Other divergences seen while modelling, without a run of their own:

* the warmup thread gives up by the same comparison as the unload thread, so with two
  services the warmup can be lost (`rtas_text_service.h` 2000; the model has it);
* after Translation -> Layer1 -> Layer2 -> Shift+Enter the source has changed,
  `CandidateRequest::Complete` throws the only reply away, and the mark of the wait stays on
  until the next cancel (2508; `docs/ui_spec.md:27` wants it while an answer is awaited);
* Escape from the Translation tab does not notify the owner (540), so the composition keeps
  the translation while Enter in Layer1 would commit the Japanese selection;
* an answer with only an error is stored over a former translation (2764), which
  `tests/manual/llm_error_cases.md:19` excludes and `docs/ui_spec.md:46` asks for;
* a native conversion that failed or ran out of time may look like a good one: when the wrapper
  had written its answer before it failed or was killed, the native transport answers with
  candidates and an error, and `FetchLayer1` of the Mozc provider passes the error on only when
  there is no candidate (`src/provider/mozc_conversion_provider.cpp` 269, `MozcList` in the model),
  against `docs/operations/mozc_native_phase0_phase1.md:40`, which promises a visible error.
  `AnswerIsTheWrappers` is about the answer of the transport, which has the error, and
  `EmptyAnswersAreExplained` about answers without candidates, so neither sees it;
* a native converter may be replaced by IMM32 when an earlier switch of the file has a wrong
  type (`src/config/provider_settings.cpp` 330), against
  `docs/operations/mozc_native_phase0_phase1.md:36-40`; the error is shown.

## Proofs

Every invariant and every action property of the passing runs is a theorem. All theorems hold
for any finite or infinite sets of queues, services, texts, letters, keys and candidates, for
readings and dictionaries of any size, and for any bounds; they use the named assumptions of
the modules and nothing else. Where an invariant of a run is not inductive, the clauses that
make it so are listed here with the reason why the code keeps them.

**`AsyncWorkQueueProofs`**: `TypeCorrect`; `CancelFindsWork` (`PendingCoversWork`);
`WakeupsArrive` (`NoLostWakeup`); `ImplementsJobSteps`: every step of the two queues is a step
of `JobService`, under the refinement mapping of the run. The invariant adds which ids a
queue, its worker and a caller may hold: an id is handed out once, an id that waits is in no
other queue and in nobody's hands, and a thread in the middle of a call still owes what it
began. The refinement needs that a popped job was never executed before, which follows.

**`TranslationFlowProofs`**: `TypeCorrect`; `PendingMatchesRequestHolds`: the waiting mark is
on exactly while an id is outstanding; `CacheProvenanceHolds`: a cached answer was made from
its own key; `NoCancelledAnswerHolds`: the error text of a cancelled job is never cached.
`Typing` adds to the types that an active service has a session, a busy worker an id, a
draining thread callbacks, and an outstanding request a key. `IInv` is `Bookkeeping` and the
three properties: flags and jobs have ids that were handed out (so a new id carries no old
flag), the outstanding id was handed out, is not flagged and has the text of its key (so an
accepted reply is for the key it is stored under), and a reply that speaks of a cancellation
belongs to a flagged job (so an accepted reply does not). The argument is the order in
`CancelActiveTranslationRequest`: the id is forgotten, then the flag is raised.

In its second half: `WaitCanEnd` (`RequestIsAnswerable`), `RepliesAreFetched`
(`NoLostDispatch`) and `TabShowsWhatEnterCommits` (`TranslationTabIsCurrent`), over the
invariants above. A wait can end because the id is in the queue, with the worker, in the
inbox or in the thread's hands; which of these it is changes at one step only, and the
session of a thread that joins has no request.

**`OllamaResidencyProofs`**: `TypeCorrect`; `CountNeverDrifts` (`CountMatchesServices`);
`NeverUnloadsWhileActive` (`NoUnloadWhileActive`); `DisturbedDelaysSendNothing`. The unload
thread reads two counters one after the other; that it can trust them needs that a
generation never returns, and that a thread whose generation is current was not disturbed.

**`InputModeProofs`**: `TypeCorrect`; `OffCommitsTheDraft` (`OffMeansNothingTyped`);
`QuietServicesAgree` (`AgreesWhenQuiet`); `PressCountsOnce` (`PressObeyedOnce`) under
`~LateCallbacks`, the value that the run gives it and the order that TSF documents: a host
that calls `OnPreservedKey` after the key went up does have a press obeyed twice.

**`LayerFlowProofs`**: `TypeCorrect`; `NothingIsWrittenTwice` (`WrittenOnceInOrder`);
`NothingStays` (`NothingLeftOver`); `NothingIsLost` (`NothingTypedIsLost`); `HeldIsKept`
(`TypingKeepsWhatIsHeld`); `EnterIsFaithful` (`EnterCommitsWhatIsShown`). They hold for any
number of keys. The handlers pass texts on, convert parts of them, cut them into clauses and
put them together again, so the proofs follow a family of texts: a set that a text does not
leave when a part of it is converted. The invariant says that the draft, the source, every
candidate, what is held and what is shown are in the family, that the text held in Layer2 is
what is shown, that a merged window has one candidate, and that two clauses tile the draft
behind the locked prefix; without a window nothing but the preedit and the carry is left.
That is enough, because every text that reaches the document comes from one of these places.
There is one lemma for each operator and each action, for any family, and two families:
`Fit`, the texts whose keystrokes were pressed after those of the document and in order, of
which a part is one again, so clauses do no harm; and `Whole`, the texts that have with the
document all the keystrokes that were not taken back, of which a part is not one, so the
provider gives no clauses. `NothingIsLost` assumes `"k" \notin Letters`, as `layers` does: with
another consonant than n it is false, which `layer_symbol` shows. Its invariant adds that at
most one letter, an n, is unfinished. What a backspace takes away is behind all that stays,
because the numbers of the keystrokes rise. `EnterIsFaithful` adds that without clauses and
translations Layer1 shows the selected candidate.

**`CompositionProofs`**: `TypeCorrect`; `NoLetterIsLost` (`EveryLetterOnce`); `NoLetterTwice`
(`NothingTwice`); `CompositionShowsThePreedit` (`ShownIsThePreedit`). Three inductive
invariants, because the properties leave out different mishaps. `KeptSoFar`: what the
document has, what the waiting sessions will add and what is in the draft, put together, are
the letters that are due, in order. A flush takes from both sides the last letters, those of
the romaji buffer (`FlushKeeps`). `ShowingSoFar` says of each waiting session what the composition
will show after it, so the last one decides. `SortedSoFar` replaces the equation by order:
what is in the document, in the sessions and in the draft rises, whatever was lost between,
so nothing occurs twice.

**`CandidateProofs`, the table of the choices** (`UserFiles`): `TypeCorrect`;
`NoChoiceIsInvented` (`NothingInvented`); `ChoicesAreKept` (`LearnedIsKept`); `ChosenIsFirst`
(`ChosenComesFirst`). `Kept` says when a
table may be trusted: while nothing went wrong, a service that learns and is active, or has
rows, has every choice; so has the file, unless someone has truncated it, and then nobody
else has. A service that is told to stop learning has an empty table, which is why it reads
the file when it starts again. For the order, the rank of a candidate (the number of those
that precede it) is shown to be a bijection onto the places.

**`CandidateProofs`, the conversion stack** (`ConversionStack`): `StackSafety` (the inductive
invariant `StackInv`), and from it `NativeIsNeverReplaced` (`NativeFailsClosed`),
`NoFallbackInSilence` (`FallbackIsReported`), `NoEmptyAnswerInSilence`
(`EmptyAnswersAreExplained`), `CallsLeaveNothing` (`NothingLeftBehind`), `AnswersAreTheWrappers`
(`AnswerIsTheWrappers`), `SegmentsCoverTheReading` (`SegmentsTile`), `CandidatesReadTheReading`
(`SentencesReadTheReading`), `OpeningShowsTheReading` (`OpeningReadsTheReading`) and
`CheapestIsOffered` (`DictionaryAnswersCheapest`). `StackInv` has four parts.

* `StackFits` is about the provider and what it answered: unless it is a translation, the list
  is the one the bridge gave (`ListFits`), or comes of the path that the dictionary found for
  the reading (`WordsFit`). A provider has a transport only if it is based on Mozc. The settings are
  followed stage by stage: whatever was reported stays reported, and a stage that throws has
  reported (`Told`, `After`), so a provider of another kind than the one configured has an
  error to show.
* `CallsFit`: between two requests both transports are as they begin; during one, the transport
  of the provider is busy with the reading that was asked for, and the other is idle.
* `BridgeInv`: what a call holds is bounded by its place in the code (`HeldAt`), which is why a
  failure anywhere gives everything back. Segments found so far tile the reading whatever was
  damaged, and those of an intact answer show together what was typed (`Ongoing`). Segments
  without candidates stay when the next pipe or a layout is asked; `fresh` says of an answer that
  its segments are its own. Then a candidate of an intact answer reads the first clause or the
  whole, and completed it reads the whole; with fewer than two segments nothing is completed, so
  the candidates have to read the reading by themselves, which an intact answer's do.
* `NativeInv`: an error so far is one of the system calls of this side; a wrapper that ended
  wrote all of its output, and the call that finishes without such an error has read what was
  written (`NativePlaces`).

The rest is about the decoders, for every answer. Clauses are placed one after the other, so
segments tile the reading by induction along the chain of `PlaceClause`, whatever was dropped
or merged on the way; a candidate of the first clause completed with the text of the others
reads the reading; `Distinct` adds no candidate and loses none but the empty ones; and for
segments that tile the reading, what `SegmentRuntime` opens is those segments (`OpeningReads`).
For the dictionary, the table of the dynamic programme exists and is unique by induction over
the places of the reading; every place it reaches has a path that costs what the table says
(`PathToPlace`, `SomeDivisionCostsThat`), and no division of the reading costs less
(`NoDivisionIsCheaper`), by induction along the division. Assumed is what the instances are: files
are configurations, readings are not empty, and a dictionary is a finite set of words whose
surface reads as their key.

**`SequenceLemmas`**. The library's induction theorems take an operator as a parameter, which
the provers cannot instantiate. `Smallest` and `SetInduction` say the same about a subset of
the naturals, from the well-foundedness of `<`, and are instantiated like any other lemma.
So facts about `FlattenSeq` are proved as lemmas for sequences of any length, although it is a
fold; `LayerFlow` and `Composition` write what they keep of a sequence with it. The module has
no theorem about the program.

Only model-checked: what is temporal under fairness, because the prover does not handle
fairness and `ENABLED` (`WaitEnds`, `ShutdownReturns`, `ModesConverge`, `RequestsComeBack`, the
liveness of the residency, and the fairness in `ImplementsJobService`). No module has a
`RECURSIVE` operator.

## Not modelled

`PROJECT.json` says for every component what is left out. In short: drawing and windows,
registration, the installer and the stand-alone tools have no state worth checking;
dictionary loaders are sequential parsers with unit tests; what Ollama, the TSF host, other
IMEs and the native wrapper do is outside, and enters as nondeterministic answers. In
`TranslationFlow` the path through `QueueTranslationAsync` is left out, because it is dead:
`CreateConversionProvider` never returns null. In `OllamaResidency` a mutex that is not had
within five seconds is left out, which would mix the two sets of counters. Byte formats
(protocol messages, JSON, TSV) are modelled by what their readers keep. In `Composition` there
is one document, and the caret is at its end.

## Plan

In this order, each with its runs and its mutants:

1. `LayerFlow`, the rest: half-width input and its count of outstanding characters, caret
   moves, Layer2 of a provider that answers later.
2. `OllamaResidency` with a choice of counters per call.
3. `OllamaClient`: timeouts of a request, and the order in which a provider with a running
   job is destroyed.
4. The romaji conversion (`rtas_text_service.h` 3892-4000) with syllables of three letters,
   against a reference definition.
