SPECIFICATION StackSpec
CONSTANTS
    Letters = {"a", "b"}
    MaxPipes = 2
    Polls = 2
    PipeSize = 2
    MaxOutput = 3
    MaxWord = 2
    UnknownPenalty = 12
    KanaPenalty = 2
    LetterPenalty = 1
    Files <- MCFiles
    ReadingsAsked <- MCReadings
    Dictionaries <- MCDictionaries
INVARIANTS
    NativeFailsClosed
    FallbackIsReported
    DictionaryAnswersCheapest
    EmptyAnswersAreExplained
    NothingLeftBehind
    SegmentsTile
    SentencesReadTheReading
    OpeningReadsTheReading
    AnswerIsTheWrappers
PROPERTIES
    RequestsComeBack
