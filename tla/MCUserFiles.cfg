CONSTANTS
    first = first
    second = second
    third = third
    Services = {s1, s2}
    Listed <- ListedOf
    Unencodable <- UnencodableOf
    MaxCount = 3
    MaxLearned = 4

SPECIFICATION Spec

INVARIANTS
    NothingInvented
    LearnedIsKept
    ChosenComesFirst
