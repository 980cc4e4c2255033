----------------------------- MODULE UserFiles -----------------------------
(***************************************************************************)
(* What the text services of one user learn about his choices, and the     *)
(* file that they keep it in (candidate_usage.tsv,                         *)
(* Ime3/rtas_text_service.h).  Every service has a table of its own that   *)
(* it reads from the file once; when a candidate is committed it adds one  *)
(* and writes the whole table.  Nothing keeps two services, or a service   *)
(* that reads and one that writes, apart: a file is first truncated and    *)
(* gets its rows when the stream is closed.                                *)
(*                                                                         *)
(* A row is that of a candidate; all are of one reading.  The rows of a    *)
(* table fit the buffer of the stream, and a row is never cut in two.      *)
(***************************************************************************)
EXTENDS Naturals, FiniteSets, Sequences, SequencesExt

CONSTANTS
    Services,     \* the TextService objects, each in a process of its own
    Listed,       \* the candidates of the reading, in the order of the provider
    Unencodable,  \* those that the user's locale has no bytes for
    MaxCount,     \* bound on a count (1000000000)
    MaxLearned    \* bound on the commits

Candidates == ToSet(Listed)
Tables == [Candidates -> 0 .. MaxCount]

ASSUME CandidatesAssumption ==
    /\ Listed \in Seq(Candidates) /\ Listed # <<>> /\ IsInjective(Listed)
    /\ Unencodable \subseteq Candidates
ASSUME BoundsAssumption == MaxCount \in Nat \ {0} /\ MaxLearned \in Nat

VARIABLES
    file,     \* the rows of CandidateUsagePath(), or Absent
    legacy,   \* the rows of LegacyCandidateUsagePath(), or Absent
    service,  \* service[s]: see Fresh
    total,    \* history: how often each candidate was chosen while it is learned
    mishaps   \* history: what the code does not protect the counts from

vars == <<file, legacy, service, total, mishaps>>

Absent == <<>>
NoRows == [c \in Candidates |-> 0]

\* A new TextService: m_candidateLearningEnabled, m_candidateUsageLoaded and
\* m_candidateUsage; saving while it has the file open for writing.
Fresh == [active |-> FALSE, learning |-> FALSE, loaded |-> FALSE, table |-> NoRows,
          saving |-> FALSE]

ServiceType == [active : BOOLEAN, learning : BOOLEAN, loaded : BOOLEAN,
                table : Tables, saving : BOOLEAN]

TypeOK ==
    /\ file \in Tables \cup {Absent} /\ legacy \in Tables \cup {Absent}
    /\ service \in [Services -> ServiceType]
    /\ total \in Tables
    /\ mishaps \subseteq {"shared", "crashed", "unreadable", "unwritten", "unencoded"}

Init ==
    /\ file = Absent
    /\ legacy \in {Absent, [NoRows EXCEPT ![Listed[1]] = 1]}
    /\ service = [s \in Services |-> Fresh]
    /\ total = IF legacy = Absent THEN NoRows ELSE legacy
    /\ mishaps = {}

Note(mishap, happened) ==
    mishaps' = IF happened THEN mishaps \cup {mishap} ELSE mishaps

-----------------------------------------------------------------------------
\* Mutant of ApplyRuntimeLimits: only a switched off learning is looked at.
ApplyRuntimeLimitsOnce(v, learning) ==
    IF learning THEN [v EXCEPT !.learning = TRUE]
    ELSE [v EXCEPT !.learning = FALSE, !.table = NoRows, !.loaded = TRUE]

\* ApplyRuntimeLimitsFromConfig: a table that is empty is read again when the
\* learning is, or stays, switched on.
ApplyRuntimeLimits(v, learning) ==
    IF learning
      THEN [v EXCEPT !.learning = TRUE, !.loaded = @ /\ v.table # NoRows]
      ELSE [v EXCEPT !.learning = FALSE, !.table = NoRows, !.loaded = TRUE]

\* What LoadCandidateUsageTable reads: the old file only when there is no new one.
SourceRows ==
    IF file # Absent THEN file ELSE IF legacy = Absent THEN NoRows ELSE legacy

Loaded(v, rows) == [v EXCEPT !.loaded = TRUE, !.table = rows]

\* SaveCandidateUsageTable opens the file for writing: its rows are gone.
Truncate(v) == [v EXCEPT !.saving = TRUE]

\* Mutant of Rows: the counts that are there are added to those of the table.
RowsAdded(table) ==
    LET old == IF file = Absent THEN NoRows ELSE file
    IN  {[c \in Candidates |-> old[c] + table[c]]}

\* Rows that another service wrote after the file was truncated stay where they
\* reach further than what is written over them, and the later row of a
\* candidate counts.
Rows(table) ==
    LET old == IF file = Absent THEN NoRows ELSE file
    IN  {[c \in Candidates |-> IF c \in kept THEN old[c] ELSE table[c]] :
            kept \in SUBSET {c \in Candidates : old[c] > 0}}

\* A row that cannot be encoded makes the stream fail: neither it nor any row
\* after it, in the order of a hash table, is written.
Written(table) ==
    IF \E c \in Unencodable : table[c] > 0
      THEN {[c \in Candidates |-> IF c \in before THEN table[c] ELSE 0] :
                before \in SUBSET (Candidates \ Unencodable)}
      ELSE {table}

\* Other services whose tables are used without being read again.
Sharing(s) ==
    \E t \in Services \ {s} :
        service[t].learning /\ (service[t].active \/ service[t].table # NoRows)

-----------------------------------------------------------------------------
\* InitializeProviderBackend in Activate: the configuration is read again, and
\* the table if it has to be.  A table that came from the old file is saved.
Activate(s, learning) ==
    LET v == ApplyRuntimeLimits([service[s] EXCEPT !.active = TRUE], learning)
        reads == learning /\ ~v.loaded
        migrates == reads /\ file = Absent /\ legacy # Absent
    IN  /\ ~service[s].active /\ ~service[s].saving
        /\ service' = [service EXCEPT ![s] =
               IF migrates THEN Truncate(Loaded(v, SourceRows))
               ELSE IF reads THEN Loaded(v, SourceRows)
               ELSE v]
        /\ file' = IF migrates THEN NoRows ELSE file
        /\ Note("shared", reads /\ \E t \in Services : service[t].saving)
        /\ UNCHANGED <<legacy, total>>

\* The same with a file that is there and cannot be opened: the table is empty
\* and counts as read.  An old file that cannot be opened is not moved.
ActivateUnreadable(s) ==
    LET v == ApplyRuntimeLimits([service[s] EXCEPT !.active = TRUE], TRUE)
    IN  /\ ~service[s].active /\ ~service[s].saving
        /\ ~v.loaded /\ (file # Absent \/ legacy # Absent)
        /\ service' = [service EXCEPT ![s] = Loaded(v, NoRows)]
        /\ Note("unreadable", TRUE)
        /\ UNCHANGED <<file, legacy, total>>

\* The table outlives the activation.
Deactivate(s) ==
    /\ service[s].active /\ ~service[s].saving
    /\ service' = [service EXCEPT ![s].active = FALSE]
    /\ UNCHANGED <<file, legacy, total, mishaps>>

\* LearnCandidateSelection, when the file is opened and when it is not.
LearnCandidateSelection(s, c, opened) ==
    LET v == [service[s] EXCEPT !.table[c] = IF @ < MaxCount THEN @ + 1 ELSE @]
    IN  /\ service[s].active /\ service[s].learning /\ ~service[s].saving
        /\ FoldSeq(LAMBDA d, sum : total[d] + sum, 0, Listed) < MaxLearned
        /\ total' = [total EXCEPT ![c] = IF @ < MaxCount THEN @ + 1 ELSE @]
        /\ service' = [service EXCEPT ![s] = IF opened THEN Truncate(v) ELSE v]
        /\ file' = IF opened THEN NoRows ELSE file
        /\ mishaps' = mishaps \cup (IF opened THEN {} ELSE {"unwritten"})
                              \cup (IF Sharing(s) THEN {"shared"} ELSE {})
        /\ UNCHANGED legacy

\* The end of SaveCandidateUsageTable.
CloseFile(s) ==
    /\ service[s].saving
    /\ \E rows \in Written(service[s].table) :
          /\ file' \in Rows(rows)
          /\ Note("unencoded", rows # service[s].table)
    /\ service' = [service EXCEPT ![s].saving = FALSE]
    /\ UNCHANGED <<legacy, total>>

\* The process ends, or dies while it writes; the next one has a new service.
ProcessEnds(s) ==
    /\ service[s] # Fresh
    /\ service' = [service EXCEPT ![s] = Fresh]
    /\ Note("crashed", service[s].saving)
    /\ UNCHANGED <<file, legacy, total>>

Next ==
    \E s \in Services :
        \/ \E learning \in BOOLEAN : Activate(s, learning)
        \/ ActivateUnreadable(s)
        \/ Deactivate(s)
        \/ \E c \in Candidates, opened \in BOOLEAN : LearnCandidateSelection(s, c, opened)
        \/ CloseFile(s)
        \/ ProcessEnds(s)

Spec == Init /\ [][Next]_vars

-----------------------------------------------------------------------------
\* Mutant of Ordered: candidates of the same count may change places.
OrderedByCount(table) ==
    SortSeq(Reverse(Listed), LAMBDA c, d : table[c] > table[d])

\* ApplyLearnedCandidateOrdering: by count, and by place where counts are equal;
\* a candidate comes after as many as precede it.
Precedes(table, c, d) ==
    LET place == [e \in Candidates |-> CHOOSE i \in DOMAIN Listed : Listed[i] = e]
    IN  table[c] > table[d] \/ (table[c] = table[d] /\ place[c] < place[d])

Ordered(table) ==
    [n \in DOMAIN Listed |-> CHOOSE c \in Candidates :
        Cardinality({d \in Candidates : Precedes(table, d, c)}) = n - 1]

-----------------------------------------------------------------------------
\* No interleaving of services, no crash, failure or move from the old file
\* makes anyone believe in more choices than the user made.
NothingInvented ==
    \A c \in Candidates :
        /\ file # Absent => file[c] <= total[c]
        /\ \A s \in Services : service[s].table[c] <= total[c]

\* What was learned is kept (v1_0_test_plan.md:122), across activations,
\* restarts, the learning switched off and on, and the move from the old file,
\* as long as no other service learns meanwhile and nothing fails.
LearnedIsKept ==
    (mishaps = {} /\ \A s \in Services : ~service[s].saving) => SourceRows = total

\* A candidate that was chosen more often than another is listed before it, in
\* every service that learns (v1_0_test_plan.md:114); where the user has no
\* preference the order of the provider stands.
ChosenComesFirst ==
    mishaps = {} =>
        \A s \in Services :
            (service[s].active /\ service[s].learning) =>
                \A i, j \in DOMAIN Listed :
                    LET shown == Ordered(service[s].table)
                        Before(c, d) == \E m, n \in DOMAIN shown :
                                            m < n /\ shown[m] = c /\ shown[n] = d
                    IN  (\/ total[Listed[i]] > total[Listed[j]]
                         \/ total[Listed[i]] = total[Listed[j]] /\ i < j)
                           => Before(Listed[i], Listed[j])

=============================================================================
