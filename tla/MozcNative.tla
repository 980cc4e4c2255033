----------------------------- MODULE MozcNative -----------------------------
(***************************************************************************)
(* MozcNativeServerClientTransport::FetchCandidates                        *)
(* (src/provider/mozc_transport.cpp): one call, made on the thread of the  *)
(* user interface.  It writes the reading into a temporary file, starts a  *)
(* wrapper process whose output comes through a pipe, waits until that     *)
(* process ends or the time is up, and only then reads the pipe.           *)
(*                                                                         *)
(* The wrapper is not in this repository; it may write and end as it likes *)
(* and blocks while the pipe is full.  Output is counted in chunks, and    *)
(* its JSON object can be decoded when all of it was read.  Left out: that *)
(* another process keeps the pipe open, where the call would never return, *)
(* and that "ok" in the object is not a boolean, where value("ok", false)  *)
(* throws (618) and nobody between there and the text service catches it;  *)
(* the pipe is closed and the file deleted by then.                        *)
(***************************************************************************)
EXTENDS Readings

CONSTANTS
    PipeSize,   \* how many chunks the pipe holds
    MaxOutput   \* bound on the chunks that a wrapper writes

ASSUME OutputAssumption == PipeSize \in Nat \ {0} /\ MaxOutput \in Nat \ {0}

VARIABLE native  \* the call and the wrapper: a record

IdleNative ==
    [at |-> "idle", reading |-> <<>>,
     file |-> FALSE,      \* the temporary file exists
     pipe |-> FALSE,      \* the read end of the pipe is open
     wrapper |-> "none",  \* "running", "ended" (with exit code 0), "failed" or "killed"
     output |-> 0,        \* how many chunks it has to write
     written |-> 0, read |-> 0,
     reply |-> [ok |-> FALSE, candidates |-> <<>>, surfaces |-> <<>>],  \* what they say
     error |-> FALSE, candidates |-> <<>>, segments |-> <<>>,
     obstacle |-> FALSE]  \* history: the call was out of time, or a system call failed

NativeInit == native = IdleNative

Reached(where) == native.at = where
Advance(n) == native' = n

\* The return before the wrapper runs.
Refuse(n) == [n EXCEPT !.at = "answered", !.file = FALSE, !.pipe = FALSE,
                       !.error = TRUE, !.obstacle = TRUE]

-----------------------------------------------------------------------------
\* What a converter makes of a reading: the clauses, and candidates for the
\* first one, as the recorded output of the wrapper has them
\* (docs/dictionary/mozc_native_artifact_protocol_smoke.md:95).
NativeReplies(reading) ==
    {[ok |-> FALSE, candidates |-> <<>>, surfaces |-> <<>>]}
    \cup UNION {
        [ok : {TRUE},
         candidates : {<<>>, <<InKanji(split[1]), InKana(split[1])>>},
         surfaces : {[i \in DOMAIN split |-> InKanji(split[i])],
                     [i \in DOMAIN split |-> InKana(split[i])]}]
        : split \in {<<reading>>} \cup
            {<<SubSeq(reading, 1, k), SubSeq(reading, k + 1, Len(reading))>> : k \in 1 .. Len(reading) - 1}}

\* The segments of an answer: the place of each is counted in the characters
\* of the surfaces before it.
BuildSequentialSegments(surfaces) ==
    FoldLeft(LAMBDA segments, s :
                 Append(segments, [start |-> EndOf(segments), length |-> Len(s), surface |-> s]),
             <<>>, surfaces)

-----------------------------------------------------------------------------
NativeCall(reading) ==
    /\ Reached("idle")
    /\ Advance([IdleNative EXCEPT !.at = "file", !.reading = reading])

CreateReadingFile == Reached("file") /\ Advance([native EXCEPT !.at = "pipe", !.file = TRUE])
CreateReadingFileFails == Reached("file") /\ Advance(Refuse(native))

CreateNativePipe == Reached("pipe") /\ Advance([native EXCEPT !.at = "start", !.pipe = TRUE])
CreateNativePipeFails == Reached("pipe") /\ Advance(Refuse(native))

\* CreateProcess; the write end of the pipe is the wrapper's alone from here on.
StartWrapper ==
    /\ Reached("start")
    /\ \E output \in 1 .. MaxOutput, reply \in NativeReplies(native.reading) :
        Advance([native EXCEPT !.at = "wait", !.wrapper = "running",
                               !.output = output, !.reply = reply])

StartWrapperFails == Reached("start") /\ Advance(Refuse(native))

\* The wrapper.
WrapperWrites ==
    /\ native.wrapper = "running"
    /\ native.written < native.output /\ native.written - native.read < PipeSize
    /\ Advance([native EXCEPT !.written = @ + 1])

WrapperEnds ==
    /\ native.wrapper = "running" /\ native.written = native.output
    /\ Advance([native EXCEPT !.wrapper = "ended"])

WrapperFails ==
    /\ native.wrapper = "running"
    /\ Advance([native EXCEPT !.wrapper = "failed"])

\* WaitForSingleObject with the configured limit.
WaitEnds ==
    /\ Reached("wait") /\ native.wrapper \in {"ended", "failed"}
    /\ Advance([native EXCEPT !.at = "read"])

\* Mutant of WaitTimesOut: the limit is not kept while the wrapper has output.
WaitTimesOutWhenDone ==
    /\ Reached("wait") /\ native.wrapper = "running" /\ native.written = native.output
    /\ Advance([native EXCEPT !.at = "kill", !.error = TRUE, !.obstacle = TRUE])

WaitTimesOut ==
    /\ Reached("wait") /\ native.wrapper = "running"
    /\ Advance([native EXCEPT !.at = "kill", !.error = TRUE, !.obstacle = TRUE])

WaitFails ==
    /\ Reached("wait")
    /\ Advance([native EXCEPT !.at = "read", !.error = TRUE, !.obstacle = TRUE])

\* TerminateProcess, and a second for it to work; the process may end before.
KillWrapper ==
    /\ Reached("kill")
    /\ Advance([native EXCEPT !.at = "read",
                              !.wrapper = IF @ = "running" THEN "killed" ELSE @])

\* ReadAllFromHandle: until nobody can write any more, and the pipe is empty.
ReadChunk ==
    /\ Reached("read") /\ native.read < native.written
    /\ Advance([native EXCEPT !.read = @ + 1])

ReadEnds ==
    /\ Reached("read") /\ native.read = native.written /\ native.wrapper # "running"
    /\ Advance([native EXCEPT !.at = "finish"])

ReadFails ==
    /\ Reached("read")
    /\ Advance([native EXCEPT !.at = "finish", !.error = TRUE, !.obstacle = TRUE])

\* Mutant of AnswerError: the exit code is not looked at.
AnswerErrorByReply(n, whole) == n.error \/ ~whole \/ ~n.reply.ok \/ n.reply.candidates = <<>>

AnswerError(n, whole) ==
    n.error \/ ~whole \/ ~n.reply.ok \/ n.wrapper # "ended" \/ n.reply.candidates = <<>>

\* Everything is closed and the file deleted; an object that was read counts,
\* even together with an error.
FinishNative ==
    /\ Reached("finish")
    /\ LET whole == native.read = native.output
       IN  Advance([native EXCEPT
                       !.at = "answered", !.file = FALSE, !.pipe = FALSE,
                       !.error = AnswerError(native, whole),
                       !.candidates = IF whole THEN native.reply.candidates ELSE <<>>,
                       !.segments = IF whole THEN BuildSequentialSegments(native.reply.surfaces)
                                    ELSE <<>>])

WrapperStep == WrapperWrites \/ WrapperEnds \/ WrapperFails

NativeStep ==
    \/ CreateReadingFile \/ CreateNativePipe \/ StartWrapper
    \/ WaitEnds \/ WaitTimesOut \/ KillWrapper
    \/ ReadChunk \/ ReadEnds \/ FinishNative

\* A system call fails.
NativeFault ==
    \/ CreateReadingFileFails \/ CreateNativePipeFails \/ StartWrapperFails
    \/ WaitFails \/ ReadFails

-----------------------------------------------------------------------------
\* Properties.

\* Whatever failed and whenever: a call that answered leaves neither its file
\* nor its end of the pipe behind.
NoFileLeft == Reached("answered") => ~native.file /\ ~native.pipe

\* The answer of the transport says how the wrapper fared: without an error it
\* is the whole answer of a wrapper that ended well; a wrapper that did, in
\* time, and had a candidate, is not answered with an error; and without a
\* candidate there is one.  It does not say that the user sees the error: the
\* provider drops it when there are candidates, those of a wrapper that wrote its
\* answer and then failed or had to be killed (MozcList in ConversionStack,
\* src/provider/mozc_conversion_provider.cpp:269).
AnswerIsTheWrappers ==
    Reached("answered") =>
        /\ ~native.error => /\ native.wrapper = "ended" /\ native.reply.ok /\ ~native.obstacle
                            /\ native.candidates = native.reply.candidates
        /\ native.wrapper = "ended" /\ native.reply.candidates # <<>> /\ ~native.obstacle =>
                ~native.error
        /\ native.candidates = <<>> => native.error

=============================================================================
