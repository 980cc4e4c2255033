----------------------------- MODULE InputMode -----------------------------
(***************************************************************************)
(* The kana mode of the text services of one user                          *)
(* (Ime3/rtas_text_service.h and .cpp).  Every service has a flag of its   *)
(* own, m_kanaMode, and mirrors it in two global TSF compartments that all *)
(* services write and are notified about: whether the keyboard is open,    *)
(* and the conversion mode.  They are written one after the other and read *)
(* one after the other, while other threads do the same.                   *)
(*                                                                         *)
(* One press of a mode key may reach a service twice, as OnKeyDown and as  *)
(* OnPreservedKey; a flag makes it count once.                             *)
(*                                                                         *)
(* Of the conversion mode only the NATIVE bit is kept.  The sentence mode, *)
(* which nobody listens to, and the toasts are left out.                   *)
(***************************************************************************)
EXTENDS Naturals, FiniteSets

CONSTANTS
    Services,       \* the text services, each on a thread of its own
    LateCallbacks,  \* the host may call OnPreservedKey after the key went up
    MaxPresses      \* bound on presses, clicks and writes by others

ASSUME ServicesAssumption == IsFiniteSet(Services)
ASSUME BoundsAssumption == LateCallbacks \in BOOLEAN /\ MaxPresses \in Nat

VARIABLES
    open, native,  \* the compartments: "unset", "yes" or "no" each
    active,        \* the services whose sinks are advised
    kana,          \* kana[s]: m_kanaMode
    draft,         \* the services with text in composition
    button,        \* button[s]: what the language bar shows ("none": no button)
    pc,            \* pc[s]: where its thread is inside a handler
    readOpen,      \* readOpen[s]: the value it has just read
    pending,       \* the services with a compartment notification to come
    suppressed,    \* m_suppressedKanaVKey, or NoKey without the flag
    host,          \* host[s]: what it makes of a press: "down", "preserved" or "both"
    held, shift,   \* the mode key that s sees pressed, and whether shift is
    companion,     \* the key whose OnPreservedKey is still to come to s
    handled,       \* history: how often the press was obeyed, until it is over
    presses        \* how often anybody changed the mode from outside

switches == <<host, held, shift, companion, handled, suppressed>>
modes == <<kana, draft, button>>
shared == <<open, native, pending>>
vars == <<open, native, active, kana, draft, button, pc, readOpen,
          pending, suppressed, host, held, shift, companion, handled, presses>>

NoKey == "no key"
Keys == {"hankaku", "hiragana", "eisu"}   \* a toggle, a force-on and a force-off key
Values == {"unset", "yes", "no"}
Bit(b) == IF b THEN "yes" ELSE "no"

TypeOK ==
    /\ open \in Values /\ native \in Values
    /\ active \subseteq Services /\ pending \subseteq active /\ draft \subseteq Services
    /\ kana \in [Services -> BOOLEAN]
    /\ button \in [Services -> {"none", "yes", "no"}]
    /\ pc \in [Services -> {"idle", "writeOpen", "writeNative", "read", "firstRead"}]
    /\ readOpen \in [Services -> Values]
    /\ suppressed \in [Services -> Keys \cup {NoKey}]
    /\ host \in [Services -> {"down", "preserved", "both"}]
    /\ held \in [Services -> Keys \cup {NoKey}] /\ shift \in [Services -> BOOLEAN]
    /\ companion \in [Services -> Keys \cup {NoKey}]
    /\ handled \in [Services -> Nat] /\ presses \in 0 .. MaxPresses

Init ==
    /\ open \in Values /\ native = open
    /\ active = {} /\ pending = {} /\ draft = {}
    /\ kana = [s \in Services |-> FALSE]
    /\ button = [s \in Services |-> "none"]
    /\ pc = [s \in Services |-> "idle"]
    /\ readOpen = [s \in Services |-> "unset"]
    /\ suppressed = [s \in Services |-> NoKey]
    /\ host \in [Services -> {"down", "preserved", "both"}]
    /\ held = [s \in Services |-> NoKey] /\ shift = [s \in Services |-> FALSE]
    /\ companion = [s \in Services |-> NoKey]
    /\ handled = [s \in Services |-> 0] /\ presses = 0

Idle(s) == s \in active /\ pc[s] = "idle"

-----------------------------------------------------------------------------
\* Setting the mode.

\* The mode after a command: ClassifyKanaKey for a key that was pressed,
\* CommandFromPreservedGuid for the GUID that stands for it.
Commanded(key, on) ==
    CASE key = "hankaku" -> ~on
      [] key = "hiragana" -> TRUE
      [] key = "eisu" -> FALSE

\* Mutant of SetKanaMode: what is being typed is left when the mode goes off.
SetKanaModeKeepsDraft(s, on) ==
    /\ kana' = [kana EXCEPT ![s] = on]
    /\ draft' = draft
    /\ button' = [button EXCEPT ![s] = IF @ = "none" THEN @ ELSE Bit(on)]

\* Turning the mode off commits what is being typed; the button follows.
SetKanaMode(s, on) ==
    /\ kana' = [kana EXCEPT ![s] = on]
    /\ draft' = IF kana[s] /\ ~on THEN draft \ {s} ELSE draft
    /\ button' = [button EXCEPT ![s] = IF @ = "none" THEN @ ELSE Bit(on)]

\* SetKanaMode with updateCompartments: the compartments are written next.
ApplyKanaModeCommand(s, key) ==
    /\ SetKanaMode(s, Commanded(key, kana[s]))
    /\ pc' = [pc EXCEPT ![s] = "writeOpen"]

-----------------------------------------------------------------------------
\* The compartments.

\* m_ignoreCompartmentNotifications, up from the first write to the last.
Ignoring(s) == pc[s] \in {"writeOpen", "writeNative"}

\* SyncKanaModeFromCompartments: the mode that the two values stand for.
Wanted(isOpen, isNative, on) ==
    IF isOpen = "unset" THEN on ELSE isOpen = "yes" /\ isNative # "no"

\* Mutant of Notify: the conversion compartment has no sink.
NotifyOpenOnly(s, changed) ==
    pending' = IF open' # open THEN pending \cup (active \ {s}) ELSE pending

\* Others are told of a change later, when their threads read messages.  The
\* writer is told inside SetValue, or later like the others.
Notify(s, changed) ==
    \/ pending' = IF changed THEN pending \cup (active \ {s}) ELSE pending
    \/ changed /\ pending' = pending \cup active

\* What OnChange inside SetValue does to the writer.
OwnNotice(s) ==
    IF Ignoring(s) THEN UNCHANGED modes
    ELSE SetKanaMode(s, Wanted(open', native', kana[s]))

\* UpdateSystemInputModeCompartments, the first SetValue ...
WriteOpen(s) ==
    /\ pc[s] = "writeOpen"
    /\ open' = Bit(kana[s])
    /\ UNCHANGED native
    /\ Notify(s, open' # open)
    /\ OwnNotice(s)
    /\ pc' = [pc EXCEPT ![s] = "writeNative"]
    /\ readOpen' = [readOpen EXCEPT ![s] = open']
    /\ UNCHANGED <<active, switches, presses>>

\* ... and the second, with the same value, after which notifications count again.
WriteNative(s) ==
    /\ pc[s] = "writeNative"
    /\ native' = readOpen[s]
    /\ UNCHANGED open
    /\ Notify(s, native' # native)
    /\ OwnNotice(s)
    /\ pc' = [pc EXCEPT ![s] = "idle"]
    /\ readOpen' = [readOpen EXCEPT ![s] = "unset"]
    /\ UNCHANGED <<active, switches, presses>>

\* OnChange: the message loop of the thread delivers what was notified.  The
\* two values are read one by one, so several notices are as good as the last.
OnChange(s) ==
    /\ Idle(s) /\ s \in pending
    /\ pending' = pending \ {s}
    /\ readOpen' = [readOpen EXCEPT ![s] = open]
    /\ pc' = [pc EXCEPT ![s] = "read"]
    /\ UNCHANGED <<open, native, active, modes, switches, presses>>

\* Mutant of SyncKanaModeFromCompartments: what was read is written back.
SyncAndWriteBack(s) ==
    /\ pc[s] \in {"read", "firstRead"}
    /\ SetKanaMode(s, Wanted(readOpen[s], native, kana[s]))
    /\ pc' = [pc EXCEPT ![s] = "writeOpen"]
    /\ readOpen' = [readOpen EXCEPT ![s] = "unset"]
    /\ UNCHANGED <<shared, active, switches, presses>>

\* The second value is read and the mode set, without writing anything back.
\* In Activate the button is registered next.
SyncKanaModeFromCompartments(s) ==
    /\ pc[s] \in {"read", "firstRead"}
    /\ LET on == Wanted(readOpen[s], native, kana[s])
       IN  \/ pc[s] = "read" /\ SetKanaMode(s, on)
           \/ /\ pc[s] = "firstRead"
              /\ kana' = [kana EXCEPT ![s] = on]
              /\ draft' = IF kana[s] /\ ~on THEN draft \ {s} ELSE draft
              /\ button' = [button EXCEPT ![s] = Bit(on)]
    /\ pc' = [pc EXCEPT ![s] = "idle"]
    /\ readOpen' = [readOpen EXCEPT ![s] = "unset"]
    /\ UNCHANGED <<shared, active, switches, presses>>

\* Another input method, or the application, sets one of the compartments.
OthersWrite ==
    /\ presses < MaxPresses /\ presses' = presses + 1
    /\ \/ open' \in {"yes", "no"} /\ native' = native
       \/ native' \in {"yes", "no"} /\ open' = open
    /\ pending' = IF <<open', native'>> = <<open, native>> THEN pending ELSE active
    /\ UNCHANGED <<active, modes, pc, readOpen, switches>>

-----------------------------------------------------------------------------
\* Activation.

\* The sinks are advised before the values are read for the first time.
Activate(s) ==
    /\ s \notin active
    /\ active' = active \cup {s}
    /\ readOpen' = [readOpen EXCEPT ![s] = open]
    /\ pc' = [pc EXCEPT ![s] = "firstRead"]
    /\ UNCHANGED <<shared, modes, switches, presses>>

\* The mode, the text in composition and the flag stay as they are.
Deactivate(s) ==
    /\ Idle(s) /\ held[s] = NoKey /\ companion[s] = NoKey
    /\ active' = active \ {s} /\ pending' = pending \ {s}
    /\ button' = [button EXCEPT ![s] = "none"]
    /\ UNCHANGED <<open, native, kana, draft, pc, readOpen, switches, presses>>

-----------------------------------------------------------------------------
\* Keys, clicks and typing.

\* Mutant of OnKeyDown: the key is not remembered.
OnKeyDownUnmarked(s, key, shifted) ==
    /\ handled' = [handled EXCEPT ![s] = 1]
    /\ suppressed' = suppressed
    /\ IF shifted /\ key = "hankaku"
       THEN UNCHANGED <<modes, pc>>
       ELSE ApplyKanaModeCommand(s, key)

\* Shift with a toggle key switches the kana-kanji-only mode (see LayerFlow) and
\* leaves the kana mode alone.  Either way the key is remembered, so that its
\* preserved event is ignored.
OnKeyDown(s, key, shifted) ==
    /\ handled' = [handled EXCEPT ![s] = 1]
    /\ suppressed' = [suppressed EXCEPT ![s] = key]
    /\ IF shifted /\ key = "hankaku"
       THEN UNCHANGED <<modes, pc>>
       ELSE ApplyKanaModeCommand(s, key)

\* A mode key goes down.  Holding it until it repeats is one more press.  Keys
\* are preserved without modifiers: a host that knows only preserved keys has
\* nothing to say of a shifted one.
Press(s, key, shifted) ==
    /\ Idle(s) /\ presses < MaxPresses /\ presses' = presses + 1
    /\ \A t \in Services : held[t] = NoKey \/ (t = s /\ held[s] = key)
    /\ companion[s] = NoKey
    /\ shifted => host[s] # "preserved"
    /\ held' = [held EXCEPT ![s] = key]
    /\ shift' = [shift EXCEPT ![s] = shifted]
    /\ companion' = [companion EXCEPT ![s] = IF host[s] = "down" THEN NoKey ELSE key]
    /\ IF host[s] # "preserved" THEN OnKeyDown(s, key, shifted)
       ELSE /\ handled' = [handled EXCEPT ![s] = 0]
            /\ UNCHANGED <<modes, pc, suppressed>>
    /\ UNCHANGED <<shared, active, readOpen, host>>

\* Shift with a toggle key is left to OnKeyDown.  A remembered key that is still
\* down makes the event one to ignore; one that is up was forgotten to be dropped.
OnPreservedKey(s) ==
    /\ Idle(s) /\ companion[s] # NoKey
    /\ LateCallbacks \/ held[s] = companion[s]
    /\ companion' = [companion EXCEPT ![s] = NoKey]
    /\ IF \/ shift[s] /\ companion[s] = "hankaku"
          \/ suppressed[s] # NoKey /\ suppressed[s] = held[s]
       THEN UNCHANGED <<modes, pc, handled, suppressed>>
       ELSE /\ ApplyKanaModeCommand(s, companion[s])
            /\ handled' = [handled EXCEPT ![s] = @ + 1]
            /\ suppressed' = [suppressed EXCEPT ![s] = NoKey]
    /\ UNCHANGED <<shared, active, readOpen, host, held, shift, presses>>

ReleaseShift(s) ==
    /\ Idle(s) /\ shift[s] /\ shift' = [shift EXCEPT ![s] = FALSE]
    /\ UNCHANGED <<shared, active, modes, pc, readOpen, host, held,
                   companion, handled, suppressed, presses>>

\* The key goes up; the host may keep OnKeyUp to itself.
OnKeyUp(s) ==
    /\ Idle(s) /\ held[s] # NoKey
    /\ LateCallbacks \/ companion[s] = NoKey
    /\ held' = [held EXCEPT ![s] = NoKey]
    /\ suppressed' \in {suppressed,
                        [suppressed EXCEPT ![s] = IF @ = held[s] THEN NoKey ELSE @]}
    /\ shift' = [shift EXCEPT ![s] = FALSE]
    /\ handled' = [handled EXCEPT ![s] = IF companion[s] = NoKey THEN 0 ELSE @]
    /\ UNCHANGED <<shared, active, modes, pc, readOpen, host, companion, presses>>

\* A click on the language bar toggles the mode, without a context.
OnClick(s) ==
    /\ Idle(s) /\ button[s] # "none"
    /\ presses < MaxPresses /\ presses' = presses + 1
    /\ SetKanaMode(s, ~kana[s])
    /\ pc' = [pc EXCEPT ![s] = "writeOpen"]
    /\ UNCHANGED <<shared, active, readOpen, switches>>

\* Letters are typed in kana mode; Enter, Escape or the host end the text.
Type(s) ==
    /\ Idle(s)
    /\ \/ kana[s] /\ s \notin draft /\ draft' = draft \cup {s}
       \/ s \in draft /\ draft' = draft \ {s}
    /\ UNCHANGED <<shared, active, kana, button, pc, readOpen, switches, presses>>

-----------------------------------------------------------------------------
Next ==
    \/ OthersWrite
    \/ \E s \in Services :
        \/ Activate(s) \/ Deactivate(s)
        \/ \E key \in Keys, shifted \in BOOLEAN : Press(s, key, shifted)
        \/ OnPreservedKey(s) \/ ReleaseShift(s) \/ OnKeyUp(s)
        \/ OnClick(s) \/ Type(s)
        \/ WriteOpen(s) \/ WriteNative(s)
        \/ OnChange(s) \/ SyncKanaModeFromCompartments(s)

\* A handler that began ends, and the message loops deliver notifications.
\* Nobody has to press, click, type or activate anything.
Fairness ==
    \A s \in Services :
        /\ WF_vars(WriteOpen(s)) /\ WF_vars(WriteNative(s))
        /\ WF_vars(OnChange(s)) /\ WF_vars(SyncKanaModeFromCompartments(s))

Spec == Init /\ [][Next]_vars /\ Fairness

-----------------------------------------------------------------------------
\* Properties.

\* s shows and has the mode that the compartments stand for.
Agrees(s) ==
    /\ open # "unset" => kana[s] = Wanted(open, native, kana[s])
    /\ button[s] = Bit(kana[s])

\* docs/requirements.md:7: the compartments and the mode match.  While nobody is
\* inside a handler, a service without a notification to come agrees with them,
\* however the writes and reads of the others were interleaved.
AgreesWhenQuiet ==
    (\A s \in active : pc[s] = "idle") => \A s \in active \ pending : Agrees(s)

\* With the mode off nothing is being typed, whoever turned it off and whatever
\* was deactivated in between.
OffMeansNothingTyped == \A s \in draft : kana[s]

\* A press is obeyed once, by OnKeyDown or by OnPreservedKey, although the host
\* may call both, let go of shift in between and swallow OnKeyUp.
PressObeyedOnce ==
    \A s \in Services :
        /\ handled[s] <= 1
        /\ held[s] # NoKey /\ companion[s] = NoKey => handled[s] = 1

\* docs/requirements.md:7: once nobody changes the mode any more all services
\* come to the mode of the compartments, and stay: they do not answer each other.
ModesConverge == <>[](\A s \in active : pc[s] # "firstRead" => Agrees(s))

=============================================================================
