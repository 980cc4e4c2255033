-------------------------- MODULE InputModeProofs --------------------------
(***************************************************************************)
(* The kana mode for any set of text services: every service agrees with   *)
(* the compartments once nobody is inside a handler, nothing is typed with *)
(* the mode off, and a press of a mode key is obeyed once.                 *)
(***************************************************************************)
EXTENDS InputMode, TLAPS

\* The button is registered at the end of Activate and follows the mode.
ButtonFollows(s) == pc[s] # "firstRead" => button[s] = Bit(kana[s])

\* A service that owes no notification knows the compartments as they are, as
\* far as it has read or written them: a write that changes one makes every
\* other service owe one, and a service takes its own off before it reads.
Knows(s) ==
    /\ pc[s] = "idle" /\ open # "unset" => kana[s] = Wanted(open, native, kana[s])
    /\ pc[s] = "writeNative" => open = readOpen[s] /\ open = Bit(kana[s])
    /\ pc[s] \in {"read", "firstRead"} => open = readOpen[s]

InStep == \A s \in active : ButtonFollows(s) /\ (s \notin pending => Knows(s))

\* While the preserved event of a press is to come, OnKeyDown has either obeyed
\* the press and remembered the key, or the host never called it.
PressInOrder(s) ==
    /\ host[s] = "preserved" => suppressed[s] = NoKey /\ ~shift[s]
    /\ companion[s] # NoKey =>
        /\ held[s] = companion[s]
        /\ handled[s] = IF host[s] = "preserved" THEN 0 ELSE 1
        /\ host[s] # "preserved" => suppressed[s] = held[s]
    /\ companion[s] = NoKey => handled[s] = IF held[s] = NoKey THEN 0 ELSE 1

IInv == TypeOK /\ OffMeansNothingTyped /\ InStep

-----------------------------------------------------------------------------
\* What a handler does to the mode.

ModeTypes ==
    /\ draft \subseteq Services /\ kana \in [Services -> BOOLEAN]
    /\ button \in [Services -> {"none", "yes", "no"}]
PcTypes == pc \in [Services -> {"idle", "writeOpen", "writeNative", "read", "firstRead"}]
CompartmentTypes ==
    /\ open \in Values /\ native \in Values
    /\ active \subseteq Services /\ pending \subseteq active
    /\ readOpen \in [Services -> Values]
SwitchTypes ==
    /\ suppressed \in [Services -> Keys \cup {NoKey}]
    /\ host \in [Services -> {"down", "preserved", "both"}]
    /\ held \in [Services -> Keys \cup {NoKey}] /\ shift \in [Services -> BOOLEAN]
    /\ companion \in [Services -> Keys \cup {NoKey}]
    /\ handled \in [Services -> Nat] /\ presses \in 0 .. MaxPresses

\* What is about the mode, without the books on keys and presses.
Good == ModeTypes /\ PcTypes /\ CompartmentTypes /\ OffMeansNothingTyped /\ InStep

\* Setting the mode of one service leaves the others alone, and what is typed
\* goes with the mode.
LEMMA ModeMoves ==
    ASSUME ModeTypes, OffMeansNothingTyped, NEW s \in Services, NEW on \in BOOLEAN,
           /\ kana' = [kana EXCEPT ![s] = on]
           /\ draft' = IF kana[s] /\ ~on THEN draft \ {s} ELSE draft,
           \E shows \in {"none", "yes", "no"} : button' = [button EXCEPT ![s] = shows]
    PROVE  /\ ModeTypes' /\ OffMeansNothingTyped'
           /\ kana'[s] = on
           /\ \A t \in Services : t # s => kana'[t] = kana[t] /\ button'[t] = button[t]
<1>1. ModeTypes'
  BY DEF ModeTypes
<1>2. /\ kana'[s] = on
      /\ \A t \in Services : t # s => kana'[t] = kana[t] /\ button'[t] = button[t]
  BY DEF ModeTypes
<1>3. ASSUME NEW t \in draft' PROVE kana'[t]
  <2>1. t \in draft /\ t \in Services /\ kana[t]
    BY <1>3 DEF ModeTypes, OffMeansNothingTyped
  <2>2. CASE t = s
    BY <1>2, <1>3, <2>1, <2>2
  <2>3. CASE t # s
    BY <1>2, <2>1, <2>3
  <2> QED BY <2>2, <2>3
<1> QED BY <1>1, <1>2, <1>3 DEF OffMeansNothingTyped

\* The button, where there is one, shows the mode that is set.
LEMMA SetMoves ==
    ASSUME ModeTypes, OffMeansNothingTyped, NEW s \in Services, NEW on \in BOOLEAN,
           SetKanaMode(s, on)
    PROVE  /\ ModeTypes' /\ OffMeansNothingTyped'
           /\ kana'[s] = on /\ (button[s] # "none" => button'[s] = Bit(on))
           /\ \A t \in Services : t # s => kana'[t] = kana[t] /\ button'[t] = button[t]
<1> DEFINE shows == IF button[s] = "none" THEN "none" ELSE Bit(on)
<1>1. shows \in {"none", "yes", "no"} /\ button' = [button EXCEPT ![s] = shows]
  BY DEF SetKanaMode, Bit
<1>2. button[s] # "none" => button'[s] = Bit(on)
  BY <1>1 DEF ModeTypes
<1>3. /\ kana' = [kana EXCEPT ![s] = on]
      /\ draft' = IF kana[s] /\ ~on THEN draft \ {s} ELSE draft
  BY DEF SetKanaMode
<1> HIDE DEF shows
<1> QED BY <1>1, <1>2, <1>3, ModeMoves

\* A command sets the mode and goes on to write the compartments, or is none.
Command(s) ==
    \/ UNCHANGED <<modes, pc>>
    \/ \E on \in BOOLEAN : SetKanaMode(s, on) /\ pc' = [pc EXCEPT ![s] = "writeOpen"]

LEMMA CommandedIsMode ==
    ASSUME TypeOK, NEW s \in Services, NEW key \in Keys
    PROVE  ApplyKanaModeCommand(s, key) => Command(s)
<1>1. Commanded(key, kana[s]) \in BOOLEAN
  BY DEF TypeOK, Commanded, Keys
<1> QED BY <1>1 DEF ApplyKanaModeCommand, Command

\* A press, a preserved key and a click change nothing else but the books on
\* keys and presses.
LEMMA CommandHandlers ==
    ASSUME TypeOK, NEW s \in Services,
           \/ \E key \in Keys, shifted \in BOOLEAN : Press(s, key, shifted)
           \/ OnPreservedKey(s)
           \/ OnClick(s)
    PROVE  Idle(s) /\ Command(s) /\ UNCHANGED <<shared, active, readOpen>>
<1>1. ASSUME NEW key \in Keys, NEW shifted \in BOOLEAN, Press(s, key, shifted)
      PROVE  Idle(s) /\ Command(s) /\ UNCHANGED <<shared, active, readOpen>>
  BY <1>1, CommandedIsMode DEF Press, OnKeyDown, Command
<1>2. ASSUME OnPreservedKey(s)
      PROVE  Idle(s) /\ Command(s) /\ UNCHANGED <<shared, active, readOpen>>
  <2>1. companion[s] \in Keys
    BY <1>2 DEF TypeOK, OnPreservedKey
  <2> QED BY <1>2, <2>1, CommandedIsMode DEF OnPreservedKey, Command
<1>3. ASSUME OnClick(s)
      PROVE  Idle(s) /\ Command(s) /\ UNCHANGED <<shared, active, readOpen>>
  <2>1. (~kana[s]) \in BOOLEAN
    OBVIOUS
  <2> QED BY <1>3, <2>1 DEF OnClick, Command
<1> QED BY <1>1, <1>2, <1>3

-----------------------------------------------------------------------------
\* What a step leaves alone.

\* A service that a step does not touch stays in step, if the compartments are
\* left alone or it owes a notification now.
LEMMA StaysInStep ==
    ASSUME InStep, NEW t \in active, t \in active',
           pc'[t] = pc[t], readOpen'[t] = readOpen[t], kana'[t] = kana[t], button'[t] = button[t],
           t \in pending' \/ (t \notin pending /\ UNCHANGED <<open, native>>)
    PROVE  ButtonFollows(t)' /\ (t \notin pending' => Knows(t)')
<1>1. ButtonFollows(t) /\ (t \notin pending => Knows(t))
  BY DEF InStep
<1>2. ButtonFollows(t)'
  BY <1>1 DEF ButtonFollows
<1>3. ASSUME t \notin pending' PROVE Knows(t)'
  BY <1>1, <1>3 DEF Knows
<1> QED BY <1>2, <1>3

\* A command keeps everybody in step.
LEMMA CommandStep ==
    ASSUME Good, NEW s \in Services, Idle(s), Command(s), UNCHANGED <<shared, active, readOpen>>
    PROVE  Good'
<1>1. ModeTypes /\ PcTypes /\ CompartmentTypes /\ OffMeansNothingTyped /\ InStep
  BY DEF Good
<1>2. CompartmentTypes'
  BY <1>1 DEF CompartmentTypes, shared
<1>3. CASE UNCHANGED <<modes, pc>>
  <2>1. ModeTypes' /\ PcTypes' /\ OffMeansNothingTyped'
    BY <1>1, <1>3 DEF ModeTypes, PcTypes, OffMeansNothingTyped, modes
  <2>2. InStep'
    BY <1>1, <1>3 DEF InStep, ButtonFollows, Knows, modes, shared
  <2> QED BY <1>1, <1>2, <2>1, <2>2 DEF Good
<1>4. ASSUME NEW on \in BOOLEAN, SetKanaMode(s, on), pc' = [pc EXCEPT ![s] = "writeOpen"]
      PROVE  ModeTypes' /\ PcTypes' /\ OffMeansNothingTyped' /\ InStep'
  <2>1. /\ ModeTypes' /\ OffMeansNothingTyped'
        /\ kana'[s] = on /\ (button[s] # "none" => button'[s] = Bit(on))
        /\ \A t \in Services : t # s => kana'[t] = kana[t] /\ button'[t] = button[t]
    BY <1>1, <1>4, SetMoves
  <2>2. PcTypes' /\ pc'[s] = "writeOpen" /\ \A t \in Services : t # s => pc'[t] = pc[t]
    BY <1>1, <1>4 DEF PcTypes
  <2>3. s \in active /\ button[s] # "none"
    BY <1>1 DEF Idle, InStep, ButtonFollows, Bit
  <2>4. ASSUME NEW t \in active'
        PROVE  ButtonFollows(t)' /\ (t \notin pending' => Knows(t)')
    <3>1. t \in active /\ t \in Services
      BY <1>1, <2>4 DEF CompartmentTypes
    <3>2. CASE t = s
      BY <2>1, <2>2, <2>3, <3>2 DEF ButtonFollows, Knows
    <3>3. CASE t # s
      <4>1. /\ pc'[t] = pc[t] /\ kana'[t] = kana[t] /\ button'[t] = button[t]
            /\ readOpen'[t] = readOpen[t] /\ UNCHANGED <<open, native, pending>>
        BY <2>1, <2>2, <3>1, <3>3 DEF shared
      <4> QED BY <1>1, <2>4, <3>1, <4>1, StaysInStep
    <3> QED BY <3>2, <3>3
  <2> QED BY <2>1, <2>2, <2>4 DEF InStep
<1> QED BY <1>2, <1>3, <1>4 DEF Command, Good

-----------------------------------------------------------------------------
\* The compartments are written and read in two steps each.

\* The writer knows its own value, the others owe a notification if it is new.
LEMMA WriteOpenStep ==
    ASSUME Good, NEW s \in Services, WriteOpen(s)
    PROVE  Good'
<1>1. /\ ModeTypes /\ PcTypes /\ CompartmentTypes /\ OffMeansNothingTyped /\ InStep
  BY DEF Good
<1>2. /\ pc[s] = "writeOpen" /\ open' = Bit(kana[s]) /\ native' = native
      /\ UNCHANGED modes /\ active' = active
      /\ pc' = [pc EXCEPT ![s] = "writeNative"] /\ readOpen' = [readOpen EXCEPT ![s] = open']
  BY DEF WriteOpen, OwnNotice, Ignoring
<1>3. /\ pending' \subseteq active
      /\ \A t \in active : t # s => t \in pending' \/ (t \notin pending /\ open' = open)
  BY <1>1 DEF WriteOpen, Notify, CompartmentTypes
<1>4. open' \in Values /\ kana' = kana /\ draft' = draft /\ button' = button
  BY <1>2 DEF Bit, Values, modes
<1>5. /\ PcTypes' /\ pc'[s] = "writeNative" /\ \A t \in Services : t # s => pc'[t] = pc[t]
      /\ readOpen' \in [Services -> Values] /\ readOpen'[s] = open'
      /\ \A t \in Services : t # s => readOpen'[t] = readOpen[t]
  BY <1>1, <1>2, <1>4 DEF PcTypes, CompartmentTypes
<1>6. ModeTypes' /\ OffMeansNothingTyped' /\ CompartmentTypes'
  BY <1>1, <1>2, <1>3, <1>4, <1>5 DEF ModeTypes, OffMeansNothingTyped, CompartmentTypes
<1>7. ASSUME NEW t \in active'
      PROVE  ButtonFollows(t)' /\ (t \notin pending' => Knows(t)')
  <2>1. t \in active /\ t \in Services
    BY <1>1, <1>2, <1>7 DEF CompartmentTypes
  <2>2. CASE t = s
    <3>1. ButtonFollows(t)
      BY <1>1, <2>1 DEF InStep
    <3> QED BY <1>2, <1>4, <1>5, <2>2, <3>1 DEF ButtonFollows, Knows
  <2>3. CASE t # s
    <3>1. t \in pending' \/ (t \notin pending /\ UNCHANGED <<open, native>>)
      BY <1>2, <1>3, <2>1, <2>3
    <3> QED BY <1>1, <1>4, <1>5, <1>7, <2>1, <2>3, <3>1, StaysInStep
  <2> QED BY <2>2, <2>3
<1> QED BY <1>5, <1>6, <1>7 DEF Good, InStep

\* If nobody changed the first compartment in between, the two now agree.
LEMMA WriteNativeStep ==
    ASSUME Good, NEW s \in Services, WriteNative(s)
    PROVE  Good'
<1>1. /\ ModeTypes /\ PcTypes /\ CompartmentTypes /\ OffMeansNothingTyped /\ InStep
  BY DEF Good
<1>2. /\ pc[s] = "writeNative" /\ open' = open /\ native' = readOpen[s]
      /\ UNCHANGED modes /\ active' = active
      /\ pc' = [pc EXCEPT ![s] = "idle"] /\ readOpen' = [readOpen EXCEPT ![s] = "unset"]
  BY DEF WriteNative, OwnNotice, Ignoring
<1>3. /\ pending' \subseteq active
      /\ \A t \in active : t # s => t \in pending' \/ (t \notin pending /\ native' = native)
      /\ pending \subseteq pending'
  BY <1>1 DEF WriteNative, Notify, CompartmentTypes
<1>4. native' \in Values /\ kana' = kana /\ draft' = draft /\ button' = button
  BY <1>1, <1>2 DEF CompartmentTypes, modes
<1>5. /\ PcTypes' /\ pc'[s] = "idle" /\ \A t \in Services : t # s => pc'[t] = pc[t]
      /\ readOpen' \in [Services -> Values]
      /\ \A t \in Services : t # s => readOpen'[t] = readOpen[t]
  BY <1>1, <1>2 DEF PcTypes, CompartmentTypes, Values
<1>6. ModeTypes' /\ OffMeansNothingTyped' /\ CompartmentTypes'
  BY <1>1, <1>2, <1>3, <1>4, <1>5 DEF ModeTypes, OffMeansNothingTyped, CompartmentTypes
<1>7. ASSUME NEW t \in active'
      PROVE  ButtonFollows(t)' /\ (t \notin pending' => Knows(t)')
  <2>1. t \in active /\ t \in Services
    BY <1>1, <1>2, <1>7 DEF CompartmentTypes
  <2>2. CASE t = s
    <3>1. ButtonFollows(t) /\ (t \notin pending => Knows(t))
      BY <1>1, <2>1 DEF InStep
    <3>2. ButtonFollows(t)'
      BY <1>2, <1>4, <2>2, <3>1 DEF ButtonFollows
    <3>3. ASSUME t \notin pending' PROVE Knows(t)'
      <4>1. open = Bit(kana[t]) /\ native' = Bit(kana[t]) /\ kana[t] \in BOOLEAN
        BY <1>1, <1>2, <1>3, <2>1, <2>2, <3>1, <3>3 DEF Knows, ModeTypes
      <4> QED BY <1>2, <1>4, <1>5, <2>2, <4>1 DEF Knows, Wanted, Bit
    <3> QED BY <3>2, <3>3
  <2>3. CASE t # s
    <3>1. t \in pending' \/ (t \notin pending /\ UNCHANGED <<open, native>>)
      BY <1>2, <1>3, <2>1, <2>3
    <3> QED BY <1>1, <1>4, <1>5, <1>7, <2>1, <2>3, <3>1, StaysInStep
  <2> QED BY <2>2, <2>3
<1> QED BY <1>5, <1>6, <1>7 DEF Good, InStep

\* A service that begins to read, in Activate or for a notification, knows the
\* first compartment.
LEMMA ReadStep ==
    ASSUME Good, NEW s \in Services, Activate(s) \/ OnChange(s)
    PROVE  Good'
<1>1. /\ ModeTypes /\ PcTypes /\ CompartmentTypes /\ OffMeansNothingTyped /\ InStep
  BY DEF Good
<1>2. /\ UNCHANGED <<open, native, modes>>
      /\ active' = active \cup {s} /\ pending' \in {pending, pending \ {s}}
      /\ readOpen' = [readOpen EXCEPT ![s] = open]
      /\ \/ pc' = [pc EXCEPT ![s] = "firstRead"]
         \/ pc' = [pc EXCEPT ![s] = "read"] /\ s \in active /\ pc[s] = "idle"
  BY <1>1 DEF Activate, OnChange, Idle, shared
<1>3. kana' = kana /\ draft' = draft /\ button' = button
  BY <1>2 DEF modes
<1>4. /\ PcTypes' /\ pc'[s] \in {"read", "firstRead"}
      /\ pc'[s] = "read" => s \in active /\ pc[s] = "idle"
      /\ \A t \in Services : t # s => pc'[t] = pc[t]
      /\ readOpen' \in [Services -> Values] /\ readOpen'[s] = open
      /\ \A t \in Services : t # s => readOpen'[t] = readOpen[t]
  BY <1>1, <1>2 DEF PcTypes, CompartmentTypes
<1>5. ModeTypes' /\ OffMeansNothingTyped' /\ CompartmentTypes'
  BY <1>1, <1>2, <1>3, <1>4 DEF ModeTypes, OffMeansNothingTyped, CompartmentTypes
<1>6. ASSUME NEW t \in active'
      PROVE  ButtonFollows(t)' /\ (t \notin pending' => Knows(t)')
  <2>1. CASE t = s
    <3>1. pc'[s] = "read" => ButtonFollows(s)
      BY <1>1, <1>4 DEF InStep
    <3>2. ButtonFollows(s)'
      BY <1>3, <1>4, <3>1 DEF ButtonFollows
    <3>3. Knows(s)'
      BY <1>2, <1>4 DEF Knows
    <3> QED BY <2>1, <3>2, <3>3
  <2>2. CASE t # s
    <3>1. t \in active /\ t \in Services
      BY <1>1, <1>2, <1>6, <2>2 DEF CompartmentTypes
    <3>2. t \in pending' \/ (t \notin pending /\ UNCHANGED <<open, native>>)
      BY <1>2, <2>2
    <3> QED BY <1>1, <1>3, <1>4, <1>6, <2>2, <3>1, <3>2, StaysInStep
  <2> QED BY <2>1, <2>2
<1> QED BY <1>4, <1>5, <1>6 DEF Good, InStep

\* A service that ends its reading has the mode that the compartments stand for,
\* unless one of them changed in between: then it owes a notification.
LEMMA SyncStep ==
    ASSUME Good, NEW s \in Services, SyncKanaModeFromCompartments(s)
    PROVE  Good'
<1> DEFINE on == Wanted(readOpen[s], native, kana[s])
<1>1. /\ ModeTypes /\ PcTypes /\ CompartmentTypes /\ OffMeansNothingTyped /\ InStep
  BY DEF Good
<1>2. /\ pc[s] \in {"read", "firstRead"}
      /\ \/ pc[s] = "read" /\ SetKanaMode(s, on)
         \/ /\ pc[s] = "firstRead"
            /\ kana' = [kana EXCEPT ![s] = on]
            /\ draft' = IF kana[s] /\ ~on THEN draft \ {s} ELSE draft
            /\ button' = [button EXCEPT ![s] = Bit(on)]
      /\ pc' = [pc EXCEPT ![s] = "idle"] /\ readOpen' = [readOpen EXCEPT ![s] = "unset"]
      /\ UNCHANGED <<open, native, pending, active>>
  BY DEF SyncKanaModeFromCompartments, shared
<1>3. on \in BOOLEAN
  BY <1>1 DEF Wanted, ModeTypes
<1>4. Bit(on) \in {"none", "yes", "no"} /\ Bit(on) # "none"
  BY DEF Bit
<1> HIDE DEF on
<1>5. /\ ModeTypes' /\ OffMeansNothingTyped' /\ kana'[s] = on
      /\ s \in active => button'[s] = Bit(on)
      /\ \A t \in Services : t # s => kana'[t] = kana[t] /\ button'[t] = button[t]
  <2>1. CASE pc[s] = "read" /\ SetKanaMode(s, on)
    <3>1. s \in active => button[s] # "none"
      BY <1>1, <2>1 DEF InStep, ButtonFollows, Bit
    <3> QED BY <1>1, <1>3, <2>1, <3>1, SetMoves
  <2>2. CASE /\ pc[s] = "firstRead"
             /\ kana' = [kana EXCEPT ![s] = on]
             /\ draft' = IF kana[s] /\ ~on THEN draft \ {s} ELSE draft
             /\ button' = [button EXCEPT ![s] = Bit(on)]
    <3>1. /\ ModeTypes' /\ OffMeansNothingTyped' /\ kana'[s] = on
          /\ \A t \in Services : t # s => kana'[t] = kana[t] /\ button'[t] = button[t]
      BY <1>1, <1>3, <1>4, <2>2, ModeMoves
    <3>2. button'[s] = Bit(on)
      BY <1>1, <2>2 DEF ModeTypes
    <3> QED BY <3>1, <3>2
  <2> QED BY <1>2, <2>1, <2>2
<1>6. /\ PcTypes' /\ pc'[s] = "idle" /\ \A t \in Services : t # s => pc'[t] = pc[t]
      /\ readOpen' \in [Services -> Values]
      /\ \A t \in Services : t # s => readOpen'[t] = readOpen[t]
  BY <1>1, <1>2 DEF PcTypes, CompartmentTypes, Values
<1>7. CompartmentTypes'
  BY <1>1, <1>2, <1>6 DEF CompartmentTypes
<1>8. ASSUME NEW t \in active'
      PROVE  ButtonFollows(t)' /\ (t \notin pending' => Knows(t)')
  <2>1. t \in active /\ t \in Services
    BY <1>1, <1>2, <1>8 DEF CompartmentTypes
  <2>2. CASE t = s
    <3>1. ButtonFollows(t)'
      BY <1>5, <2>1, <2>2 DEF ButtonFollows
    <3>2. ASSUME t \notin pending' PROVE Knows(t)'
      <4>1. open = readOpen[s]
        BY <1>1, <1>2, <2>1, <2>2, <3>2 DEF InStep, Knows
      <4>2. open # "unset" => on = Wanted(open, native, on)
        BY <4>1 DEF on, Wanted
      <4> QED BY <1>2, <1>5, <1>6, <2>2, <4>2 DEF Knows
    <3> QED BY <3>1, <3>2
  <2>3. CASE t # s
    <3>1. t \in pending' \/ (t \notin pending /\ UNCHANGED <<open, native>>)
      BY <1>2
    <3> QED BY <1>1, <1>5, <1>6, <1>8, <2>1, <2>3, <3>1, StaysInStep
  <2> QED BY <2>2, <2>3
<1> QED BY <1>5, <1>6, <1>7, <1>8 DEF Good, InStep

-----------------------------------------------------------------------------
\* Everything else.

\* A write from outside makes every service owe a notification; a service that
\* is deactivated owes none.
LEMMA OutsideStep ==
    ASSUME Good, OthersWrite \/ \E s \in Services : Deactivate(s) \/ Type(s)
    PROVE  Good'
<1>1. /\ ModeTypes /\ PcTypes /\ CompartmentTypes /\ OffMeansNothingTyped /\ InStep
  BY DEF Good
<1>2. CASE OthersWrite
  <2>1. /\ open' \in Values /\ native' \in Values
        /\ pending' = active \/ (pending' = pending /\ open' = open /\ native' = native)
        /\ active' = active /\ pc' = pc /\ readOpen' = readOpen
        /\ kana' = kana /\ draft' = draft /\ button' = button
    BY <1>1, <1>2 DEF OthersWrite, CompartmentTypes, Values, modes
  <2>2. ModeTypes' /\ PcTypes' /\ CompartmentTypes' /\ OffMeansNothingTyped'
    BY <1>1, <2>1 DEF ModeTypes, PcTypes, CompartmentTypes, OffMeansNothingTyped
  <2>3. ASSUME NEW t \in active'
        PROVE  ButtonFollows(t)' /\ (t \notin pending' => Knows(t)')
    <3>1. t \in active /\ (t \in pending' \/ (t \notin pending /\ UNCHANGED <<open, native>>))
      BY <1>1, <2>1, <2>3 DEF CompartmentTypes
    <3>2. CASE t \in pending' \/ t \notin pending
      BY <1>1, <2>1, <2>3, <3>1, StaysInStep
    <3> QED BY <3>1, <3>2
  <2> QED BY <2>2, <2>3 DEF Good, InStep
<1>3. ASSUME NEW s \in Services, Deactivate(s) PROVE Good'
  <2>1. /\ UNCHANGED <<open, native, kana, draft, pc, readOpen>>
        /\ active' = active \ {s} /\ pending' = pending \ {s}
        /\ button' = [button EXCEPT ![s] = "none"]
    BY <1>3 DEF Deactivate
  <2>2. /\ button' \in [Services -> {"none", "yes", "no"}]
        /\ \A t \in Services : t # s => button'[t] = button[t]
    BY <1>1, <2>1 DEF ModeTypes
  <2>3. ModeTypes' /\ PcTypes' /\ CompartmentTypes' /\ OffMeansNothingTyped'
    BY <1>1, <2>1, <2>2 DEF ModeTypes, PcTypes, CompartmentTypes, OffMeansNothingTyped
  <2>4. ASSUME NEW t \in active'
        PROVE  ButtonFollows(t)' /\ (t \notin pending' => Knows(t)')
    <3>1. t \in active /\ t \in Services /\ t # s
      BY <1>1, <2>1, <2>4 DEF CompartmentTypes
    <3>2. t \in pending' \/ (t \notin pending /\ UNCHANGED <<open, native>>)
      BY <2>1, <3>1
    <3> QED BY <1>1, <2>1, <2>2, <2>4, <3>1, <3>2, StaysInStep
  <2> QED BY <2>3, <2>4 DEF Good, InStep
<1>4. ASSUME NEW s \in Services, Type(s) PROVE Good'
  <2>1. /\ UNCHANGED <<open, native, pending, active, kana, button, pc, readOpen>>
        /\ \/ kana[s] /\ draft' = draft \cup {s}
           \/ draft' = draft \ {s}
    BY <1>4 DEF Type, shared
  <2>2. ModeTypes' /\ PcTypes' /\ CompartmentTypes' /\ OffMeansNothingTyped'
    BY <1>1, <2>1 DEF ModeTypes, PcTypes, CompartmentTypes, OffMeansNothingTyped
  <2>3. InStep'
    BY <1>1, <2>1 DEF InStep, ButtonFollows, Knows
  <2> QED BY <2>2, <2>3 DEF Good
<1> QED BY <1>2, <1>3, <1>4

\* A step that is about neither the mode nor the compartments.
LEMMA BookStep ==
    ASSUME Good, UNCHANGED <<shared, active, modes, pc, readOpen>>
    PROVE  Good'
BY DEF Good, ModeTypes, PcTypes, CompartmentTypes, OffMeansNothingTyped, InStep,
       ButtonFollows, Knows, shared, modes

-----------------------------------------------------------------------------
\* The books on keys and presses.

LEMMA TypeParts == TypeOK <=> ModeTypes /\ PcTypes /\ CompartmentTypes /\ SwitchTypes
BY DEF TypeOK, ModeTypes, PcTypes, CompartmentTypes, SwitchTypes

LEMMA GoodParts == IInv <=> Good /\ SwitchTypes
BY TypeParts DEF IInv, Good

\* Only a key that goes down or up, and its preserved event, touch the books.
LEMMA UnswitchedStep ==
    ASSUME OthersWrite \/ \E s \in Services :
               \/ Activate(s) \/ Deactivate(s) \/ OnClick(s) \/ Type(s)
               \/ WriteOpen(s) \/ WriteNative(s)
               \/ OnChange(s) \/ SyncKanaModeFromCompartments(s)
    PROVE  switches' = switches /\ (presses' = presses \/ (presses < MaxPresses /\ presses' = presses + 1))
<1>1. CASE OthersWrite
  BY <1>1 DEF OthersWrite
<1>2. ASSUME NEW s \in Services, Activate(s) \/ Deactivate(s) \/ Type(s)
      PROVE  switches' = switches /\ presses' = presses
  BY <1>2 DEF Activate, Deactivate, Type
<1>3. ASSUME NEW s \in Services, OnClick(s)
      PROVE  switches' = switches /\ presses < MaxPresses /\ presses' = presses + 1
  BY <1>3 DEF OnClick
<1>4. ASSUME NEW s \in Services, \/ WriteOpen(s) \/ WriteNative(s)
                                 \/ OnChange(s) \/ SyncKanaModeFromCompartments(s)
      PROVE  switches' = switches /\ presses' = presses
  BY <1>4 DEF WriteOpen, WriteNative, OnChange, SyncKanaModeFromCompartments
<1> QED BY <1>1, <1>2, <1>3, <1>4

\* What a key that goes down or up leaves in the books.
LEMMA SwitchStep ==
    ASSUME SwitchTypes, NEW s \in Services,
           \/ \E key \in Keys, shifted \in BOOLEAN : Press(s, key, shifted)
           \/ OnPreservedKey(s) \/ ReleaseShift(s) \/ OnKeyUp(s)
    PROVE  SwitchTypes'
<1>1. ASSUME NEW key \in Keys, NEW shifted \in BOOLEAN, Press(s, key, shifted)
      PROVE  SwitchTypes'
  <2>1. presses' \in 0 .. MaxPresses /\ host' = host
    BY <1>1, BoundsAssumption DEF Press, SwitchTypes
  <2>2. held' = [held EXCEPT ![s] = key] /\ shift' = [shift EXCEPT ![s] = shifted]
    BY <1>1 DEF Press
  <2>3. \E c \in {NoKey, key} : companion' = [companion EXCEPT ![s] = c]
    BY <1>1 DEF Press
  <2>4. /\ suppressed' = suppressed \/ suppressed' = [suppressed EXCEPT ![s] = key]
        /\ \E n \in {0, 1} : handled' = [handled EXCEPT ![s] = n]
    BY <1>1 DEF Press, OnKeyDown
  <2> QED BY <2>1, <2>2, <2>3, <2>4 DEF SwitchTypes
<1>2. CASE OnPreservedKey(s)
  <2>1. UNCHANGED <<host, held, shift, presses>> /\ companion' = [companion EXCEPT ![s] = NoKey]
    BY <1>2 DEF OnPreservedKey
  <2>2. /\ suppressed' = suppressed \/ suppressed' = [suppressed EXCEPT ![s] = NoKey]
        /\ handled' = handled \/ handled' = [handled EXCEPT ![s] = handled[s] + 1]
    BY <1>2 DEF OnPreservedKey
  <2> QED BY <2>1, <2>2 DEF SwitchTypes
<1>3. CASE ReleaseShift(s)
  BY <1>3 DEF ReleaseShift, SwitchTypes
<1>4. CASE OnKeyUp(s)
  <2>1. /\ UNCHANGED <<host, companion, presses>>
        /\ held' = [held EXCEPT ![s] = NoKey] /\ shift' = [shift EXCEPT ![s] = FALSE]
    BY <1>4 DEF OnKeyUp
  <2>2. /\ suppressed' = suppressed \/ \E k \in {NoKey, suppressed[s]} : suppressed' = [suppressed EXCEPT ![s] = k]
        /\ \E n \in {0, handled[s]} : handled' = [handled EXCEPT ![s] = n]
    BY <1>4 DEF OnKeyUp
  <2> QED BY <2>1, <2>2 DEF SwitchTypes
<1> QED BY <1>1, <1>2, <1>3, <1>4

-----------------------------------------------------------------------------
\* The inductive invariant.

LEMMA InitHolds == Init => IInv
<1> SUFFICES ASSUME Init PROVE Good /\ SwitchTypes
  BY GoodParts
<1>1. ModeTypes /\ PcTypes /\ CompartmentTypes
  BY DEF Init, ModeTypes, PcTypes, CompartmentTypes, Values
<1>2. OffMeansNothingTyped /\ InStep
  BY DEF Init, OffMeansNothingTyped, InStep
<1>3. SwitchTypes
  BY BoundsAssumption DEF Init, SwitchTypes
<1> QED BY <1>1, <1>2, <1>3 DEF Good

LEMMA StepHolds == IInv /\ [Next]_vars => IInv'
<1> SUFFICES ASSUME IInv, [Next]_vars PROVE Good' /\ SwitchTypes'
  BY DEF IInv, Good, TypeOK, ModeTypes, PcTypes, CompartmentTypes, SwitchTypes
<1>1. Good /\ SwitchTypes /\ TypeOK
  BY GoodParts DEF IInv
<1>2. CASE UNCHANGED vars
  <2>1. Good'
    BY <1>1, <1>2, BookStep DEF vars, shared, modes
  <2>2. SwitchTypes'
    BY <1>1, <1>2 DEF vars, SwitchTypes
  <2> QED BY <2>1, <2>2
<1>3. ASSUME switches' = switches,
             presses' = presses \/ (presses < MaxPresses /\ presses' = presses + 1)
      PROVE  SwitchTypes'
  BY <1>1, <1>3, BoundsAssumption DEF SwitchTypes, switches
<1>4. CASE OthersWrite
  BY <1>1, <1>3, <1>4, OutsideStep, UnswitchedStep
<1>5. ASSUME NEW s \in Services,
             \/ Activate(s) \/ Deactivate(s) \/ OnClick(s) \/ Type(s)
             \/ WriteOpen(s) \/ WriteNative(s)
             \/ OnChange(s) \/ SyncKanaModeFromCompartments(s)
      PROVE  Good' /\ SwitchTypes'
  <2>1. SwitchTypes'
    BY <1>3, <1>5, UnswitchedStep
  <2>2. CASE Deactivate(s) \/ Type(s)
    BY <1>1, <2>1, <2>2, OutsideStep
  <2>3. CASE OnClick(s)
    BY <1>1, <2>1, <2>3, CommandHandlers, CommandStep
  <2>4. CASE Activate(s) \/ OnChange(s)
    BY <1>1, <2>1, <2>4, ReadStep
  <2>5. CASE WriteOpen(s)
    BY <1>1, <2>1, <2>5, WriteOpenStep
  <2>6. CASE WriteNative(s)
    BY <1>1, <2>1, <2>6, WriteNativeStep
  <2>7. CASE SyncKanaModeFromCompartments(s)
    BY <1>1, <2>1, <2>7, SyncStep
  <2> QED BY <1>5, <2>2, <2>3, <2>4, <2>5, <2>6, <2>7
<1>6. ASSUME NEW s \in Services, \E key \in Keys, shifted \in BOOLEAN : Press(s, key, shifted)
      PROVE  Good' /\ SwitchTypes'
  BY <1>1, <1>6, CommandHandlers, CommandStep, SwitchStep
<1>7. ASSUME NEW s \in Services, OnPreservedKey(s)
      PROVE  Good' /\ SwitchTypes'
  BY <1>1, <1>7, CommandHandlers, CommandStep, SwitchStep
<1>8. ASSUME NEW s \in Services, ReleaseShift(s) \/ OnKeyUp(s)
      PROVE  Good' /\ SwitchTypes'
  <2>1. UNCHANGED <<shared, active, modes, pc, readOpen>>
    BY <1>8 DEF ReleaseShift, OnKeyUp
  <2> QED BY <1>1, <1>8, <2>1, BookStep, SwitchStep
<1> QED BY <1>2, <1>4, <1>5, <1>6, <1>7, <1>8 DEF Next

LEMMA Invariance == Spec => []IInv
<1> QED BY InitHolds, StepHolds, PTL DEF Spec

\* Every variable has its type; a notification is owed only by an active service.
THEOREM TypeCorrect == Spec => []TypeOK
<1>1. IInv => TypeOK
  BY DEF IInv
<1> QED BY <1>1, Invariance, PTL

\* With the mode off nothing is being typed (SetKanaMode commits it), for any
\* number of services and whoever turned the mode off.
THEOREM OffCommitsTheDraft == Spec => []OffMeansNothingTyped
<1>1. IInv => OffMeansNothingTyped
  BY DEF IInv
<1> QED BY <1>1, Invariance, PTL

\* While no active service is inside a handler, one that owes no notification has
\* and shows the mode of the compartments, for any number of services that
\* write and read them in two steps each.
THEOREM QuietServicesAgree == Spec => []AgreesWhenQuiet
<1>1. IInv => AgreesWhenQuiet
  <2> SUFFICES ASSUME IInv, \A s \in active : pc[s] = "idle", NEW s \in active \ pending
               PROVE  Agrees(s)
    BY DEF AgreesWhenQuiet
  <2>1. ButtonFollows(s) /\ Knows(s) /\ pc[s] = "idle"
    BY DEF IInv, InStep
  <2> QED BY <2>1 DEF ButtonFollows, Knows, Agrees
<1> QED BY <1>1, Invariance, PTL

-----------------------------------------------------------------------------
\* A press counts once.

Ordered == \A s \in Services : PressInOrder(s)

\* The step of one service leaves the books of the others alone.
LEMMA OrderedStep ==
    ASSUME ~LateCallbacks, IInv, Ordered, [Next]_vars
    PROVE  Ordered'
<1>1. SwitchTypes
  BY GoodParts
<1>2. CASE switches' = switches
  BY <1>2 DEF Ordered, PressInOrder, switches
<1>3. ASSUME NEW s \in Services, PressInOrder(s)',
             \A t \in Services : t # s =>
                /\ host'[t] = host[t] /\ suppressed'[t] = suppressed[t]
                /\ held'[t] = held[t] /\ shift'[t] = shift[t]
                /\ companion'[t] = companion[t] /\ handled'[t] = handled[t]
      PROVE  Ordered'
  <2>1. ASSUME NEW t \in Services, t # s PROVE PressInOrder(t)'
    <3>1. PressInOrder(t)
      BY DEF Ordered
    <3> QED BY <1>3, <2>1, <3>1 DEF PressInOrder
  <2> QED BY <1>3, <2>1 DEF Ordered
<1>4. ASSUME NEW s \in Services, NEW key \in Keys, NEW shifted \in BOOLEAN, Press(s, key, shifted)
      PROVE  Ordered'
  <2>1. /\ host' = host
        /\ held' = [held EXCEPT ![s] = key] /\ shift' = [shift EXCEPT ![s] = shifted]
        /\ companion' = [companion EXCEPT ![s] = IF host[s] = "down" THEN NoKey ELSE key]
        /\ shifted => host[s] # "preserved"
    BY <1>4 DEF Press
  <2>2. \/ /\ host[s] # "preserved"
           /\ handled' = [handled EXCEPT ![s] = 1] /\ suppressed' = [suppressed EXCEPT ![s] = key]
        \/ /\ host[s] = "preserved"
           /\ handled' = [handled EXCEPT ![s] = 0] /\ suppressed' = suppressed
    BY <1>4 DEF Press, OnKeyDown
  <2>3. key # NoKey /\ host[s] \in {"down", "preserved", "both"}
    BY <1>1 DEF Keys, NoKey, SwitchTypes
  <2>4. PressInOrder(s)
    BY DEF Ordered
  <2>5. /\ held'[s] = key /\ shift'[s] = shifted
        /\ companion'[s] = IF host[s] = "down" THEN NoKey ELSE key
        /\ host[s] # "preserved" => handled'[s] = 1 /\ suppressed'[s] = key
        /\ host[s] = "preserved" => handled'[s] = 0 /\ suppressed'[s] = suppressed[s]
    BY <1>1, <2>1, <2>2 DEF SwitchTypes
  <2>6. PressInOrder(s)'
    BY <2>1, <2>3, <2>4, <2>5 DEF PressInOrder
  <2>7. \A t \in Services : t # s =>
                /\ host'[t] = host[t] /\ suppressed'[t] = suppressed[t]
                /\ held'[t] = held[t] /\ shift'[t] = shift[t]
                /\ companion'[t] = companion[t] /\ handled'[t] = handled[t]
    BY <1>1, <2>1, <2>2 DEF SwitchTypes
  <2> QED BY <1>3, <2>6, <2>7
<1>5. ASSUME NEW s \in Services, OnPreservedKey(s) PROVE Ordered'
  <2>1. /\ UNCHANGED <<host, held, shift>> /\ companion' = [companion EXCEPT ![s] = NoKey]
        /\ companion[s] # NoKey /\ held[s] = companion[s]
    BY <1>5 DEF OnPreservedKey
  <2>2. \/ /\ (shift[s] /\ companion[s] = "hankaku") \/ (suppressed[s] # NoKey /\ suppressed[s] = held[s])
           /\ handled' = handled /\ suppressed' = suppressed
        \/ /\ ~(suppressed[s] # NoKey /\ suppressed[s] = held[s])
           /\ handled' = [handled EXCEPT ![s] = handled[s] + 1]
           /\ suppressed' = [suppressed EXCEPT ![s] = NoKey]
    BY <1>5 DEF OnPreservedKey
  <2>3. PressInOrder(s)
    BY DEF Ordered
  <2>4. /\ companion'[s] = NoKey
        /\ \/ /\ (shift[s] /\ companion[s] = "hankaku") \/ (suppressed[s] # NoKey /\ suppressed[s] = held[s])
              /\ handled'[s] = handled[s] /\ suppressed'[s] = suppressed[s]
           \/ /\ ~(suppressed[s] # NoKey /\ suppressed[s] = held[s])
              /\ handled'[s] = handled[s] + 1 /\ suppressed'[s] = NoKey
    BY <1>1, <2>1, <2>2 DEF SwitchTypes
  <2>5. PressInOrder(s)'
    BY <2>1, <2>3, <2>4 DEF PressInOrder
  <2>6. \A t \in Services : t # s =>
                /\ host'[t] = host[t] /\ suppressed'[t] = suppressed[t]
                /\ held'[t] = held[t] /\ shift'[t] = shift[t]
                /\ companion'[t] = companion[t] /\ handled'[t] = handled[t]
    BY <1>1, <2>1, <2>2 DEF SwitchTypes
  <2> QED BY <1>3, <2>5, <2>6
<1>6. ASSUME NEW s \in Services, ReleaseShift(s) PROVE Ordered'
  <2>1. /\ UNCHANGED <<host, held, companion, handled, suppressed>>
        /\ shift' = [shift EXCEPT ![s] = FALSE]
    BY <1>6 DEF ReleaseShift
  <2>2. shift'[s] = FALSE /\ \A t \in Services : t # s => shift'[t] = shift[t]
    BY <1>1, <2>1 DEF SwitchTypes
  <2>3. PressInOrder(s)
    BY DEF Ordered
  <2>4. PressInOrder(s)'
    BY <2>1, <2>2, <2>3 DEF PressInOrder
  <2> QED BY <1>3, <2>1, <2>2, <2>4
<1>7. ASSUME NEW s \in Services, OnKeyUp(s) PROVE Ordered'
  <2>1. /\ UNCHANGED <<host, companion>> /\ companion[s] = NoKey
        /\ held' = [held EXCEPT ![s] = NoKey] /\ shift' = [shift EXCEPT ![s] = FALSE]
        /\ handled' = [handled EXCEPT ![s] = 0]
    BY <1>7 DEF OnKeyUp
  <2>2. suppressed' = suppressed \/ \E k \in {NoKey, suppressed[s]} : suppressed' = [suppressed EXCEPT ![s] = k]
    BY <1>7 DEF OnKeyUp
  <2>3. /\ held'[s] = NoKey /\ shift'[s] = FALSE /\ handled'[s] = 0
        /\ suppressed'[s] \in {NoKey, suppressed[s]}
    BY <1>1, <2>1, <2>2 DEF SwitchTypes
  <2>4. PressInOrder(s)
    BY DEF Ordered
  <2>5. PressInOrder(s)'
    BY <2>1, <2>3, <2>4 DEF PressInOrder
  <2>6. \A t \in Services : t # s =>
                /\ host'[t] = host[t] /\ suppressed'[t] = suppressed[t]
                /\ held'[t] = held[t] /\ shift'[t] = shift[t]
                /\ companion'[t] = companion[t] /\ handled'[t] = handled[t]
    BY <1>1, <2>1, <2>2 DEF SwitchTypes
  <2> QED BY <1>3, <2>5, <2>6
<1>8. UNCHANGED vars => switches' = switches
  BY DEF vars, switches
<1> QED BY <1>2, <1>4, <1>5, <1>6, <1>7, <1>8, UnswitchedStep DEF Next

\* Where the host calls OnPreservedKey before the key goes up, a press of a mode
\* key is obeyed once, by OnKeyDown or by OnPreservedKey, whether the host calls
\* one of them or both, lets go of shift in between or swallows OnKeyUp.
THEOREM PressCountsOnce ==
    ASSUME ~LateCallbacks
    PROVE  Spec => []PressObeyedOnce
<1>1. Init => Ordered
  <2> SUFFICES ASSUME Init, NEW s \in Services PROVE PressInOrder(s)
    BY DEF Ordered
  <2> QED BY DEF Init, PressInOrder
<1>2. IInv /\ Ordered /\ [Next]_vars => Ordered'
  BY OrderedStep
<1>3. IInv /\ Ordered => PressObeyedOnce
  <2> SUFFICES ASSUME IInv, Ordered, NEW s \in Services
               PROVE  /\ handled[s] <= 1
                      /\ held[s] # NoKey /\ companion[s] = NoKey => handled[s] = 1
    BY DEF PressObeyedOnce
  <2>1. PressInOrder(s) /\ SwitchTypes
    BY GoodParts DEF Ordered
  <2> QED BY <2>1 DEF PressInOrder, SwitchTypes
<1> QED BY <1>1, <1>2, <1>3, Invariance, PTL DEF Spec

=============================================================================
