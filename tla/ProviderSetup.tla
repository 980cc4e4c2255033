--------------------------- MODULE ProviderSetup ----------------------------
(***************************************************************************)
(* From the file config/ime_settings.json to a conversion provider:        *)
(* LoadProviderSettings (src/config/provider_settings.cpp) and             *)
(* CreateConversionProvider (src/provider/conversion_provider_factory.cpp).*)
(*                                                                         *)
(* A configuration is what the file says of the fields that decide which   *)
(* provider is made.  A field may be absent, and a switch may be of a      *)
(* wrong type ("bad"): reading it throws, and then the fields after it are *)
(* not read and nothing is validated.  Fields of the wrong type that are   *)
(* ignored count as absent.  The addresses and limits of the language      *)
(* model, and the runtime limits, are only passed on and are left out; so  *)
(* is the older layout of the file, which is read by the same stages.      *)
(***************************************************************************)
EXTENDS Naturals, FiniteSets

ProviderModes == {"llm", "dictionary", "mozc"}
TranslationModes == {"llm", "dictionary"}
Switches == {"absent", "on", "off", "bad"}

GoodNative == [backend |-> "mozc_server_client", policy |-> "none",
               artifacts |-> TRUE, positive |-> TRUE]

\* The section "native": all is well, or one thing is not.  "artifacts" are the
\* two programs, "positive" the time limit and the number of candidates.
NativeSections ==
    {GoodNative, [GoodNative EXCEPT !.artifacts = FALSE], [GoodNative EXCEPT !.positive = FALSE]}
    \cup {[GoodNative EXCEPT !.backend = b] : b \in {"absent", "linked_converter", "unknown"}}
    \cup {[GoodNative EXCEPT !.policy = p] : p \in {"absent", "imm32", "bridge", "unknown"}}

TranslationSections ==
    {[given |-> FALSE, mode |-> "absent", dictionary |-> "absent"]}
    \cup [given : {TRUE}, mode : TranslationModes \cup {"absent", "unknown", "bad"},
          dictionary : Switches]

\* "file" is what comes of opening and parsing the file.
Configurations ==
    [file : {"read"},
     mode : ProviderModes \cup {"absent", "unknown", "bad"},
     dictionary : Switches, mozc : Switches,
     transport : {"absent", "bridge", "server", "imm32", "native", "unknown"},
     native : NativeSections, translation : TranslationSections,
     logging : {"absent", "on", "noPath", "bad"}]

-----------------------------------------------------------------------------
\* LoadProviderSettings, stage by stage.

DefaultSettings ==
    [mode |-> "llm", dictionary |-> FALSE,
     mozc |-> [enabled |-> FALSE, transport |-> "bridge", backend |-> "unset",
               policy |-> "none", artifacts |-> FALSE, positive |-> TRUE],
     translation |-> [mode |-> "llm", dictionary |-> FALSE],
     logging |-> FALSE, thrown |-> FALSE, error |-> FALSE]

Throw(s) == [s EXCEPT !.thrown = TRUE, !.error = TRUE]
Report(s, problem) == [s EXCEPT !.error = @ \/ problem]

SwitchedOn(switch, default) == IF switch = "absent" THEN default ELSE switch = "on"

ParseProviderMode(s, c) ==
    IF c.mode = "bad" THEN Throw(s)
    ELSE [s EXCEPT !.mode = IF c.mode \in ProviderModes THEN c.mode ELSE @]

ParseDictionary(s, c) ==
    IF c.dictionary = "bad" THEN Throw(s)
    ELSE [s EXCEPT !.dictionary = SwitchedOn(c.dictionary, @)]

ParseMozcTransport(value) ==
    CASE value \in {"absent", "bridge", "server"} -> "bridge"
      [] value \in {"imm32", "native"}            -> value
      [] OTHER                                    -> "invalid"

ParseMozcNative(native) ==
    [native EXCEPT
        !.backend = CASE @ = "absent" -> "unset" [] @ = "unknown" -> "invalid" [] OTHER -> @,
        !.policy  = CASE @ = "absent" -> "none"  [] @ = "unknown" -> "invalid" [] OTHER -> @]

\* The switch comes first: when it throws, the transport is not read either.
ParseMozc(s, c) ==
    IF c.mozc = "bad" THEN Throw(s)
    ELSE LET native == ParseMozcNative(c.native)
         IN  [s EXCEPT !.mozc = [enabled |-> SwitchedOn(c.mozc, FALSE),
                                 transport |-> ParseMozcTransport(c.transport),
                                 backend |-> native.backend, policy |-> native.policy,
                                 artifacts |-> native.artifacts, positive |-> native.positive]]

ParseTranslationMode(s, c) ==
    IF c.translation.mode = "bad" THEN Throw(s)
    ELSE [s EXCEPT !.translation.mode =
              IF c.translation.mode \in TranslationModes THEN c.translation.mode ELSE @]

ParseTranslationDictionary(s, c) ==
    IF c.translation.dictionary = "bad" THEN Throw(s)
    ELSE [s EXCEPT !.translation.dictionary = SwitchedOn(c.translation.dictionary, @)]

ParseLogging(s, c) ==
    IF c.logging = "bad" THEN Throw(s)
    ELSE [s EXCEPT !.logging = c.logging \in {"on", "noPath"}]

\* A translation that the file does not mention follows the conversion.
MirrorKana(s, c) ==
    IF c.translation.given THEN s
    ELSE [s EXCEPT !.translation =
              [mode |-> IF s.mode = "dictionary" /\ s.dictionary THEN "dictionary" ELSE "llm",
               dictionary |-> s.dictionary]]

ValidateMozc(s, c) ==
    LET native == s.mozc.transport = "native"
    IN  Report([s EXCEPT !.mozc.backend =
                    IF native /\ @ = "unset" THEN "mozc_server_client" ELSE @],
               \/ "invalid" \in {s.mozc.transport, s.mozc.backend, s.mozc.policy}
               \/ native /\ (~s.mozc.positive \/ s.mozc.policy # "none"))

ValidateLogging(s, c) ==
    Report([s EXCEPT !.logging = @ /\ c.logging # "noPath"], s.logging /\ c.logging = "noPath")

\* A mode whose switch is off becomes the mode "llm"; with the dictionary goes
\* the translation.
ValidateModes(s, c) ==
    LET noDictionary == s.mode = "dictionary" /\ ~s.dictionary
        noMozc == s.mode = "mozc" /\ ~s.mozc.enabled
    IN  Report([s EXCEPT !.mode = IF noDictionary \/ noMozc THEN "llm" ELSE @,
                         !.translation.mode = IF noDictionary THEN "llm" ELSE @],
               noDictionary \/ noMozc)

ValidateTranslation(s, c) ==
    LET missing == s.translation.mode = "dictionary" /\ ~s.translation.dictionary
    IN  Report([s EXCEPT !.translation.mode = IF missing THEN "llm" ELSE @], missing)

\* A stage is not reached after one that threw.
Then(s, Stage(_, _), c) == IF s.thrown THEN s ELSE Stage(s, c)

ReadStages(c) ==
    LET mode == ParseProviderMode(DefaultSettings, c)
        kana == Then(Then(mode, ParseDictionary, c), ParseMozc, c)
        translation == IF c.translation.given
                       THEN Then(Then(kana, ParseTranslationMode, c), ParseTranslationDictionary, c)
                       ELSE kana
    IN  Then(Then(translation, ParseLogging, c), MirrorKana, c)

LoadProviderSettings(c) ==
    IF c.file # "read" THEN Throw(DefaultSettings)
    ELSE Then(Then(Then(Then(ReadStages(c),
             ValidateMozc, c), ValidateLogging, c), ValidateModes, c), ValidateTranslation, c)

-----------------------------------------------------------------------------
\* CreateConversionProvider.  "files" says whether the dictionaries are there
\* and can be read.

\* MozcConversionProvider::Initialize and that of its transport.
MozcInitializes(mozc) ==
    mozc.transport = "native" =>
        /\ mozc.backend \in {"unset", "mozc_server_client"}
        /\ mozc.policy = "none" /\ mozc.artifacts /\ mozc.positive

\* "translates" is by what the provider translates.
Provider(kind, transport, translates, error) ==
    [kind |-> kind, transport |-> transport, translates |-> translates, error |-> error]

\* Mutants of CreateConversionProvider: a native converter that does not start
\* is replaced; a dictionary that cannot be read is forgotten.
CreateFallingThrough(s, files) ==
    IF s.mode = "dictionary" /\ s.dictionary /\ files
    THEN Provider("dictionary", "none", s.translation.mode, FALSE)
    ELSE IF s.mode = "mozc" /\ s.mozc.enabled /\ s.mozc.transport # "invalid" /\ MozcInitializes(s.mozc)
         THEN Provider("mozc", s.mozc.transport, "llm", FALSE)
         ELSE Provider("imm32", "none", "llm", s.mode # "llm")

CreateForgettingErrors(s, files) ==
    IF s.mode = "dictionary" /\ s.dictionary /\ files
    THEN Provider("dictionary", "none", s.translation.mode, FALSE)
    ELSE IF s.mode = "mozc" /\ s.mozc.enabled
         THEN IF s.mozc.transport # "invalid" /\ MozcInitializes(s.mozc)
              THEN Provider("mozc", s.mozc.transport, "llm", FALSE)
              ELSE Provider("unavailable", "none", "none", TRUE)
         ELSE Provider("imm32", "none", "llm", FALSE)

\* The provider based on IMM32 also serves the mode "llm".
CreateConversionProvider(s, files) ==
    IF s.mode = "dictionary" /\ s.dictionary /\ files
    THEN Provider("dictionary", "none", s.translation.mode, FALSE)
    ELSE IF s.mode = "mozc" /\ s.mozc.enabled
         THEN IF s.mozc.transport # "invalid" /\ MozcInitializes(s.mozc)
              THEN Provider("mozc", s.mozc.transport, "llm", FALSE)
              ELSE Provider("unavailable", "none", "none", TRUE)
         ELSE Provider("imm32", "none", "llm", s.mode = "dictionary" /\ s.dictionary)

=============================================================================
