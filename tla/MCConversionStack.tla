------------------------- MODULE MCConversionStack --------------------------
(* ConversionStack with readings of three letters and a few words.          *)
EXTENDS ConversionStack

MCReadings == {<<"a", "b", "a">>, <<"a", "a", "b">>}

\* All combinations of the switches; the details of the native converter, of
\* the translation and of the log file one at a time.
MCFiles ==
    {[NoFile EXCEPT !.file = f] : f \in {"missing", "malformed", "noProvider"}}
    \cup {c \in Configurations :
            \/ c.native = GoodNative /\ c.logging = "absent"
            \/ c.native = GoodNative /\ c.translation.mode \in {"absent", "dictionary"}
                 /\ c.translation.dictionary \in {"absent", "on"}
            \/ ~c.translation.given /\ c.logging = "absent"}

\* Words that compete by cost, by length and by being written in kana.
Pool ==
    {[key |-> <<"a">>, surface |-> InKanji(<<"a">>), cost |-> 4],
     [key |-> <<"a">>, surface |-> InKana(<<"a">>), cost |-> 3],
     [key |-> <<"b">>, surface |-> InKanji(<<"b">>), cost |-> 9],
     [key |-> <<"a", "b">>, surface |-> InKanji(<<"a", "b">>), cost |-> 6],
     [key |-> <<"b", "a">>, surface |-> InKana(<<"b", "a">>), cost |-> 1],
     [key |-> <<"a", "b", "a">>, surface |-> InKanji(<<"a", "b", "a">>), cost |-> 2]}

MCDictionaries == SUBSET Pool

=============================================================================
