---------------------------- MODULE MCLayerFlow ----------------------------
(***************************************************************************)
(* Instances of LayerFlow, and what the documents say of it and the code   *)
(* does not do.                                                            *)
(***************************************************************************)
EXTENDS LayerFlow

\* docs/operations/v1_0_test_plan.md:93, of a long text and its candidates:
\* the preview does not collapse to a short word.  Whatever was selected, the
\* composition stands for all of the draft.
PreviewIsWhole ==
    ime.ui /\ ime.tab # "Translation" => Keystrokes(ime.shown) = Keystrokes(ime.draft)

\* docs/operations/v1_0_test_plan.md:107, of symbols: no character goes missing.
\* A symbol is added to what was entered before it.
SymbolLosesNothing ==
    [][TypeSymbol =>
         Keystrokes(PreeditText(ime')) = Append(Keystrokes(PreeditText(ime)), pressed')]_vars

=============================================================================
