--------------------------- MODULE MCMacroHistory ---------------------------
(***************************************************************************)
(* Small instances of MacroHistory.                                        *)
(***************************************************************************)
EXTENDS MacroHistory, TLC

\* Texts "a" and "a2" differ in layout only; "r" renames the macro it overrides
\* to the other name.
MCMeaning == [t \in Texts |-> IF t = "a2" THEN "a" ELSE t]
MCCanonical == [t \in Texts |-> IF t = "a2" THEN "a" ELSE t]
MCRenameOf == [t \in Texts |-> IF t = "r" THEN "Y" ELSE NoName]

OneFile == <<"macros.cfg">>
TwoFiles == <<"macros.cfg", "printer.cfg">>

\* Indexing runs differ in nothing but their names.
Runs == Permutations(Jobs)

=============================================================================
