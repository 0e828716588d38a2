--------------------------- MODULE MCBackupRestore --------------------------
(***************************************************************************)
(* Trees of four files for the runs of BackupRestore.                      *)
(***************************************************************************)
EXTENDS BackupRestore

FourFiles == <<"macros.cfg", "old/printer.cfg", "printer.cfg", "sub/macros.cfg">>

M(n, b) == [kind |-> "macro", name |-> n, body |-> b]
Include(f) == [kind |-> "include", file |-> f]
Dynamic(f) == [kind |-> "dynamic", file |-> f]

\* Definitions before and after an include, a link that is no include, an
\* include of a namesake, a cycle, a file without macros, and a printer.cfg that
\* is none.
MCLayouts ==
  [f \in Files |->
     CASE f = "printer.cfg" ->
            { <<M("X", "a"), Include("macros.cfg"), M("X", "b"), Include("sub/macros.cfg")>>,
              <<M("Y", "a"), Dynamic("sub/macros.cfg")>> }
       [] f = "macros.cfg"  -> { Absent, <<M("X", "b"), Include("sub/macros.cfg")>> }
       [] f = "old/printer.cfg" -> { Absent }
       [] OTHER             -> { <<[kind |-> "other"]>>, <<M("Y", "b"), Include("printer.cfg")>> }]

Tree4(r, m, o, u) == [f \in Files |-> CASE f = "printer.cfg" -> r [] f = "macros.cfg" -> m
                                         [] f = "old/printer.cfg" -> o [] OTHER -> u]

\* A tree whose printer.cfg gets a macros.cfg, one beside a nested printer.cfg with
\* a macro.  The other printers have two texts of X in macros.cfg, and so a higher
\* number.
MCStarts ==
  [p \in Profiles |->
     LET root == <<M("Y", "a"), Dynamic("sub/macros.cfg")>>
         sub  == <<[kind |-> "other"]>>
     IN  IF p \in Busy
         THEN { Tree4(root, <<M("X", "b"), Include("sub/macros.cfg")>>, Absent, sub),
                Tree4(root, Absent, <<M("X", "a")>>, sub) }
         ELSE { Tree4(<<M("X", "a")>>, <<M("X", "a"), M("X", "b")>>, Absent, <<M("Y", "b")>>) }]

=============================================================================
