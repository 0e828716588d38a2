---------------------------- MODULE IncludeOrder ----------------------------
(***************************************************************************)
(* The order in which Klipper reads cfg files, as KlipperVault computes it *)
(* for its loading overview: a depth-first walk from printer.cfg that      *)
(* splices every included file in at the place of its [include].  Another  *)
(* walk, get_cfg_load_order, visits every file once.  A third definition,  *)
(* by reachability, says what the two should find.                         *)
(*                                                                         *)
(* A tree gives every file its sections in order, or Absent: macros, links *)
(* ([include f], or f in the configs of a [dynamicmacros]), and others.    *)
(* The walks in Klipper's order are those that read from a config source,  *)
(* for which a configs file that is missing is an error like any other.    *)
(***************************************************************************)
EXTENDS Naturals, Sequences, FiniteSets, SequencesExt

CONSTANTS Files,     \* cfg files
          FileSeq,   \* the same in alphabetical order
          Names,     \* macro names
          Bodies,    \* what a macro does
          Absent     \* the content of a file that does not exist

Root == "printer.cfg"

ASSUME OrderAssumption == /\ IsFiniteSet(Files) /\ Root \in Files
                          /\ FileSeq \in Seq(Files)
                          /\ IsInjective(FileSeq) /\ ToSet(FileSeq) = Files

Macro == [kind : {"macro"}, name : Names, body : Bodies]
Link  == [kind : {"include", "dynamic"}, file : Files]
Other == [kind : {"other"}]

Sections == Macro \cup Link \cup Other

Contents == Seq(Sections)

\* A file that does not exist is not a file without sections.
ASSUME AbsentAssumption == Absent \notin Contents

Tree == [Files -> Contents \cup {Absent}]

\* A walk: whether it came to its end, the files and the macros in their order.
Found(files, macros) == [ok |-> TRUE, files |-> files, macros |-> macros]

Broken == [ok |-> FALSE, files |-> << >>, macros |-> << >>]

Then(a, b) == IF a.ok /\ b.ok THEN Found(a.files \o b.files, a.macros \o b.macros)
              ELSE Broken

Listing(t) == {f \in Files : t[f] # Absent}

\* The members of S in s, in their order.
Only(s, S) ==
  LET only[n \in 0 .. Len(s)] == IF n = 0 THEN << >>
                                 ELSE IF s[n] \in S THEN Append(only[n - 1], s[n])
                                 ELSE only[n - 1]
  IN  only[Len(s)]

\* File f, section after section: a macro is taken, and at a link that counts
\* the walk of its file, which is inner[e.file], is put in its place.
Spliced(t, f, kinds, inner) ==
  LET upto[n \in 0 .. Len(t[f])] ==
        IF n = 0 THEN Found(<<f>>, << >>)
        ELSE LET e == t[f][n]
             IN  CASE e.kind = "macro" -> Then(upto[n - 1], Found(<< >>, <<e>>))
                   [] e.kind \in kinds -> Then(upto[n - 1], inner[e.file])
                   [] OTHER            -> upto[n - 1]
  IN  upto[Len(t[f])]

\* Mutant of Visit: a missing file is passed over.
VisitForgiving(t, kinds) ==
  LET visit[visiting \in SUBSET Files] ==
        [f \in Files |-> IF f \in visiting THEN Broken
                         ELSE IF t[f] = Absent THEN Found(<< >>, << >>)
                         ELSE Spliced(t, f, kinds, visit[visiting \cup {f}])]
  IN  visit[{}][Root]

\* A file that is being read must not be read again, and a missing file is an
\* error.
Visit(t, kinds) ==
  LET visit[visiting \in SUBSET Files] ==
        [f \in Files |-> IF f \in visiting \/ t[f] = Absent THEN Broken
                         ELSE Spliced(t, f, kinds, visit[visiting \cup {f}])]
  IN  visit[{}][Root]

\* The overview's two lists: files by [include] alone, macros by both links.
\* Without printer.cfg both are empty.
KlipperFiles(t) == IF t[Root] = Absent THEN Found(<< >>, << >>)
                   ELSE Visit(t, {"include"})

KlipperMacros(t) == IF t[Root] = Absent THEN Found(<< >>, << >>)
                    ELSE Visit(t, {"include", "dynamic"})

\* The overview shows both lists or, when a walk raises, none.
Overview(t) == [ok     |-> KlipperFiles(t).ok /\ KlipperMacros(t).ok,
                files  |-> KlipperFiles(t).files,
                macros |-> KlipperMacros(t).macros]

\* The order in which the indexer takes all macros: the loaded ones as Klipper
\* reads them, then those of the other files.
MacrosIn(t, f) == Only(t[f], Macro)

MacroOrder(t) ==
  LET loaded == KlipperMacros(t)
      rest   == Only(FileSeq, Listing(t) \ ToSet(loaded.files))
  IN  Then(loaded, Found(rest, FlattenSeq([i \in DOMAIN rest |-> MacrosIn(t, rest[i])])))

\* get_cfg_load_order, which reads a directory: what is loaded, every file once,
\* links to files that do not exist skipped; then the other files.
Followed(t, f, seen, visit) ==
  LET upto[n \in 0 .. Len(t[f])] ==
        IF n = 0 THEN Append(seen, f)
        ELSE LET e == t[f][n]
             IN  IF e.kind \in {"include", "dynamic"} THEN visit[upto[n - 1]][e.file]
                                                      ELSE upto[n - 1]
  IN  upto[Len(t[f])]

LoadedOnce(t) ==
  LET visit[seen \in Seq(Files)] ==
        [f \in Files |-> IF f \in ToSet(seen) \/ t[f] = Absent THEN seen
                         ELSE Followed(t, f, seen, visit)]
  IN  visit[<< >>][Root]

LoadOrder(t) ==
  LET loaded == IF t[Root] = Absent THEN << >> ELSE LoadedOnce(t)
  IN  loaded \o Only(FileSeq, Listing(t) \ ToSet(loaded))

-----------------------------------------------------------------------------
(***************************************************************************)
(* The reference: reachability.                                            *)
(***************************************************************************)
Targets(t, f, kinds) == IF t[f] = Absent THEN {}
                        ELSE {t[f][i].file : i \in {j \in DOMAIN t[f] : t[f][j].kind \in kinds}}

\* What is n links or fewer away from the files F.
Within(t, F, kinds) ==
  LET near[n \in 0 .. Cardinality(Files)] ==
        IF n = 0 THEN F
        ELSE near[n - 1] \cup UNION {Targets(t, f, kinds) : f \in near[n - 1]}
  IN  near[Cardinality(Files)]

Reachable(t, kinds) == Within(t, {Root}, kinds)

Readable(t, kinds) == \A f \in Reachable(t, kinds) :
                        /\ t[f] # Absent
                        /\ f \notin Within(t, Targets(t, f, kinds), kinds)

\* The files in the order in which they first occur in s.
FirstOccurrences(s) ==
  LET first[n \in 0 .. Len(s)] == IF n = 0 THEN << >>
                                  ELSE IF s[n] \in ToSet(first[n - 1]) THEN first[n - 1]
                                  ELSE Append(first[n - 1], s[n])
  IN  first[Len(s)]

\* The walks find what can be reached, stop at a cycle or a missing file and
\* nowhere else, and agree on the order in which files are first read.
WalksAgree(t) ==
  t[Root] # Absent =>
    /\ KlipperFiles(t).ok = Readable(t, {"include"})
    /\ KlipperMacros(t).ok = Readable(t, {"include", "dynamic"})
    /\ Overview(t).ok = Readable(t, {"include", "dynamic"})
    /\ MacroOrder(t).ok =>
         ToSet(MacroOrder(t).macros) =
           UNION {ToSet(MacrosIn(t, f)) : f \in Listing(t)}
    /\ KlipperFiles(t).ok => ToSet(KlipperFiles(t).files) = Reachable(t, {"include"})
    /\ KlipperMacros(t).ok => FirstOccurrences(KlipperMacros(t).files) = LoadedOnce(t)
    /\ IsInjective(LoadOrder(t)) /\ ToSet(LoadOrder(t)) = Listing(t)

\* The definition of macro n that Klipper ends up with: the last one.
Effective(t, n) ==
  LET found == Only(KlipperMacros(t).macros, {e \in Macro : e.name = n})
  IN  IF found = << >> THEN Absent ELSE found[Len(found)].body

=============================================================================
