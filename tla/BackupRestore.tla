--------------------------- MODULE BackupRestore ----------------------------
(***************************************************************************)
(* Backups of a printer's macros, and the two operations that rewrite many *)
(* files of its mirror: a restore, and the migration that moves the macros *)
(* of printer.cfg to macros.cfg after a backup.                            *)
(*                                                                         *)
(* A backup is one transaction, but it copies the cfg files one by one     *)
(* from a mirror that nothing locks, and finds out which files to copy     *)
(* from the index of the last scan.  A restore and a migration write one   *)
(* file after the other with no transaction at all.                        *)
(*                                                                         *)
(* The index keeps the latest row of every macro (MacroHistory has all     *)
(* versions).  The text a section has besides its macro is not told apart. *)
(***************************************************************************)
EXTENDS IncludeOrder

CONSTANTS Profiles,      \* printers
          Busy,          \* bound: those whose files change; the others are scanned
          Sessions,      \* browser tabs
          Starts,        \* Starts[p]: trees the mirror of p may hold at first
          Layouts,       \* Layouts[f]: what people write into file f
          Namesakes,     \* files called macros.cfg in other directories
          PrinterCfgs,   \* files called printer.cfg, in whatever directory
          NoRow,         \* the index has no row of a macro
          NoBackup,      \* there is no backup of a number
          VersionBound,  \* bound: version numbers
          BackupBound,   \* bound: backups at a time
          UpsetBound      \* bound: edits and interruptions

MacrosCfg == "macros.cfg"

ASSUME FilesAssumption == /\ {MacrosCfg} \cup Namesakes \subseteq Files
                          /\ Root \in PrinterCfgs /\ PrinterCfgs \subseteq Files
ASSUME NamesAssumption == IsFiniteSet(Names) /\ Profiles # {}
ASSUME LayoutsAssumption == /\ \A f \in Files : Layouts[f] \subseteq Contents \cup {Absent}
                            /\ \A p \in Profiles : Starts[p] \subseteq Tree
ASSUME BoundsAssumption == /\ Busy \subseteq Profiles
                           /\ VersionBound \in Nat /\ BackupBound \in Nat \ {0} /\ UpsetBound \in Nat

VARIABLES
  mirror,   \* mirror[p]: the cfg files of printer p
  index,    \* index[p][f, n]: the latest row of macro n of file f, or NoRow
  backups,  \* backups[id]: a committed backup, or NoBackup
  op,       \* op[s]: the backup, restore or migration session s is in the middle of
  upsets    \* counts the edits and interruptions, up to UpsetBound

vars == <<mirror, index, backups, op, upsets>>

-----------------------------------------------------------------------------
Keys == Files \X Names

Row == [version : 1 .. VersionBound, body : Bodies, line : Nat, deleted : BOOLEAN]

Item == [file : Files, name : Names, body : Bodies, line : Nat, active : BOOLEAN]

\* was is history: the mirror when the backup began if the index was then true
\* of it and the files were copied as they were, and Nowhere otherwise.
Backup == [profile : Profiles, items : SUBSET Item, files : Tree, was : Tree]

Ids == 1 .. BackupBound

\* backup is the one that is being made or restored, todo the files still to be
\* copied, written or looked at, cut the printer.cfg whose macros are being moved.
\* was is history: the mirror when the operation began, and Nowhere once another
\* one has changed it.
Op == [phase : {"idle", "copy", "write", "prune", "move", "append", "include"},
       migrates : BOOLEAN, id : Ids, backup : Backup, todo : SUBSET Files,
       cut : Contents, was : Tree]

Nowhere == [f \in Files |-> Absent]

Idle == [phase |-> "idle", migrates |-> FALSE, id |-> 1,
         backup |-> [profile |-> CHOOSE p \in Profiles : TRUE, items |-> {},
                     files |-> Nowhere, was |-> Nowhere],
         todo |-> {}, cut |-> << >>, was |-> Nowhere]

Printer(s) == op[s].backup.profile

IsMacro(e) == e.kind = "macro"

\* The definitions of macro n in content c; its last one is the one that counts.
Definitions(c, n) == IF c = Absent THEN {} ELSE {i \in DOMAIN c : IsMacro(c[i]) /\ c[i].name = n}

\* _cfg_text_contains_gcode_macros; an unreadable or missing file has none.
Bearing(c) == \E n \in Names : Definitions(c, n) # {}

\* Files are taken in their order.
Foremost(F) == {f \in F : \E i \in DOMAIN FileSeq :
                            FileSeq[i] = f /\ \A j \in 1 .. i - 1 : FileSeq[j] \notin F}

\* A transaction that writes keeps all others out.
Unlocked == \A s \in Sessions : op[s].phase # "copy"

Undone(o, p) == IF o.backup.profile # p \/ o.phase = "idle" THEN o
                ELSE [o EXCEPT !.was = Nowhere,
                               !.backup.was = IF o.phase = "copy" THEN Nowhere ELSE @]

\* Session s goes on with o, having made t of its printer's mirror.
Write(s, t, o) ==
  /\ mirror' = [mirror EXCEPT ![Printer(s)] = t]
  /\ op' = [r \in Sessions |-> IF r = s THEN o ELSE Undone(op[r], Printer(s))]

Continue(s, o) == op' = [op EXCEPT ![s] = o] /\ UNCHANGED mirror

-----------------------------------------------------------------------------
(***************************************************************************)
(* The mirror and its index.                                               *)
(***************************************************************************)
TypeOK == /\ mirror \in [Profiles -> Tree]
          /\ index \in [Profiles -> [Keys -> Row \cup {NoRow}]]
          /\ backups \in [Ids -> Backup \cup {NoBackup}]
          /\ op \in [Sessions -> Op]
          /\ upsets \in 0 .. UpsetBound

Init == /\ mirror \in {m \in [Profiles -> UNION {Starts[p] : p \in Profiles}] :
                        \A p \in Profiles : m[p] \in Starts[p]}
        /\ index = [p \in Profiles |-> [k \in Keys |-> NoRow]]
        /\ backups = [id \in Ids |-> NoBackup]
        /\ op = [s \in Sessions |-> Idle]
        /\ upsets = 0

\* A download, an editor, or any other way in which a file of the mirror changes.
Edit(p, f) ==
  /\ upsets < UpsetBound
  /\ \E c \in Layouts[f] \ {mirror[p][f]} : mirror' = [mirror EXCEPT ![p][f] = c]
  /\ op' = [s \in Sessions |-> Undone(op[s], p)]
  /\ upsets' = upsets + 1
  /\ UNCHANGED <<index, backups>>

\* Mutant of Unknown: the first text of a macro is not counted.
UnknownButFirst(p, k) ==
  LET c == mirror[p][k[1]]
      D == Definitions(c, k[2])
  IN  Cardinality({c[i].body : i \in D} \ (IF D = {} THEN {} ELSE {c[Min(D)].body}))

\* How many texts a scan may be the first to see: those of macro k in the mirror
\* that are not the latest one of its row.
Unknown(p, k) ==
  LET c == mirror[p][k[1]]
  IN  Cardinality({c[i].body : i \in Definitions(c, k[2])}
                  \ (IF index[p][k] = NoRow THEN {} ELSE {index[p][k].body}))

\* What a scan makes of a row.  A text takes a new number, or none if it is an
\* old one: new of the unknown texts are.
Scanned(p, k, new) ==
  LET r == index[p][k]
      c == mirror[p][k[1]]
      D == Definitions(c, k[2])
  IN  IF D = {} THEN IF r = NoRow THEN NoRow ELSE [r EXCEPT !.deleted = TRUE]
      ELSE [version |-> (IF r = NoRow THEN 0 ELSE r.version) + new,
            body |-> c[Max(D)].body, line |-> Max(D), deleted |-> FALSE]

Scan(p) ==
  /\ Unlocked
  /\ \E new \in [{k \in Keys : Unknown(p, k) > 0} -> 0 .. VersionBound] :
       LET rows == [k \in Keys |-> Scanned(p, k, IF k \in DOMAIN new THEN new[k] ELSE 0)]
       IN  /\ \A k \in DOMAIN new : IF index[p][k] = NoRow THEN new[k] = Unknown(p, k)
                                                          ELSE new[k] <= Unknown(p, k)
           /\ \A k \in Keys : rows[k] # NoRow => rows[k].version <= VersionBound
           /\ rows # index[p]
           /\ index' = [index EXCEPT ![p] = rows]
  /\ UNCHANGED <<mirror, backups, op, upsets>>

Live(p, k) == index[p][k] # NoRow /\ ~index[p][k].deleted

\* _LATEST_VERSION_SUBQUERY: the highest number of file and name in all printers.
Newest(p, k) == /\ index[p][k] # NoRow
                /\ \A q \in Profiles :
                     index[q][k] = NoRow \/ index[q][k].version <= index[p][k].version

\* Mutant of Active: a deleted row of a later file hides it too.
ActiveUnlessRow(p, k) == /\ Live(p, k)
                         /\ \A i, j \in DOMAIN FileSeq :
                              FileSeq[i] = k[1] /\ i < j => index[p][<<FileSeq[j], k[2]>>] = NoRow

\* is_active: no later file has a live row of that name.
Active(p, k) == /\ Live(p, k)
                /\ \A i, j \in DOMAIN FileSeq :
                     FileSeq[i] = k[1] /\ i < j => ~Live(p, <<FileSeq[j], k[2]>>)

-----------------------------------------------------------------------------
(***************************************************************************)
(* Making a backup.                                                        *)
(***************************************************************************)

\* Mutant of ItemsOf: printer.cfg is left out here too.
ItemsWithoutRoot(p) ==
  {[file |-> k[1], name |-> k[2], body |-> index[p][k].body, line |-> index[p][k].line,
    active |-> Active(p, k)] : k \in {l \in Keys : l[1] # Root /\ Newest(p, l)}}

ItemsOf(p) ==
  {[file |-> k[1], name |-> k[2], body |-> index[p][k].body, line |-> index[p][k].line,
    active |-> Active(p, k)] : k \in {l \in Keys : Newest(p, l)}}

\* Mutant of FilesOf: the files of active macros only.
FilesOfActive(p) ==
  {f \in Files \ {Root} : \E n \in Names : Newest(p, <<f, n>>) /\ Active(p, <<f, n>>)}

\* _macro_file_paths_for_backup
FilesOf(p) ==
  {f \in Files \ {Root} : \E n \in Names : Newest(p, <<f, n>>) /\ Live(p, <<f, n>>)}

\* The index of p is true of the mirror, and no other printer's row hides one of p's.
IndexTrue(p) ==
  \A f \in Files, n \in Names :
    LET D == Definitions(mirror[p][f], n)
    IN  /\ Live(p, <<f, n>>) <=> D # {}
        /\ D # {} => /\ index[p][<<f, n>>].body = mirror[p][f][Max(D)].body
                     /\ Newest(p, <<f, n>>)

\* The number of a new backup: one more than the highest there is.
NextId == 1 + Max({0} \cup {id \in Ids : backups[id] # NoBackup})

Begin(s, p, migrates) ==
  /\ op[s].phase = "idle"
  /\ Unlocked
  /\ NextId \in Ids
  /\ Continue(s, [phase |-> "copy", migrates |-> migrates, id |-> NextId,
                  backup |-> [profile |-> p, items |-> ItemsOf(p), files |-> Nowhere,
                              was |-> IF IndexTrue(p) THEN mirror[p] ELSE Nowhere],
                  todo |-> FilesOf(p), cut |-> << >>, was |-> mirror[p]])
  /\ UNCHANGED <<index, backups, upsets>>

\* create_macro_backup takes the write lock, writes the items, and then reads
\* one file after the other.
StartBackup(s, p) == Begin(s, p, FALSE)

\* A file that cannot be read is passed over without a word.
CopyFile(s) ==
  /\ op[s].phase = "copy"
  /\ \E f \in Foremost(op[s].todo) :
       \E c \in {mirror[Printer(s)][f], Absent} :
         Continue(s, [op[s] EXCEPT !.todo = @ \ {f}, !.backup.files[f] = c,
                        !.backup.was = IF c = mirror[Printer(s)][f] THEN @ ELSE Nowhere])
  /\ UNCHANGED <<index, backups, upsets>>

CommitBackup(s) ==
  /\ op[s].phase = "copy" /\ op[s].todo = {}
  /\ backups' = [backups EXCEPT ![op[s].id] = op[s].backup]
  /\ Continue(s, IF op[s].migrates THEN [op[s] EXCEPT !.phase = "move"] ELSE Idle)
  /\ UNCHANGED <<index, upsets>>

FailBackup(s) ==
  /\ op[s].phase = "copy"
  /\ Continue(s, Idle)
  /\ UNCHANGED <<index, backups, upsets>>

DeleteBackup(id) ==
  /\ Unlocked
  /\ backups[id] # NoBackup
  /\ backups' = [backups EXCEPT ![id] = NoBackup]
  /\ UNCHANGED <<mirror, index, op, upsets>>

-----------------------------------------------------------------------------
(***************************************************************************)
(* Restoring a backup.                                                     *)
(***************************************************************************)
HasFiles(b) == \E f \in Files : b.files[f] # Absent

\* _reconstruct_cfg_files_from_backup_items, for a backup without files: the
\* items of a file by line, those of deleted macros included.
Rebuilt(b) ==
  [f \in Files |->
     LET items == {i \in b.items : i.file = f}
     IN  IF items = {} THEN Absent
         ELSE LET sorted == CHOOSE q \in SeqOf(items, Cardinality(items)) :
                              /\ ToSet(q) = items
                              /\ \A i, j \in DOMAIN q : i < j => q[i].line <= q[j].line
              IN  [n \in DOMAIN sorted |->
                     [kind |-> "macro", name |-> sorted[n].name, body |-> sorted[n].body]]]

Content(b) == IF HasFiles(b) THEN b.files ELSE Rebuilt(b)

\* overwrite_printer_cfg is FALSE: no file of that name is written, nor removed,
\* although a backup leaves out only the one of the top directory (FilesOf).
Restored(b) == Listing(Content(b)) \ PrinterCfgs

\* backup_printer_cfg_restore_policy; the files of a backup never have printer.cfg.
WillOverwritePrinterCfg(b) ==
  IF HasFiles(b) THEN b.files[Root] # Absent /\ Bearing(b.files[Root])
  ELSE \E i \in b.items : i.file = Root /\ i.active

StartRestore(s, id) ==
  /\ op[s].phase = "idle"
  /\ backups[id] # NoBackup
  /\ LET b == backups[id]
     IN  Continue(s, [phase |-> "write", migrates |-> FALSE, id |-> id, backup |-> b,
                      todo |-> Restored(b), cut |-> << >>, was |-> mirror[b.profile]])
  /\ UNCHANGED <<index, backups, upsets>>

WriteRestored(s) ==
  /\ op[s].phase = "write"
  /\ \E f \in Foremost(op[s].todo) :
       Write(s, [mirror[Printer(s)] EXCEPT ![f] = Content(op[s].backup)[f]],
             [op[s] EXCEPT !.todo = @ \ {f}])
  /\ UNCHANGED <<index, backups, upsets>>

\* When everything is written, the files of the mirror are listed.
ListRestored(s) ==
  /\ op[s].phase = "write" /\ op[s].todo = {}
  /\ Listing(Content(op[s].backup)) # {}
  /\ Continue(s, [op[s] EXCEPT !.phase = "prune",
                               !.todo = Listing(mirror[Printer(s)]) \ PrinterCfgs])
  /\ UNCHANGED <<index, backups, upsets>>

\* Mutant of Superfluous: whatever the backup has not, macros or none.
NotInBackup(s, f) == mirror[Printer(s)][f] # Absent /\ Content(op[s].backup)[f] = Absent

\* A file with macros that the backup has not.
Superfluous(s, f) == Bearing(mirror[Printer(s)][f]) /\ Content(op[s].backup)[f] = Absent

PruneNext(s) ==
  /\ op[s].phase = "prune"
  /\ \E f \in Foremost(op[s].todo) :
       LET o == [op[s] EXCEPT !.todo = @ \ {f}]
       IN  IF Superfluous(s, f) THEN Write(s, [mirror[Printer(s)] EXCEPT ![f] = Absent], o)
           ELSE Continue(s, o)
  /\ UNCHANGED <<index, backups, upsets>>

FinishRestore(s) ==
  /\ op[s].todo = {}
  /\ \/ op[s].phase = "prune"
     \/ op[s].phase = "write" /\ Listing(Content(op[s].backup)) = {}
  /\ Continue(s, Idle)
  /\ UNCHANGED <<index, backups, upsets>>

-----------------------------------------------------------------------------
(***************************************************************************)
(* The migration of printer.cfg.                                           *)
(***************************************************************************)

\* get_macro_migration_state: the macros of the file, or of the index when
\* there is no file.
CanMigrate(p) == IF mirror[p][Root] = Absent THEN \E n \in Names : Live(p, <<Root, n>>)
                 ELSE Bearing(mirror[p][Root])

\* migrate_printer_cfg_macros begins with a backup.
StartMigration(s, p) == CanMigrate(p) /\ Begin(s, p, TRUE)

MoveSections(s) ==
  /\ op[s].phase = "move"
  /\ LET p == Printer(s)
         c == mirror[p][Root]
     IN  IF Bearing(c)
         THEN Write(s, [mirror[p] EXCEPT ![Root] = Only(c, Link \cup Other)],
                    [op[s] EXCEPT !.phase = "append", !.cut = c])
         ELSE Continue(s, Idle)
  /\ UNCHANGED <<index, backups, upsets>>

Text(c) == IF c = Absent THEN << >> ELSE c

AppendMacros(s) ==
  /\ op[s].phase = "append"
  /\ LET p == Printer(s)
     IN  Write(s, [mirror[p] EXCEPT ![MacrosCfg] = Text(@) \o Only(op[s].cut, Macro)],
               [op[s] EXCEPT !.phase = "include"])
  /\ UNCHANGED <<index, backups, upsets>>

\* Mutant of IncludesMacrosCfg: [include] and [dynamicmacros] alike.
LinksMacrosCfg(c) == \E i \in DOMAIN Text(c) : c[i].kind \in {"include", "dynamic"}
                                               /\ c[i].file \in {MacrosCfg} \cup Namesakes

\* _printer_cfg_includes_macros_cfg looks at the name of the file without its
\* directory.
IncludesMacrosCfg(c) == \E i \in DOMAIN Text(c) : c[i].kind = "include"
                                                  /\ c[i].file \in {MacrosCfg} \cup Namesakes

AddInclude(s) ==
  /\ op[s].phase = "include"
  /\ LET p == Printer(s)
         c == mirror[p][Root]
     IN  IF IncludesMacrosCfg(c) THEN Continue(s, Idle)
         ELSE Write(s, [mirror[p] EXCEPT
                          ![Root] = Append(Text(c), [kind |-> "include", file |-> MacrosCfg])], Idle)
  /\ UNCHANGED <<index, backups, upsets>>

\* A write or a removal fails, or the process ends, in the middle of a restore
\* or a migration.  write_text empties a file before it fills it.
Torn(s) ==
  LET root == mirror[Printer(s)][Root]
  IN  {f \in Files : \/ op[s].phase = "write" /\ f \in Foremost(op[s].todo)
                     \/ op[s].phase = "move" /\ f = Root /\ Bearing(root)
                     \/ op[s].phase = "append" /\ f = MacrosCfg
                     \/ op[s].phase = "include" /\ f = Root /\ ~IncludesMacrosCfg(root)}

Interrupt(s) ==
  /\ op[s].phase \notin {"idle", "copy"}
  /\ upsets < UpsetBound
  /\ upsets' = upsets + 1
  /\ \/ Continue(s, Idle)
     \/ \E f \in Torn(s) : Write(s, [mirror[Printer(s)] EXCEPT ![f] = << >>], Idle)
  /\ UNCHANGED <<index, backups>>

-----------------------------------------------------------------------------
Next ==
  \/ \E p \in Profiles : Scan(p)
  \/ \E p \in Busy :
       \/ \E f \in Files : Edit(p, f)
       \/ \E s \in Sessions : StartBackup(s, p) \/ StartMigration(s, p)
  \/ \E id \in Ids : DeleteBackup(id) \/ \E s \in Sessions : StartRestore(s, id)
  \/ \E s \in Sessions :
       \/ CopyFile(s) \/ CommitBackup(s) \/ FailBackup(s)
       \/ WriteRestored(s) \/ ListRestored(s) \/ PruneNext(s) \/ FinishRestore(s)
       \/ MoveSections(s) \/ AppendMacros(s) \/ AddInclude(s)
       \/ Interrupt(s)

Spec == Init /\ [][Next]_vars

-----------------------------------------------------------------------------
(***************************************************************************)
(* Properties.                                                             *)
(***************************************************************************)

\* The overview finds what Klipper reads, whatever people, restores, migrations
\* and their interruptions have made of the files (IncludeOrder).
OverviewAgrees == \A p \in Profiles : WalksAgree(mirror[p])

\* While the index is true of the files, a macro that one file defines, one that
\* Klipper loads, is marked as active there, with the text Klipper ends up with.
\* It does not hold of a macro that several files define: active is the last of
\* them by path, and Klipper ends up with the last in the order of the includes,
\* against klipper_macro_indexer.py:1536 ("Determine active runtime command mapping
\* by cfg loading order"), Docs/ARCHITECTURE.md:346 ("Resolve includes and load
\* order") and tests/test_macro_indexer.py:405, whose nested.cfg comes first in
\* both orders.
ActiveIsEffective ==
  \A p \in Profiles : IndexTrue(p) /\ KlipperMacros(mirror[p]).ok =>
    \A f \in ToSet(KlipperMacros(mirror[p]).files), n \in Names :
      (/\ Definitions(mirror[p][f], n) # {}
       /\ \A g \in Files \ {f} : Definitions(mirror[p][g], n) = {}) =>
        /\ Active(p, <<f, n>>)
        /\ index[p][<<f, n>>].body = Effective(mirror[p], n)

\* A restore that nothing disturbs brings back what the backup is of: every file
\* that has macros now or had them then is as it was then, but for the files named
\* printer.cfg in any directory, which it passes over though they were saved.  It
\* holds of any mirror the restore began with, so of the torn one an interrupted
\* restore left behind as well.  The backup must have seen a true index.
RoundTrip ==
  [][\A s \in Sessions :
       LET b == op[s].backup
       IN  (FinishRestore(s) /\ op[s].was # Nowhere /\ b.was # Nowhere /\ HasFiles(b)) =>
             \A f \in Files \ PrinterCfgs :
               Bearing(b.was[f]) \/ Bearing(mirror[b.profile][f]) =>
                 mirror[b.profile][f] = b.was[f]]_vars

\* At any moment of a restore every file is as it was or as it will be, and no file
\* without macros is removed.  No printer.cfg ever changes: the code sets
\* overwrite_printer_cfg to False, where the page's announcement and the tests
\* (test_integration_backup_export_import.py:57-61, 89-91, 291-292) expect a restore
\* to bring printer.cfg back; AnnouncedRestored below is what they say.
RestoreMixture ==
  \A s \in Sessions :
    (op[s].phase \in {"write", "prune"} /\ op[s].was # Nowhere) =>
      LET now == mirror[Printer(s)]
          new == Content(op[s].backup)
      IN  /\ \A f \in PrinterCfgs : now[f] = op[s].was[f]
          /\ \A f \in Files : \/ now[f] = op[s].was[f]
                              \/ now[f] = new[f] /\ new[f] # Absent
                              \/ now[f] = Absent /\ new[f] = Absent /\ Bearing(op[s].was[f])

\* While the macros that a migration has cut out of printer.cfg are in no file,
\* the backup it has made has the definition of each that counted.
MigrationCovered ==
  \A s \in Sessions :
    LET m == op[s].cut
    IN  (op[s].phase = "append" /\ op[s].was # Nowhere /\ op[s].backup.was # Nowhere
         /\ backups[op[s].id] = op[s].backup) =>
          \A n \in Names : Definitions(m, n) # {} =>
            \E i \in backups[op[s].id].items :
              i.file = Root /\ i.name = n /\ i.body = m[Max(Definitions(m, n))].body

\* A migration that nothing disturbs does not change what Klipper makes of a
\* macro that only printer.cfg defines.  Two cases are left out: an [include] of
\* another macros.cfg is taken for one of this file, and a macros.cfg that was
\* not loaded before brings its own links with it.
MigrationKeepsDefinitions ==
  [][\A s \in Sessions :
       LET before == op[s].was
           after  == mirror'[Printer(s)]
           loaded == ToSet(KlipperMacros(before).files)
       IN  (/\ AddInclude(s)
            /\ before[Root] # Absent
            /\ KlipperMacros(before).ok
            /\ before[MacrosCfg] = Absent \/ MacrosCfg \in loaded
            /\ \A i \in DOMAIN before[Root] : ~(before[Root][i].kind = "include"
                                                 /\ before[Root][i].file \in Namesakes)) =>
             \A n \in Names :
               (\A f \in Files \ {Root} : Definitions(before[f], n) = {}) =>
                 Effective(after, n) = Effective(before, n)]_vars

\* When the page has announced that a restore will overwrite printer.cfg, a
\* restore of a true backup that nothing disturbs puts its macros back there.
AnnouncedRestored ==
  [][\A s \in Sessions :
       LET b == op[s].backup
           c == mirror[b.profile][Root]
       IN  (FinishRestore(s) /\ op[s].was # Nowhere /\ b.was # Nowhere
            /\ WillOverwritePrinterCfg(b)) =>
             \A i \in b.items : i.file = Root /\ i.active =>
               \E j \in Definitions(c, i.name) : c[j].body = i.body]_vars

=============================================================================
