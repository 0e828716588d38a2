---------------------------- MODULE MacroHistory ----------------------------
(***************************************************************************)
(* The versioned macro store of KlipperVault: the cfg files of the local   *)
(* mirrors, the SQLite table `macros` that indexing runs derive from them, *)
(* and the user's operations on both.                                      *)
(*                                                                         *)
(* Every browser tab runs its own service over one shared database, so an  *)
(* indexing run of one session interleaves with the operations of another. *)
(* A run first reads the cfg files one by one, with no lock held; then one *)
(* SQLite write transaction takes the records in file order, marks what    *)
(* has gone, recomputes the active commands and commits.  Only one write   *)
(* transaction is open at a time, and readers see the last commit: the     *)
(* run's own view of the table is the field work of its job.               *)
(***************************************************************************)
EXTENDS Naturals, Sequences, FiniteSets

CONSTANTS
  Profiles,      \* printer profiles
  Virtual,       \* those that are virtual printers (no remote, nothing deleted)
  ShareProfile,  \* the profile share files are imported into
  Files,         \* cfg files of a mirror
  FileSeq,       \* the same in the order they are scanned
  ImportFile,    \* "macros.cfg", where imports without a known file go
  Protected,     \* printer.cfg, which users neither edit nor restore to
  Names,         \* macro names, told apart by their lower-case form
  NoName,
  Texts,         \* section texts, told apart by their checksum
  Meaning,       \* Meaning[t]: the parsed content of t, layout removed
  Canonical,     \* Canonical[t]: the text rebuilt from the parsed content of t
  RenameOf,      \* RenameOf[t]: the rename_existing target in t, or NoName
  Offered,       \* section texts that share files and the online repository hold
  Jobs,          \* indexing runs that may overlap
  Sessions,      \* browser tabs that may be restoring a version
  MaxVersions,   \* version_history_size
  VersionBound,  \* bound: no version number beyond this one is handed out
  SectionBound   \* bound: macro sections in one cfg file

ASSUME ProfilesAssumption == Virtual \subseteq Profiles /\ ShareProfile \in Profiles
ASSUME FilesAssumption == /\ FileSeq \in Seq(Files)
                          /\ ImportFile \in Files
                          /\ Protected \subseteq Files
ASSUME NamesAssumption == NoName \notin Names
ASSUME TextsAssumption == /\ DOMAIN Meaning = Texts
                          /\ Canonical \in [Texts -> Texts]
                          /\ \A t \in Texts : Meaning[Canonical[t]] = Meaning[t]
                          /\ Offered \subseteq Texts
                          /\ RenameOf \in [Texts -> Names \cup {NoName}]
ASSUME BoundsAssumption == /\ MaxVersions \in Nat \ {0}
                           /\ VersionBound \in Nat
                           /\ SectionBound \in Nat

VARIABLES
  cfg,        \* cfg[p][f]: the macro sections of file f in the mirror of p
  rows,       \* the committed rows of table `macros`
  job,        \* job[j]: the state of indexing run j
  restoring   \* restoring[s]: the version restore session s is in the middle of

vars == <<cfg, rows, job, restoring>>

-----------------------------------------------------------------------------
(***************************************************************************)
(* Data.  `imported` stands for a non-empty import_source, `runtime` for   *)
(* runtime_macro_name.                                                     *)
(***************************************************************************)
Section == [name : Names, text : Texts]

FileContents == UNION {[1 .. k -> Section] : k \in 0 .. SectionBound}

Record == [file : Files, name : Names, text : Texts]

Row == [profile : Profiles, file : Files, name : Names, version : Nat \ {0},
        text : Texts, isNew : BOOLEAN, isDeleted : BOOLEAN, isActive : BOOLEAN,
        imported : BOOLEAN, runtime : Names]

Macro == [file : Files, name : Names]

NoMacro == [file |-> ImportFile, name |-> NoName]

NoTargets == [n \in Names |-> NoMacro]

Job == [phase : {"idle", "reading", "indexing"}, profile : Profiles, mark : BOOLEAN,
        pos : Nat \ {0}, records : Seq(Record), work : SUBSET Row,
        targets : [Names -> Macro \cup {NoMacro}]]

IdleJob == [phase |-> "idle", profile |-> ShareProfile, mark |-> FALSE, pos |-> 1,
            records |-> << >>, work |-> {}, targets |-> NoTargets]

Restore == [profile : Profiles, file : Files, name : Names, version : Nat \ {0},
            scoped : BOOLEAN, read : BOOLEAN, text : Texts]

NoRestore == [read |-> FALSE]

Own(R, p, f, n) == {r \in R : r.profile = p /\ r.file = f /\ r.name = n}

IsLatest(R, r) == /\ r \in R
                  /\ \A o \in Own(R, r.profile, r.file, r.name) : o.version <= r.version

NewRow(p, f, n, v, t, imported) ==
  [profile |-> p, file |-> f, name |-> n, version |-> v, text |-> t, isNew |-> imported,
   isDeleted |-> FALSE, isActive |-> FALSE, imported |-> imported, runtime |-> n]

\* No indexing transaction holds the database's write lock.
Unlocked == \A j \in Jobs : job[j].phase # "indexing"

-----------------------------------------------------------------------------
(***************************************************************************)
(* The cfg files.                                                          *)
(***************************************************************************)
Without(s, n) == SelectSeq(s, LAMBDA x : x.name # n)

\* The first section of macro n is replaced and its other ones are dropped;
\* with no section of n the new one goes to the end.
ReplaceOrAppend(s, n, t) ==
  LET new == [name |-> n, text |-> t]
  IN  IF \A i \in DOMAIN s : s[i].name # n
      THEN Append(s, new)
      ELSE LET first == CHOOSE i \in DOMAIN s :
                          s[i].name = n /\ \A k \in 1 .. i - 1 : s[k].name # n
           IN  SubSeq(s, 1, first - 1) \o <<new>>
                 \o Without(SubSeq(s, first + 1, Len(s)), n)

\* The file gets the contents s, if they are within the bound.
WriteFile(p, f, s) == s \in FileContents /\ cfg' = [cfg EXCEPT ![p][f] = s]

\* Remote files downloaded to the mirror, an editor, another upload: any content.
DownloadFile(p, f) == /\ \E s \in FileContents : s # cfg[p][f] /\ WriteFile(p, f, s)
                      /\ UNCHANGED <<rows, job, restoring>>

Editable(p, f, n) == \E r \in Own(rows, p, f, n) : IsLatest(rows, r) /\ ~r.isDeleted

EditSection(p, f, n) == /\ f \notin Protected
                        /\ Editable(p, f, n)
                        /\ \E t \in Texts : WriteFile(p, f, ReplaceOrAppend(cfg[p][f], n, t))
                        /\ UNCHANGED <<rows, job, restoring>>

DeleteSource(p, f, n) == /\ f \notin Protected
                         /\ Editable(p, f, n)
                         /\ \E i \in DOMAIN cfg[p][f] : cfg[p][f][i].name = n
                         /\ WriteFile(p, f, Without(cfg[p][f], n))
                         /\ UNCHANGED <<rows, job, restoring>>

-----------------------------------------------------------------------------
(***************************************************************************)
(* An indexing run: read the files, open the transaction, take the records *)
(* one by one, settle the flags and commit.                                *)
(***************************************************************************)
StartIndex(j, p, mark) ==
  /\ job[j].phase = "idle"
  /\ mark => p \notin Virtual
  /\ job' = [job EXCEPT ![j] = [IdleJob EXCEPT !.phase = "reading", !.profile = p,
                                              !.mark = mark]]
  /\ UNCHANGED <<cfg, rows, restoring>>

ReadFile(j) ==
  LET p == job[j].profile
      f == FileSeq[job[j].pos]
      found == [i \in DOMAIN cfg[p][f] |->
                  [file |-> f, name |-> cfg[p][f][i].name, text |-> cfg[p][f][i].text]]
  IN  /\ job[j].phase = "reading"
      /\ job[j].pos \in DOMAIN FileSeq
      /\ job' = [job EXCEPT ![j].records = @ \o found, ![j].pos = @ + 1]
      /\ UNCHANGED <<cfg, rows, restoring>>

BeginTransaction(j) ==
  /\ job[j].phase = "reading"
  /\ job[j].pos \notin DOMAIN FileSeq
  /\ Unlocked
  /\ job' = [job EXCEPT ![j].phase = "indexing", ![j].pos = 1, ![j].work = rows]
  /\ UNCHANGED <<cfg, rows, restoring>>

\* Mutant of Matches: only checksums are compared, so layout makes a version.
MatchesByText(own, latest, t) == {r \in own : r.text = t}

\* The stored versions a record may be taken for: those with its very text;
\* failing that the latest one, or else any other, with the same meaning.
Matches(own, latest, t) ==
  LET same  == {r \in own : r.text = t}
      equal == {r \in own : Meaning[r.text] = Meaning[t]}
  IN  IF same # {} THEN same ELSE IF latest \in equal THEN {latest} ELSE equal

\* Mutants of Promoted: the rows above stay; all rows move down; the promoted
\* row keeps its old checksum.
PromotedInPlace(own, m, latest, t) ==
  {[r EXCEPT !.version = IF r = m THEN latest.version ELSE r.version,
             !.text = IF r = m THEN t ELSE r.text] : r \in own}
PromotedShiftingAll(own, m, latest, t) ==
  {[r EXCEPT !.version = IF r = m THEN latest.version ELSE r.version - 1,
             !.text = IF r = m THEN t ELSE r.text] : r \in own}
PromotedOldText(own, m, latest, t) ==
  {[r EXCEPT !.version = IF r = m THEN latest.version
                         ELSE IF m.version < r.version THEN r.version - 1 ELSE r.version,
             !.isNew   = r # m /\ r.isNew] : r \in own}

\* Row m becomes the latest version; those above it move down by one.
Promoted(own, m, latest, t) ==
  {[r EXCEPT !.version = IF r = m THEN latest.version
                         ELSE IF m.version < r.version THEN r.version - 1 ELSE r.version,
             !.text    = IF r = m THEN t ELSE r.text,
             !.isNew   = r # m /\ r.isNew] : r \in own}

\* Mutants of Pruned: one version too many stays; the old ones stay.
PrunedLate(own, newest) == {r \in own : r.version + MaxVersions >= newest}
PrunedNewest(own, newest) == {r \in own : r.version <= MaxVersions}

\* Only versions above the newest minus MaxVersions stay.
Pruned(own, newest) == {r \in own : r.version + MaxVersions > newest}

Inserted(own, new) == Pruned(own \cup {new}, new.version)

\* What the versions of the record's macro can be once the record was taken.
Upserted(own, p, rec) ==
  LET new(v) == NewRow(p, rec.file, rec.name, v, rec.text, FALSE)
  IN  IF own = {} THEN {Inserted({}, new(1))}
      ELSE UNION {LET m == Matches(own, l, rec.text)
                  IN  IF m = {} THEN {Inserted(own, new(l.version + 1))}
                      ELSE {Promoted(own, r, l, rec.text) :
                              r \in {r \in m : \A o \in m : r.version <= o.version}}
                  : l \in {l \in own : IsLatest(own, l)}}

\* Mutant of Override: the first definition keeps the command.
OverrideFirst(targets, rec) ==
  [n \in Names |-> IF n = rec.name /\ targets[n] = NoMacro
                   THEN [file |-> rec.file, name |-> rec.name] ELSE targets[n]]

\* A later definition of n takes the command n over; with rename_existing the
\* definition it replaces stays callable under the other name.
Override(targets, rec) ==
  [n \in Names |->
     IF n = rec.name THEN [file |-> rec.file, name |-> rec.name]
     ELSE IF n = RenameOf[rec.text] /\ targets[rec.name] # NoMacro THEN targets[rec.name]
     ELSE targets[n]]

IndexRecord(j) ==
  LET p   == job[j].profile
      rec == job[j].records[job[j].pos]
      own == Own(job[j].work, p, rec.file, rec.name)
  IN  /\ job[j].phase = "indexing"
      /\ job[j].pos \in DOMAIN job[j].records
      /\ \E new \in Upserted(own, p, rec) :
           /\ \A r \in new : r.version <= VersionBound
           /\ job' = [job EXCEPT ![j].work    = (@ \ own) \cup new,
                                 ![j].targets = Override(@, rec),
                                 ![j].pos     = @ + 1]
      /\ UNCHANGED <<cfg, rows, restoring>>

Seen(j) == {[file |-> job[j].records[i].file, name |-> job[j].records[i].name] :
              i \in DOMAIN job[j].records}

\* Mutants of Settled: an import that the scan misses counts as deleted; the new
\* mark stays on a row that became active; nobody resets is_active.
SettledLosingImports(j, r) ==
  LET macro  == [file |-> r.file, name |-> r.name]
      latest == IsLatest(job[j].work, r)
  IN  [r EXCEPT !.isDeleted = latest /\ macro \notin Seen(j)]
SettledStillNew(j, r) ==
  LET macro == [file |-> r.file, name |-> r.name]
  IN  [r EXCEPT !.isActive = \E n \in Names : job[j].targets[n] = macro]
SettledWithoutReset(j, r) ==
  LET macro == [file |-> r.file, name |-> r.name]
      calls == {n \in Names : job[j].targets[n] = macro}
  IN  [r EXCEPT !.isActive = @ \/ calls # {},
                !.runtime  = IF r.name \in calls \/ calls = {} THEN r.name
                             ELSE CHOOSE n \in calls : TRUE]

\* The final flags of row r of the run's profile: deleted when the scan marks
\* what it misses and r is not an import still to be activated; active when r
\* is the latest version of a macro that some command name now calls.
Settled(j, r) ==
  LET macro   == [file |-> r.file, name |-> r.name]
      latest  == IsLatest(job[j].work, r)
      seen    == macro \in Seen(j)
      calls   == {n \in Names : job[j].targets[n] = macro}
      deleted == job[j].mark /\ IF latest THEN ~seen /\ ~(r.isNew /\ r.imported)
                                ELSE r.isDeleted
      active  == latest /\ ~deleted /\ calls # {}
  IN  [r EXCEPT !.isDeleted = deleted,
                !.isNew     = r.isNew /\ ~(latest /\ seen),
                !.isActive  = active,
                !.runtime   = IF active /\ r.name \notin calls
                              THEN CHOOSE n \in calls : TRUE ELSE r.name]

FinishIndex(j) ==
  /\ job[j].phase = "indexing"
  /\ job[j].pos \notin DOMAIN job[j].records
  /\ rows' = {r \in job[j].work : r.profile # job[j].profile}
               \cup {Settled(j, r) : r \in {r \in job[j].work : r.profile = job[j].profile}}
  /\ job' = [job EXCEPT ![j] = IdleJob]
  /\ UNCHANGED <<cfg, restoring>>

\* An exception or a crash: the transaction is rolled back.
AbortIndex(j) == /\ job[j].phase # "idle"
                 /\ job' = [job EXCEPT ![j] = IdleJob]
                 /\ UNCHANGED <<cfg, rows, restoring>>

-----------------------------------------------------------------------------
(***************************************************************************)
(* Restoring a version: pick a version number; read the row (one commit    *)
(* that clears isNew); write its section to the cfg file.  The numbers may *)
(* have moved between the first two steps.                                 *)
(***************************************************************************)
Pick(p, r, scoped) ==
  [profile |-> p, file |-> r.file, name |-> r.name, version |-> r.version,
   scoped |-> scoped, read |-> FALSE, text |-> r.text]

SelectVersion(s, r) == /\ restoring[s] = NoRestore
                       /\ r.file \notin Protected
                       /\ restoring' = [restoring EXCEPT ![s] = Pick(r.profile, r, TRUE)]
                       /\ UNCHANGED <<cfg, rows, job>>

\* The rows the SELECT of restore_macro_version matches.
Selected(s) == {r \in rows : /\ r.file = restoring[s].file
                             /\ r.name = restoring[s].name
                             /\ r.version = restoring[s].version
                             /\ restoring[s].scoped => r.profile = restoring[s].profile}

\* _macro_version_to_section_text: the section written from a row's columns.
SectionText(r) == Canonical[r.text]

ReadVersion(s) ==
  /\ restoring[s] # NoRestore /\ ~restoring[s].read
  /\ Unlocked
  /\ \E r \in Selected(s) :
       /\ rows' = IF r.isNew
                  THEN {[o EXCEPT !.isNew = @ /\ o \notin Selected(s)] : o \in rows}
                  ELSE rows
       /\ restoring' = [restoring EXCEPT ![s].read = TRUE, ![s].text = SectionText(r)]
  /\ UNCHANGED <<cfg, job>>

WriteRestore(s) ==
  /\ restoring[s] # NoRestore /\ restoring[s].read
  /\ LET p == restoring[s].profile  f == restoring[s].file
     IN  WriteFile(p, f, ReplaceOrAppend(cfg[p][f], restoring[s].name, restoring[s].text))
  /\ restoring' = [restoring EXCEPT ![s] = NoRestore]
  /\ UNCHANGED <<rows, job>>

\* No such row any more, an I/O error or a crash.
FailRestore(s) == /\ restoring[s] # NoRestore
                  /\ restoring' = [restoring EXCEPT ![s] = NoRestore]
                  /\ UNCHANGED <<cfg, rows, job>>

-----------------------------------------------------------------------------
(***************************************************************************)
(* Imports: inactive rows marked new.  A share import counts its version   *)
(* number over all profiles; an online import stays in its own profile,    *)
(* skips a text it already has as the latest, and may go on to restore the *)
(* version it added, whichever profile the row with that number is in.     *)
(***************************************************************************)
ImportShare(n, t) ==
  LET all == {r \in rows : r.file = ImportFile /\ r.name = n}
  IN  /\ Unlocked
      /\ \E v \in 1 .. VersionBound :
           /\ \A r \in all : r.version < v
           /\ v = 1 \/ \E r \in all : r.version = v - 1
           /\ rows' = rows \cup {NewRow(ShareProfile, ImportFile, n, v, t, TRUE)}
      /\ UNCHANGED <<cfg, job, restoring>>

\* The versions of macro n that the online check compares with.  A promotion, an
\* import and a scan that finds a row make it the latest of its macro and give
\* it the newest time, so within one file the latest import is the newest one;
\* which file has the newest is left open.
Imports(p, n) ==
  {r \in rows : /\ r.profile = p /\ r.name = n /\ r.imported
                /\ \A o \in Own(rows, p, r.file, n) : o.imported => o.version <= r.version}

\* Mutant of LocalSources: the imports count only when nothing is in use.
LocalSourcesInUse(p, n) ==
  LET known  == {r \in rows : r.profile = p /\ r.name = n /\ ~r.isDeleted}
      active == {r \in known : r.isActive}
  IN  IF active # {} THEN active ELSE IF known # {} THEN known ELSE Imports(p, n)

\* The imports; failing that the active versions, or else those not deleted.
LocalSources(p, n) ==
  LET known  == {r \in rows : r.profile = p /\ r.name = n /\ ~r.isDeleted}
      active == {r \in known : r.isActive}
  IN  IF Imports(p, n) # {} THEN Imports(p, n) ELSE IF active # {} THEN active ELSE known

SourceFiles(p, n) ==
  IF LocalSources(p, n) = {} THEN {ImportFile} ELSE {r.file : r \in LocalSources(p, n)}

\* The check lists text t of the repository as an update of macro n, whichever
\* of its versions it compares with.
UpdateOffered(p, n, t) == \A r \in LocalSources(p, n) : Meaning[r.text] # Meaning[t]

\* An online import of text t as macro n of file f gets version v.
IsNextOnline(p, f, n, v, t) ==
  LET own == Own(rows, p, f, n)
  IN  /\ \A r \in own : r.version < v
      /\ v = 1 \/ \E r \in own : r.version = v - 1 /\ r.text # t

ImportOnline(p, n, t) ==
  /\ Unlocked
  /\ \E f \in SourceFiles(p, n), v \in 1 .. VersionBound :
       /\ IsNextOnline(p, f, n, v, t)
       /\ rows' = rows \cup {NewRow(p, f, n, v, t, TRUE)}
  /\ UNCHANGED <<cfg, job, restoring>>

\* The check of a virtual printer imports at once what it finds; when the rows
\* change between the two it is an import like any other.
AutoImport(p, n, t) == p \in Virtual /\ UpdateOffered(p, n, t) /\ ImportOnline(p, n, t)

ImportAndActivate(s, p, n, t) ==
  /\ Unlocked
  /\ restoring[s] = NoRestore
  /\ \E f \in SourceFiles(p, n), v \in 1 .. VersionBound :
       LET new == NewRow(p, f, n, v, t, TRUE)
       IN  /\ IsNextOnline(p, f, n, v, t)
           /\ rows' = rows \cup {new}
           /\ restoring' = [restoring EXCEPT ![s] = Pick(p, new, FALSE)]
  /\ UNCHANGED <<cfg, job>>

-----------------------------------------------------------------------------
(***************************************************************************)
(* Removing history.                                                       *)
(***************************************************************************)
RemoveDeleted(p, f, n) ==
  /\ Unlocked
  /\ \E r \in Own(rows, p, f, n) : IsLatest(rows, r) /\ r.isDeleted
  /\ rows' = rows \ Own(rows, p, f, n)
  /\ UNCHANGED <<cfg, job, restoring>>

RemoveInactive(r) ==
  /\ Unlocked
  /\ ~r.isActive /\ ~r.isDeleted
  /\ rows' = rows \ {r}
  /\ UNCHANGED <<cfg, job, restoring>>

\* The statement joins p's deleted rows with the highest version over all
\* profiles, and deletes by file and name in all profiles.
PurgeAllDeleted(p) ==
  LET doomed == {r \in rows : /\ r.profile = p /\ r.isDeleted
                              /\ \A o \in rows : o.file = r.file /\ o.name = r.name
                                                => o.version <= r.version}
  IN  /\ Unlocked
      /\ doomed # {}
      /\ rows' = {r \in rows : \A d \in doomed : r.file # d.file \/ r.name # d.name}
      /\ UNCHANGED <<cfg, job, restoring>>

-----------------------------------------------------------------------------
Init == /\ cfg \in [Profiles -> [Files -> {<< >>}]]
        /\ rows = {}
        /\ job = [j \in Jobs |-> IdleJob]
        /\ restoring = [s \in Sessions |-> NoRestore]

Indexing == \E j \in Jobs :
              \/ \E p \in Profiles, mark \in BOOLEAN : StartIndex(j, p, mark)
              \/ ReadFile(j) \/ BeginTransaction(j) \/ IndexRecord(j)
              \/ FinishIndex(j) \/ AbortIndex(j)

Editing == \E p \in Profiles, f \in Files :
             \/ DownloadFile(p, f)
             \/ \E n \in Names : EditSection(p, f, n) \/ DeleteSource(p, f, n)

Restoring == \E s \in Sessions :
               \/ \E r \in rows : SelectVersion(s, r)
               \/ ReadVersion(s) \/ WriteRestore(s) \/ FailRestore(s)

Importing == \E n \in Names, t \in Offered :
               \/ ImportShare(n, t)
               \/ \E p \in Profiles : \/ ImportOnline(p, n, t) \/ AutoImport(p, n, t)
                                     \/ \E s \in Sessions : ImportAndActivate(s, p, n, t)

Removing == \/ \E p \in Profiles : PurgeAllDeleted(p)
            \/ \E p \in Profiles, f \in Files, n \in Names : RemoveDeleted(p, f, n)
            \/ \E r \in rows : RemoveInactive(r)

Next == Indexing \/ Editing \/ Restoring \/ Importing \/ Removing

Spec == Init /\ [][Next]_vars

-----------------------------------------------------------------------------
(***************************************************************************)
(* Properties.                                                             *)
(***************************************************************************)
TypeOK == /\ cfg \in [Profiles -> [Files -> FileContents]]
          /\ rows \subseteq Row
          /\ job \in [Jobs -> Job]
          /\ restoring \in [Sessions -> Restore \cup {NoRestore}]

Unique(R) == \A r, s \in R :
               (/\ r.profile = s.profile /\ r.file = s.file /\ r.name = s.name
                /\ r.version = s.version) => r = s

\* No two rows of one macro of one profile have the same version number, in the
\* table as in a run's view of it: renumbering in _promote_existing_version_to_latest,
\* and numbers counted by imports, removals and pruning, never break
\* idx_macros_version_profile.
UniqueVersions == Unique(rows) /\ \A j \in Jobs : Unique(job[j].work)

\* A command name of a printer is the active name of at most one row, whatever
\* overrides and rename_existing chains the files hold (index_macros).
OneActivePerName == \A r, s \in rows :
                      (/\ r.isActive /\ s.isActive
                       /\ r.profile = s.profile /\ r.runtime = s.runtime) => r = s

\* A row marked new is an import nobody has reviewed yet: it is never shown as
\* active or as deleted, however many scans, promotions and removals happen
\* around it (is_new in index_macros and restore_macro_version).
PendingImports == \A r \in rows : r.isNew => r.imported /\ ~r.isDeleted /\ ~r.isActive

\* After a run, every macro it saw has as its latest version the text of the
\* last section it saw, neither new nor deleted: no order of promotions,
\* insertions and pruning leaves another one on top (index_macros).
IndexCaptures ==
  [][\A j \in Jobs : FinishIndex(j) =>
       \A i \in DOMAIN job[j].records :
         LET rec == job[j].records[i] IN
         (\A k \in i + 1 .. Len(job[j].records) :
            job[j].records[k].file # rec.file \/ job[j].records[k].name # rec.name)
         => \E r \in Own(rows', job[j].profile, rec.file, rec.name) :
              /\ IsLatest(rows', r)
              /\ r.text = rec.text /\ ~r.isNew /\ ~r.isDeleted]_vars

\* After a run, the command of a name that no later section renames something
\* to is the last section's that defines it (runtime_target_by_name in
\* index_macros).  Last means in the order of the scan, which takes all files of
\* the mirror by path (_collect_macro_records_flat).  Klipper takes them in the
\* order of the includes, and so say the comment in the code ("by cfg loading
\* order", klipper_macro_indexer.py:1536) and Docs/ARCHITECTURE.md:346; where the
\* two orders agree is ActiveIsEffective of BackupRestore.
LastDefinitionRuns ==
  [][\A j \in Jobs : FinishIndex(j) =>
       \A i \in DOMAIN job[j].records :
         LET rec == job[j].records[i] IN
         (\A k \in i + 1 .. Len(job[j].records) :
            job[j].records[k].name # rec.name /\ RenameOf[job[j].records[k].text] # rec.name)
         => \E r \in Own(rows', job[j].profile, rec.file, rec.name) :
              r.isActive /\ r.runtime = rec.name /\ r.text = rec.text]_vars

\* A scan that finds a macro once, with the meaning of its latest version, adds
\* no version, drops none and moves no number up (content_changed and the
\* promotions in index_macros).
QuietScan ==
  [][\A j \in Jobs : FinishIndex(j) =>
       \A i \in DOMAIN job[j].records, l \in rows :
         LET rec == job[j].records[i]
             p   == job[j].profile
         IN  (/\ l \in Own(rows, p, rec.file, rec.name) /\ IsLatest(rows, l)
              /\ Meaning[l.text] = Meaning[rec.text]
              /\ \A k \in DOMAIN job[j].records \ {i} :
                   job[j].records[k].file # rec.file \/ job[j].records[k].name # rec.name)
             => LET own == Own(rows', p, rec.file, rec.name)
                IN  /\ Cardinality(own) = Cardinality(Own(rows, p, rec.file, rec.name))
                    /\ \E r \in own : IsLatest(own, r) /\ r.version = l.version]_vars

\* A run leaves an import that waits for its review exactly as it was when the
\* scan holds no section of that macro (is_new and import_source in index_macros).
UnseenImportsKept ==
  [][\A j \in Jobs : FinishIndex(j) =>
       \A r \in rows :
         (/\ r.isNew /\ r.profile = job[j].profile
          /\ [file |-> r.file, name |-> r.name] \notin Seen(j)) => r \in rows']_vars

\* A run changes no row of another profile, not even one committed by another
\* session since the run read its files (printer_profile_id in index_macros and
\* the write transaction around it).
OtherProfilesKept ==
  [][\A j \in Jobs : FinishIndex(j) =>
       \A r \in rows \cup rows' :
         r.profile # job[j].profile => r \in rows /\ r \in rows']_vars

\* Purging the deleted macros of the printer in view removes no row of another
\* printer (remove_all_deleted_macros, which is passed the printer's profile id).
PurgeStaysInProfile ==
  [][\A p \in Profiles : PurgeAllDeleted(p) => \A r \in rows \ rows' : r.profile = p]_vars

\* What an automatic update has imported, the next check does not offer again,
\* whatever other versions the printer has of that macro, in whatever files
\* (check_online_macro_updates after import_online_macro_updates).
UpdateSettles ==
  [][\A p \in Virtual, n \in Names, t \in Offered :
       AutoImport(p, n, t) => ~UpdateOffered(p, n, t)']_vars

-----------------------------------------------------------------------------
(***************************************************************************)
(* The table implements MruHistory: the history of a macro is the list of  *)
(* the meanings of its rows in the order of their version numbers.         *)
(***************************************************************************)
AllMacros == Profiles \X Files \X Names

Kept(R) == [m \in AllMacros |->
              LET own == Own(R, m[1], m[2], m[3])
                  nth(i) == CHOOSE r \in own :
                              Cardinality({o \in own : o.version <= r.version}) = i
              IN  [i \in 1 .. Cardinality(own) |-> Meaning[nth(i).text]]]

Mru == INSTANCE MruHistory WITH
         Macros   <- AllMacros,
         Contents <- {Meaning[t] : t \in Texts},
         Capacity <- MaxVersions,
         Writers  <- Jobs,
         kept     <- Kept(rows),
         draft    <- [j \in Jobs |-> Kept(job[j].work)],
         open     <- {j \in Jobs : job[j].phase = "indexing"}

\* Version numbers, checksums, promotion, pruning by number and rollback
\* together behave as a most-recently-used list of the contents of each macro.
ImplementsMru == Mru!Spec

=============================================================================
