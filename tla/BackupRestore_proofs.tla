------------------------ MODULE BackupRestore_proofs ------------------------
(***************************************************************************)
(* Theorems about BackupRestore, for all files, macros, printers, sessions *)
(* and bounds: a restore is at every moment a mixture of the old files and *)
(* the new ones, an undisturbed one brings back what the backup is of,     *)
(* what a migration has cut out of printer.cfg is in its backup, one that  *)
(* is undisturbed keeps the definitions, files and backups keep their      *)
(* types, and the loading overview of every mirror is what Klipper reads.  *)
(***************************************************************************)
EXTENDS BackupRestore, IncludeOrder_proofs, TLAPS

(***************************************************************************)
(* Shapes.  What a file holds never matters here, so the types say only    *)
(* which functions and records there are.                                  *)
(***************************************************************************)
IsTree(t) == t = [f \in Files |-> t[f]]

IsBackup(b) == /\ b = [profile |-> b.profile, items |-> b.items, files |-> b.files, was |-> b.was]
               /\ b.profile \in Profiles
               /\ IsTree(b.files)

IsOp(o) == /\ o = [phase |-> o.phase, migrates |-> o.migrates, id |-> o.id, backup |-> o.backup,
                   todo |-> o.todo, cut |-> o.cut, was |-> o.was]
           /\ o.phase # "idle" => IsBackup(o.backup)
           /\ o.todo \subseteq Files

Shape == /\ mirror = [p \in Profiles |-> mirror[p]]
         /\ \A p \in Profiles : IsTree(mirror[p])
         /\ op = [s \in Sessions |-> op[s]]
         /\ \A s \in Sessions : IsOp(op[s])
         /\ backups = [id \in Ids |-> backups[id]]
         /\ \A id \in Ids : backups[id] # NoBackup => IsBackup(backups[id])

(***************************************************************************)
(* The invariant, of an operation o on a mirror m.                         *)
(***************************************************************************)
\* The files a backup of tree t copies.
Bearers(t) == {f \in Files \ {Root} : Bearing(t[f])}

\* Backup b, once it has copied all files but those in F, is of the tree it says.
CopiedBut(b, F) ==
  b.was # Nowhere =>
    /\ F \subseteq Bearers(b.was)
    /\ \A f \in Files : b.files[f] = IF f \in Bearers(b.was) \ F THEN b.was[f] ELSE Absent
    /\ \A n \in Names : Definitions(b.was[Root], n) # {} =>
         \E i \in b.items : /\ i.file = Root /\ i.name = n
                            /\ i.body = b.was[Root][Max(Definitions(b.was[Root], n))].body

Faithful(b) == CopiedBut(b, {})

CopyOK(o, m) == o.phase = "copy" => /\ o.backup.was # Nowhere => o.backup.was = m
                                    /\ CopiedBut(o.backup, o.todo)

\* Tree b once the macros of printer.cfg are cut out, and once they are appended
\* to macros.cfg.
CutOut(b) == [f \in Files |-> IF f = Root THEN Only(b[Root], Link \cup Other) ELSE b[f]]

Gathered(b) == [f \in Files |-> IF f = MacrosCfg THEN Text(b[MacrosCfg]) \o Only(b[Root], Macro)
                                ELSE CutOut(b)[f]]

MigrationOK(o, m) ==
  o.was # Nowhere =>
    /\ o.phase \in {"copy", "move"} => o.was = m
    /\ o.phase \in {"copy", "move", "append"} /\ o.backup.was # Nowhere => o.backup.was = o.was
    /\ o.phase = "append" => o.cut = o.was[Root] /\ m = CutOut(o.was)
    /\ o.phase = "include" => m = Gathered(o.was)

\* The mixture, and how far it has come.
RestoreOK(o, m) ==
  o.was # Nowhere /\ o.phase \in {"write", "prune"} =>
    LET new == Content(o.backup)
    IN  /\ \A f \in PrinterCfgs : m[f] = o.was[f]
        /\ \A f \in Files : \/ m[f] = o.was[f]
                            \/ m[f] = new[f] /\ new[f] # Absent
                            \/ m[f] = Absent /\ new[f] = Absent /\ Bearing(o.was[f])
        /\ o.todo \cap PrinterCfgs = {}
        /\ o.phase = "write" => \A f \in o.todo : new[f] # Absent
        /\ \A f \in Files \ PrinterCfgs :
             \/ f \in o.todo
             \/ new[f] # Absent /\ m[f] = new[f]
             \/ new[f] = Absent /\ (o.phase = "prune" => ~Bearing(m[f]))
        /\ o.phase = "prune" =>
             \A f \in Files \ PrinterCfgs : new[f] # Absent => m[f] = new[f]

Kept(o) == o.phase \in {"move", "append", "include", "write", "prune"} => Faithful(o.backup)

SessionOK(o, m) == CopyOK(o, m) /\ MigrationOK(o, m) /\ RestoreOK(o, m) /\ Kept(o)

Sound == /\ \A s \in Sessions : op[s].phase # "idle" => SessionOK(op[s], mirror[Printer(s)])
         /\ \A id \in Ids : backups[id] # NoBackup => Faithful(backups[id])

Inv == Shape /\ Sound

-----------------------------------------------------------------------------
LEMMA IdleIs ==
  /\ IsOp(Idle) /\ Idle.phase = "idle" /\ Idle.todo = {}
BY DEF Idle, IsOp

LEMMA InitOK == Init => Inv
<1> SUFFICES ASSUME Init PROVE Inv
  OBVIOUS
<1>1. mirror = [p \in Profiles |-> mirror[p]]
  BY DEF Init
<1>2. \A p \in Profiles : IsTree(mirror[p])
  BY LayoutsAssumption DEF Init, IsTree, Tree
<1>3. /\ op = [s \in Sessions |-> op[s]]
      /\ \A s \in Sessions : op[s] = Idle
  BY DEF Init
<1>4. /\ backups = [id \in Ids |-> backups[id]]
      /\ \A id \in Ids : backups[id] = NoBackup
  BY DEF Init
<1> QED
  BY <1>1, <1>2, <1>3, <1>4, IdleIs DEF Inv, Shape, Sound

-----------------------------------------------------------------------------
(***************************************************************************)
(* What one session does to the others.                                    *)
(***************************************************************************)
\* A disturbed operation loses its history, and with it every claim about the
\* mirror.
LEMMA UndoneOK ==
  ASSUME NEW o, IsOp(o), NEW m, NEW m2, NEW p,
         o.phase # "idle" => SessionOK(o, m),
         o.backup.profile # p => m2 = m
  PROVE  /\ IsOp(Undone(o, p))
         /\ Undone(o, p).phase = o.phase
         /\ Undone(o, p).backup.profile = o.backup.profile
         /\ o.phase # "idle" => SessionOK(Undone(o, p), m2)
<1>1. CASE o.backup.profile # p \/ o.phase = "idle"
  BY <1>1 DEF Undone
<1>2. CASE o.backup.profile = p /\ o.phase # "idle"
  <2> DEFINE u == Undone(o, p)
  <2>1. u = [o EXCEPT !.was = Nowhere,
                      !.backup.was = IF o.phase = "copy" THEN Nowhere ELSE @]
    BY <1>2 DEF Undone
  <2>2. /\ o = [phase |-> o.phase, migrates |-> o.migrates, id |-> o.id, backup |-> o.backup,
                todo |-> o.todo, cut |-> o.cut, was |-> o.was]
        /\ o.backup = [profile |-> o.backup.profile, items |-> o.backup.items,
                       files |-> o.backup.files, was |-> o.backup.was]
    BY <1>2 DEF IsOp, IsBackup
  <2> DEFINE w == IF o.phase = "copy" THEN Nowhere ELSE o.backup.was
             b == [profile |-> o.backup.profile, items |-> o.backup.items,
                   files |-> o.backup.files, was |-> w]
  <2>a. [o.backup EXCEPT !.was = w] = b
    BY <2>2
  <2>b. u = [phase |-> o.phase, migrates |-> o.migrates, id |-> o.id, backup |-> b,
             todo |-> o.todo, cut |-> o.cut, was |-> Nowhere]
    BY <2>1, <2>2, <2>a
  <2>c. o.phase # "copy" => b = o.backup
    BY <2>2
  <2>3. /\ u = [phase |-> u.phase, migrates |-> u.migrates, id |-> u.id, backup |-> u.backup,
                todo |-> u.todo, cut |-> u.cut, was |-> u.was]
        /\ u.phase = o.phase /\ u.todo = o.todo /\ u.was = Nowhere
        /\ u.backup = [profile |-> u.backup.profile, items |-> u.backup.items,
                       files |-> u.backup.files, was |-> u.backup.was]
        /\ u.backup.profile = o.backup.profile
        /\ u.backup.files = o.backup.files
        /\ o.phase = "copy" => u.backup.was = Nowhere
        /\ o.phase # "copy" => u.backup = o.backup
    BY <2>b, <2>c
  <2> HIDE DEF u
  <2>4. IsOp(u)
    BY <1>2, <2>3 DEF IsOp, IsBackup
  <2>5. CopyOK(u, m2)
    BY <2>3 DEF CopyOK, CopiedBut
  <2>6. MigrationOK(u, m2) /\ RestoreOK(u, m2)
    BY <2>3 DEF MigrationOK, RestoreOK
  <2>7. Kept(u)
    BY <1>2, <2>3 DEF Kept, SessionOK
  <2> QED
    BY <1>2, <2>3, <2>4, <2>5, <2>6, <2>7 DEF SessionOK, u
<1> QED
  BY <1>1, <1>2

\* A session goes on, and the mirrors stay.
LEMMA ContinueOK ==
  ASSUME Inv, NEW s \in Sessions, NEW o, Continue(s, o), IsOp(o),
         o.phase # "idle" => SessionOK(o, mirror[o.backup.profile]),
         backups' = [id \in Ids |-> backups'[id]],
         \A id \in Ids : backups'[id] # NoBackup => IsBackup(backups'[id]) /\ Faithful(backups'[id])
  PROVE  Inv'
<1>1. mirror' = mirror /\ op' = [op EXCEPT ![s] = o]
  BY DEF Continue
<1>2. /\ op' = [r \in Sessions |-> op'[r]]
      /\ op'[s] = o
      /\ \A r \in Sessions \ {s} : op'[r] = op[r]
  BY <1>1 DEF Inv, Shape
<1>3. Shape'
  BY <1>1, <1>2 DEF Inv, Shape
<1>4. ASSUME NEW r \in Sessions, op'[r].phase # "idle"
      PROVE  SessionOK(op'[r], mirror'[op'[r].backup.profile])
  BY <1>1, <1>2, <1>4 DEF Inv, Sound, Printer
<1>5. Sound'
  BY <1>4 DEF Sound, Printer
<1> QED
  BY <1>3, <1>5 DEF Inv

\* A session goes on, having changed its printer's mirror.
LEMMA WriteOK ==
  ASSUME Inv, NEW s \in Sessions, NEW t, IsTree(t), NEW o, Write(s, t, o), IsOp(o),
         op[s].phase # "idle",
         o.phase # "idle" => o.backup.profile = Printer(s) /\ SessionOK(o, t),
         backups' = backups
  PROVE  Inv'
<1> DEFINE p == op[s].backup.profile
<1>1. /\ mirror' = [mirror EXCEPT ![p] = t]
      /\ op' = [r \in Sessions |-> IF r = s THEN o ELSE Undone(op[r], p)]
  BY DEF Write, Printer
<1>2. p \in Profiles
  BY DEF Inv, Shape, IsOp, IsBackup
<1> HIDE DEF p
<1>3. /\ mirror' = [q \in Profiles |-> mirror'[q]]
      /\ mirror'[p] = t
      /\ \A q : q # p => mirror'[q] = mirror[q]
  BY <1>1, <1>2 DEF Inv, Shape
<1>4. ASSUME NEW r \in Sessions
      PROVE  /\ IsOp(op'[r])
             /\ op'[r].phase # "idle" => SessionOK(op'[r], mirror'[op'[r].backup.profile])
  <2>1. CASE r = s
    BY <1>1, <1>3, <2>1 DEF Printer, p
  <2>2. CASE r # s
    <3>1. op'[r] = Undone(op[r], p)
      BY <1>1, <2>2
    <3>2. /\ IsOp(op[r])
          /\ op[r].phase # "idle" => SessionOK(op[r], mirror[op[r].backup.profile])
      BY DEF Inv, Shape, Sound, Printer
    <3> DEFINE q == op[r].backup.profile
    <3>3. q # p => mirror'[q] = mirror[q]
      BY <1>3
    <3> HIDE DEF q
    <3>4. /\ IsOp(Undone(op[r], p))
          /\ Undone(op[r], p).phase = op[r].phase
          /\ Undone(op[r], p).backup.profile = op[r].backup.profile
          /\ op[r].phase # "idle" => SessionOK(Undone(op[r], p), mirror'[q])
      BY <3>2, <3>3, UndoneOK DEF q
    <3> QED
      BY <3>1, <3>4 DEF q
  <2> QED
    BY <2>1, <2>2
<1>5. op' = [r \in Sessions |-> op'[r]]
  BY <1>1
<1>6. Shape'
  BY <1>3, <1>4, <1>5 DEF Inv, Shape
<1>7. Sound'
  BY <1>4 DEF Inv, Sound, Printer
<1> QED
  BY <1>6, <1>7 DEF Inv

-----------------------------------------------------------------------------
(***************************************************************************)
(* The actions that leave the operations alone, and edits.                 *)
(***************************************************************************)
LEMMA ScanOK == ASSUME Inv, NEW p \in Profiles, Scan(p) PROVE Inv'
<1>1. UNCHANGED <<mirror, backups, op>>
  BY DEF Scan
<1> QED
  BY <1>1 DEF Inv, Shape, Sound, Printer

LEMMA DeleteOK == ASSUME Inv, NEW id \in Ids, DeleteBackup(id) PROVE Inv'
<1>1. UNCHANGED <<mirror, op>> /\ backups' = [backups EXCEPT ![id] = NoBackup]
  BY DEF DeleteBackup
<1>2. /\ backups' = [i \in Ids |-> backups'[i]]
      /\ \A i \in Ids : backups'[i] # NoBackup => backups'[i] = backups[i]
  BY <1>1 DEF Inv, Shape
<1> QED
  BY <1>1, <1>2 DEF Inv, Shape, Sound, Printer

LEMMA EditOK == ASSUME Inv, NEW p \in Profiles, NEW f \in Files, Edit(p, f) PROVE Inv'
<1>1. PICK c \in Layouts[f] : mirror' = [mirror EXCEPT ![p][f] = c]
  BY DEF Edit
<1>2. /\ op' = [s \in Sessions |-> Undone(op[s], p)]
      /\ backups' = backups
  BY DEF Edit
<1> DEFINE t == [mirror[p] EXCEPT ![f] = c]
<1>a. mirror' = [mirror EXCEPT ![p] = t]
  BY <1>1
<1>3. /\ mirror' = [q \in Profiles |-> mirror'[q]]
      /\ mirror'[p] = t
      /\ \A q : q # p => mirror'[q] = mirror[q]
  <2> HIDE DEF t
  <2> QED BY <1>a DEF Inv, Shape
<1>4. IsTree(mirror'[p])
  BY <1>3 DEF Inv, Shape, IsTree
<1>5. ASSUME NEW r \in Sessions
      PROVE  /\ IsOp(op'[r])
             /\ op'[r].phase # "idle" => SessionOK(op'[r], mirror'[op'[r].backup.profile])
  <2>1. op'[r] = Undone(op[r], p)
    BY <1>2
  <2>2. /\ IsOp(op[r])
        /\ op[r].phase # "idle" => SessionOK(op[r], mirror[op[r].backup.profile])
    BY DEF Inv, Shape, Sound, Printer
  <2> DEFINE q == op[r].backup.profile
  <2>3. q # p => mirror'[q] = mirror[q]
    BY <1>3
  <2> HIDE DEF q
  <2>4. /\ IsOp(Undone(op[r], p))
        /\ Undone(op[r], p).phase = op[r].phase
        /\ Undone(op[r], p).backup.profile = op[r].backup.profile
        /\ op[r].phase # "idle" => SessionOK(Undone(op[r], p), mirror'[q])
    BY <2>2, <2>3, UndoneOK DEF q
  <2> QED
    BY <2>1, <2>4 DEF q
<1>6. op' = [r \in Sessions |-> op'[r]]
  BY <1>2
<1> QED
  BY <1>2, <1>3, <1>4, <1>5, <1>6 DEF Inv, Shape, Sound, Printer

-----------------------------------------------------------------------------
(***************************************************************************)
(* Making a backup.                                                        *)
(***************************************************************************)
\* What an operation that is not idle is.
LEMMA Going ==
  ASSUME Inv, NEW s \in Sessions, op[s].phase # "idle"
  PROVE  /\ op[s] = [phase |-> op[s].phase, migrates |-> op[s].migrates, id |-> op[s].id,
                     backup |-> op[s].backup, todo |-> op[s].todo, cut |-> op[s].cut,
                     was |-> op[s].was]
         /\ IsBackup(op[s].backup)
         /\ op[s].todo \subseteq Files
         /\ SessionOK(op[s], mirror[op[s].backup.profile])
         /\ Printer(s) \in Profiles
         /\ IsTree(mirror[Printer(s)])
BY DEF Inv, Shape, Sound, IsOp, IsBackup, Printer

\* Nobody changes the backups.
LEMMA SameBackups ==
  ASSUME Inv, backups' = backups
  PROVE  /\ backups' = [id \in Ids |-> backups'[id]]
         /\ \A id \in Ids : backups'[id] # NoBackup =>
              IsBackup(backups'[id]) /\ Faithful(backups'[id])
BY DEF Inv, Shape, Sound

\* A session comes to rest.
LEMMA RestOK ==
  ASSUME Inv, NEW s \in Sessions, Continue(s, Idle), backups' = backups
  PROVE  Inv'
BY IdleIs, SameBackups, ContinueOK

\* A true index lists the files with macros, and the macros of printer.cfg.
LEMMA TrueIndex ==
  ASSUME NEW p \in Profiles, IndexTrue(p)
  PROVE  /\ FilesOf(p) = Bearers(mirror[p])
         /\ \A n \in Names : Definitions(mirror[p][Root], n) # {} =>
              \E i \in ItemsOf(p) :
                /\ i.file = Root /\ i.name = n
                /\ i.body = mirror[p][Root][Max(Definitions(mirror[p][Root], n))].body
<1>1. FilesOf(p) = Bearers(mirror[p])
  BY DEF IndexTrue, FilesOf, Bearers, Bearing
<1>2. ASSUME NEW n \in Names, Definitions(mirror[p][Root], n) # {}
      PROVE  \E i \in ItemsOf(p) :
                /\ i.file = Root /\ i.name = n
                /\ i.body = mirror[p][Root][Max(Definitions(mirror[p][Root], n))].body
  <2> DEFINE k == <<Root, n>>
             i == [file |-> k[1], name |-> k[2], body |-> index[p][k].body,
                   line |-> index[p][k].line, active |-> Active(p, k)]
  <2>1. Root \in Files
    BY OrderAssumption, FilesAssumption
  <2>2. k \in Keys /\ k[1] = Root /\ k[2] = n
    BY <2>1 DEF Keys
  <2>3. /\ Newest(p, k)
        /\ index[p][k].body = mirror[p][Root][Max(Definitions(mirror[p][Root], n))].body
    BY <1>2, <2>1 DEF IndexTrue
  <2>4. i \in ItemsOf(p)
    BY <2>2, <2>3 DEF ItemsOf
  <2>5. i.file = Root /\ i.name = n /\ i.body = index[p][k].body
    BY <2>2
  <2> QED
    BY <2>3, <2>4, <2>5
<1> QED
  BY <1>1, <1>2

LEMMA BeginOK ==
  ASSUME Inv, NEW s \in Sessions, NEW p \in Profiles, NEW migrates, Begin(s, p, migrates)
  PROVE  Inv'
<1> DEFINE w == IF IndexTrue(p) THEN mirror[p] ELSE Nowhere
           b == [profile |-> p, items |-> ItemsOf(p), files |-> Nowhere, was |-> w]
           o == [phase |-> "copy", migrates |-> migrates, id |-> NextId, backup |-> b,
                 todo |-> FilesOf(p), cut |-> << >>, was |-> mirror[p]]
<1>1. Continue(s, o) /\ UNCHANGED backups
  BY DEF Begin
<1>3. IsBackup(b)
  BY DEF IsBackup, IsTree, Nowhere
<1>4. IsOp(o)
  BY <1>3 DEF IsOp, FilesOf
<1>5. CopiedBut(b, FilesOf(p))
  <2> SUFFICES ASSUME w # Nowhere PROVE CopiedBut(b, FilesOf(p))
    BY DEF CopiedBut
  <2>1. IndexTrue(p) /\ b.was = mirror[p]
    OBVIOUS
  <2>2. \A f \in Files : b.files[f] = Absent
    BY DEF Nowhere
  <2>3. b.items = ItemsOf(p)
    OBVIOUS
  <2> HIDE DEF b, w
  <2> QED
    BY <2>1, <2>2, <2>3, TrueIndex DEF CopiedBut
<1>6. SessionOK(o, mirror[p])
  BY <1>5 DEF SessionOK, CopyOK, MigrationOK, RestoreOK, Kept
<1>7. o.backup.profile = p
  OBVIOUS
<1> HIDE DEF o
<1> QED
  BY <1>1, <1>4, <1>6, <1>7, SameBackups, ContinueOK

\* Records, written out one EXCEPT at a time.
LEMMA BackupWith ==
  ASSUME NEW b, IsBackup(b), NEW g, NEW w
  PROVE  [b EXCEPT !.files = g, !.was = w]
           = [profile |-> b.profile, items |-> b.items, files |-> g, was |-> w]
<1> DEFINE c == [b EXCEPT !.files = g]
<1>1. c = [profile |-> b.profile, items |-> b.items, files |-> g, was |-> b.was]
  BY DEF IsBackup
<1>2. [c EXCEPT !.was = w]
        = [profile |-> b.profile, items |-> b.items, files |-> g, was |-> w]
  <2> HIDE DEF c
  <2> QED BY <1>1
<1> QED
  BY <1>2

LEMMA OpWith ==
  ASSUME NEW o, IsOp(o), NEW F, NEW b
  PROVE  [o EXCEPT !.todo = F, !.backup = b]
           = [phase |-> o.phase, migrates |-> o.migrates, id |-> o.id, backup |-> b,
              todo |-> F, cut |-> o.cut, was |-> o.was]
<1> DEFINE c == [o EXCEPT !.todo = F]
<1>1. c = [phase |-> o.phase, migrates |-> o.migrates, id |-> o.id, backup |-> o.backup,
           todo |-> F, cut |-> o.cut, was |-> o.was]
  BY DEF IsOp
<1>2. [c EXCEPT !.backup = b]
        = [phase |-> o.phase, migrates |-> o.migrates, id |-> o.id, backup |-> b,
           todo |-> F, cut |-> o.cut, was |-> o.was]
  <2> HIDE DEF c
  <2> QED BY <1>1
<1> QED
  BY <1>2

LEMMA CopyFileOK == ASSUME Inv, NEW s \in Sessions, CopyFile(s) PROVE Inv'
<1> DEFINE p == Printer(s)
           m == mirror[p]
           o0 == op[s]
           b0 == op[s].backup
<1>1. o0.phase = "copy" /\ UNCHANGED backups
  BY DEF CopyFile
<1>a. PICK f \in Foremost(o0.todo) : \E c \in {m[f], Absent} :
        Continue(s, [o0 EXCEPT !.todo = @ \ {f}, !.backup.files[f] = c,
                               !.backup.was = IF c = m[f] THEN @ ELSE Nowhere])
  BY DEF CopyFile
<1>2. PICK c \in {m[f], Absent} :
        Continue(s, [o0 EXCEPT !.todo = @ \ {f}, !.backup.files[f] = c,
                               !.backup.was = IF c = m[f] THEN @ ELSE Nowhere])
  BY <1>a
<1>3. /\ o0 = [phase |-> o0.phase, migrates |-> o0.migrates, id |-> o0.id, backup |-> b0,
               todo |-> o0.todo, cut |-> o0.cut, was |-> o0.was]
      /\ IsBackup(b0) /\ o0.todo \subseteq Files /\ SessionOK(o0, m)
  BY <1>1, Going DEF Printer
<1>4. f \in o0.todo /\ f \in Files
  BY <1>3 DEF Foremost
<1> DEFINE w == IF c = m[f] THEN b0.was ELSE Nowhere
           g == [b0.files EXCEPT ![f] = c]
           b == [profile |-> b0.profile, items |-> b0.items, files |-> g, was |-> w]
           T == o0.todo \ {f}
           o == [phase |-> o0.phase, migrates |-> o0.migrates, id |-> o0.id, backup |-> b,
                 todo |-> T, cut |-> o0.cut, was |-> o0.was]
<1>5. Continue(s, o)
  <2>1. [b0 EXCEPT !.files = g, !.was = w] = b
    <3> HIDE DEF g, w, b0
    <3> QED BY <1>3, BackupWith
  <2> DEFINE e == [o0 EXCEPT !.todo = T, !.backup = b]
  <2>2. e = o
    BY OpWith DEF Inv, Shape
  <2>3. [o0 EXCEPT !.todo = @ \ {f}, !.backup.files[f] = c,
                   !.backup.was = IF c = m[f] THEN @ ELSE Nowhere] = e
    BY <1>3, <2>1
  <2> QED
    BY <1>2, <2>2, <2>3
<1>6. /\ IsTree(g) /\ g[f] = c
      /\ \A h \in Files \ {f} : g[h] = b0.files[h]
  BY <1>3, <1>4 DEF IsBackup, IsTree
<1>7. IsOp(o)
  <2> HIDE DEF g, w
  <2>1. IsBackup(b)
    BY <1>3, <1>6 DEF IsBackup
  <2> QED
    BY <1>3, <2>1 DEF IsOp
<1>8. ASSUME w # Nowhere
      PROVE  /\ w = m /\ c = m[f] /\ b0.was = m
             /\ CopiedBut(b, T)
  <2>1. c = m[f] /\ w = b0.was /\ b0.was = m
    BY <1>1, <1>3, <1>8 DEF SessionOK, CopyOK
  <2>2. CopiedBut(b0, o0.todo)
    BY <1>1, <1>3 DEF SessionOK, CopyOK
  <2>3. b.was = w /\ b.files = g /\ b.items = b0.items
    OBVIOUS
  <2> HIDE DEF w, b, g, b0, m
  <2> QED
    BY <1>4, <1>6, <1>8, <2>1, <2>2, <2>3 DEF CopiedBut
<1>9. SessionOK(o, m)
  <2>1. b.was = w /\ o.backup = b /\ o.phase = "copy" /\ o.todo = T /\ o.was = o0.was
    BY <1>1
  <2> HIDE DEF b, o, w, T
  <2>2. CopyOK(o, m)
    BY <1>8, <2>1 DEF CopyOK, CopiedBut
  <2>3. MigrationOK(o, m)
    BY <1>1, <1>3, <1>8, <2>1 DEF SessionOK, MigrationOK
  <2> QED
    BY <2>1, <2>2, <2>3 DEF SessionOK, RestoreOK, Kept
<1>10. o.backup.profile = p
  BY DEF Printer
<1> HIDE DEF o
<1> QED
  BY <1>1, <1>5, <1>7, <1>9, <1>10, SameBackups, ContinueOK

LEMMA CommitOK == ASSUME Inv, NEW s \in Sessions, CommitBackup(s) PROVE Inv'
<1> DEFINE o0 == op[s]
<1>1. /\ o0.phase = "copy" /\ o0.todo = {}
      /\ backups' = [backups EXCEPT ![o0.id] = o0.backup]
      /\ Continue(s, IF o0.migrates THEN [o0 EXCEPT !.phase = "move"] ELSE Idle)
  BY DEF CommitBackup
<1>2. /\ o0 = [phase |-> o0.phase, migrates |-> o0.migrates, id |-> o0.id, backup |-> o0.backup,
               todo |-> o0.todo, cut |-> o0.cut, was |-> o0.was]
      /\ IsBackup(o0.backup) /\ SessionOK(o0, mirror[o0.backup.profile])
  BY <1>1, Going
<1>3. Faithful(o0.backup)
  BY <1>1, <1>2 DEF SessionOK, CopyOK, Faithful
<1>4. /\ backups' = [id \in Ids |-> backups'[id]]
      /\ \A id \in Ids : backups'[id] \in {backups[id], o0.backup}
  BY <1>1 DEF Inv, Shape
<1>5. \A id \in Ids : backups'[id] # NoBackup => IsBackup(backups'[id]) /\ Faithful(backups'[id])
  BY <1>2, <1>3, <1>4 DEF Inv, Shape, Sound
<1>6. CASE o0.migrates
  <2> DEFINE o == [o0 EXCEPT !.phase = "move"]
  <2>1. o = [phase |-> "move", migrates |-> o0.migrates, id |-> o0.id, backup |-> o0.backup,
             todo |-> o0.todo, cut |-> o0.cut, was |-> o0.was]
    BY <1>2
  <2>2. Continue(s, o)
    BY <1>1, <1>6
  <2>3. /\ o = [phase |-> o.phase, migrates |-> o.migrates, id |-> o.id, backup |-> o.backup,
                todo |-> o.todo, cut |-> o.cut, was |-> o.was]
        /\ o.phase = "move" /\ o.backup = o0.backup /\ o.todo = {} /\ o.was = o0.was
    BY <1>1, <2>1
  <2> HIDE DEF o
  <2>4. IsOp(o)
    BY <1>2, <2>3 DEF IsOp
  <2>5. SessionOK(o, mirror[o0.backup.profile])
    BY <1>1, <1>2, <1>3, <2>3 DEF SessionOK, CopyOK, MigrationOK, RestoreOK, Kept
  <2> QED
    BY <1>4, <1>5, <2>2, <2>3, <2>4, <2>5, ContinueOK
<1>7. CASE ~o0.migrates
  BY <1>1, <1>4, <1>5, <1>7, IdleIs, ContinueOK
<1> QED
  BY <1>6, <1>7

-----------------------------------------------------------------------------
(***************************************************************************)
(* Restoring a backup.                                                     *)
(***************************************************************************)
\* A tree with one file changed.
LEMMA TreeWith ==
  ASSUME NEW t, IsTree(t), NEW f \in Files, NEW c
  PROVE  /\ IsTree([t EXCEPT ![f] = c])
         /\ [t EXCEPT ![f] = c][f] = c
         /\ \A h \in Files \ {f} : [t EXCEPT ![f] = c][h] = t[h]
BY DEF IsTree

\* An operation that has done with some files, or goes to its next phase.
LEMMA TodoWith ==
  ASSUME NEW o, IsOp(o), o.phase # "idle", NEW F, F \subseteq Files
  PROVE  LET e == [o EXCEPT !.todo = F]
         IN  /\ IsOp(e) /\ e.phase = o.phase /\ e.backup = o.backup /\ e.todo = F
             /\ e.cut = o.cut /\ e.was = o.was
<1> DEFINE e == [o EXCEPT !.todo = F]
<1>1. e = [phase |-> o.phase, migrates |-> o.migrates, id |-> o.id, backup |-> o.backup,
           todo |-> F, cut |-> o.cut, was |-> o.was]
  BY DEF IsOp
<1> HIDE DEF e
<1>2. /\ e.phase = o.phase /\ e.backup = o.backup /\ e.todo = F
      /\ e.migrates = o.migrates /\ e.id = o.id /\ e.cut = o.cut /\ e.was = o.was
  BY <1>1
<1>3. IsOp(e)
  BY <1>1, <1>2 DEF IsOp
<1> QED
  BY <1>2, <1>3 DEF e

LEMMA WriteRestoredOK == ASSUME Inv, NEW s \in Sessions, WriteRestored(s) PROVE Inv'
<1> DEFINE o0 == op[s]
           m == mirror[Printer(s)]
           new == Content(o0.backup)
<1>1. o0.phase = "write" /\ UNCHANGED backups
  BY DEF WriteRestored
<1>2. PICK f \in Foremost(o0.todo) :
        Write(s, [m EXCEPT ![f] = new[f]], [o0 EXCEPT !.todo = @ \ {f}])
  BY DEF WriteRestored
<1> DEFINE t == [m EXCEPT ![f] = new[f]]
           o == [o0 EXCEPT !.todo = @ \ {f}]
<1>3. /\ IsOp(o0) /\ o0.todo \subseteq Files /\ SessionOK(o0, m) /\ IsTree(m)
  BY <1>1, Going DEF Inv, Shape, Printer
<1>4. f \in o0.todo /\ f \in Files
  BY <1>3 DEF Foremost
<1>5. /\ IsOp(o) /\ o.phase = "write" /\ o.backup = o0.backup /\ o.todo = o0.todo \ {f}
      /\ o.was = o0.was
  BY <1>1, <1>3, TodoWith
<1>6. IsTree(t) /\ t[f] = new[f] /\ \A h \in Files \ {f} : t[h] = m[h]
  BY <1>3, <1>4, TreeWith
<1> HIDE DEF t, o
<1>7. SessionOK(o, t)
  <2>1. ASSUME o.was # Nowhere PROVE RestoreOK(o, t)
    <3>1. RestoreOK(o0, m)
      BY <1>3 DEF SessionOK
    <3>2. /\ \A h \in PrinterCfgs : m[h] = o0.was[h]
          /\ \A h \in Files : \/ m[h] = o0.was[h]
                              \/ m[h] = new[h] /\ new[h] # Absent
                              \/ m[h] = Absent /\ new[h] = Absent /\ Bearing(o0.was[h])
          /\ o0.todo \cap PrinterCfgs = {}
          /\ \A h \in o0.todo : new[h] # Absent
          /\ \A h \in Files \ PrinterCfgs : \/ h \in o0.todo
                                            \/ new[h] # Absent /\ m[h] = new[h]
                                            \/ new[h] = Absent
      BY <1>1, <1>5, <2>1, <3>1 DEF RestoreOK
    <3>3. Content(o.backup) = new
      BY <1>5
    <3>4. PrinterCfgs \subseteq Files
      BY FilesAssumption
    <3> HIDE DEF new, o0, m
    <3> QED
      BY <1>4, <1>5, <1>6, <3>2, <3>3, <3>4 DEF RestoreOK
  <2>2. Kept(o)
    BY <1>1, <1>3, <1>5 DEF SessionOK, Kept
  <2> QED
    BY <1>5, <2>1, <2>2 DEF SessionOK, CopyOK, MigrationOK, RestoreOK
<1>8. Write(s, t, o)
  BY <1>2 DEF t, o
<1> QED
  BY <1>1, <1>5, <1>6, <1>7, <1>8, WriteOK DEF Printer

LEMMA ListRestoredOK == ASSUME Inv, NEW s \in Sessions, ListRestored(s) PROVE Inv'
<1> DEFINE o0 == op[s]
           m == mirror[Printer(s)]
           new == Content(o0.backup)
           F == Listing(m) \ PrinterCfgs
           c == [o0 EXCEPT !.phase = "prune"]
           o == [c EXCEPT !.todo = F]
<1>1. /\ o0.phase = "write" /\ o0.todo = {} /\ UNCHANGED backups
      /\ Continue(s, o)
  BY DEF ListRestored
<1>2. /\ IsOp(o0) /\ SessionOK(o0, m)
  BY <1>1, Going DEF Inv, Shape, Printer
<1>3. F \subseteq Files
  BY DEF Listing
<1>4. /\ IsOp(o) /\ o.phase = "prune" /\ o.backup = o0.backup /\ o.todo = F
      /\ o.was = o0.was
  <2>1. o0 = [phase |-> o0.phase, migrates |-> o0.migrates, id |-> o0.id, backup |-> o0.backup,
              todo |-> o0.todo, cut |-> o0.cut, was |-> o0.was]
    BY <1>2 DEF IsOp
  <2>2. c = [phase |-> "prune", migrates |-> o0.migrates, id |-> o0.id, backup |-> o0.backup,
             todo |-> o0.todo, cut |-> o0.cut, was |-> o0.was]
    BY <2>1
  <2> HIDE DEF c, F
  <2>3. o = [phase |-> "prune", migrates |-> o0.migrates, id |-> o0.id, backup |-> o0.backup,
             todo |-> F, cut |-> o0.cut, was |-> o0.was]
    BY <2>2
  <2> HIDE DEF o
  <2>4. /\ o.phase = "prune" /\ o.backup = o0.backup /\ o.todo = F
        /\ o.migrates = o0.migrates /\ o.id = o0.id /\ o.cut = o0.cut /\ o.was = o0.was
    BY <2>3
  <2>5. IsBackup(o0.backup)
    BY <1>1, <1>2 DEF IsOp
  <2> QED
    BY <1>3, <2>3, <2>4, <2>5 DEF IsOp
<1> HIDE DEF o
<1>5. ASSUME o.was # Nowhere PROVE RestoreOK(o, m)
  <2>1. RestoreOK(o0, m)
    BY <1>2 DEF SessionOK
  <2>2. /\ \A h \in PrinterCfgs : m[h] = o0.was[h]
        /\ \A h \in Files : \/ m[h] = o0.was[h]
                            \/ m[h] = new[h] /\ new[h] # Absent
                            \/ m[h] = Absent /\ new[h] = Absent /\ Bearing(o0.was[h])
        /\ \A h \in Files \ PrinterCfgs : \/ new[h] # Absent /\ m[h] = new[h]
                                          \/ new[h] = Absent
    BY <1>1, <1>4, <1>5, <2>1 DEF RestoreOK
  <2>3. \A h \in Files \ PrinterCfgs : h \notin F => m[h] = Absent /\ ~Bearing(m[h])
    BY DEF Listing, Bearing, Definitions
  <2>4. F \cap PrinterCfgs = {}
    OBVIOUS
  <2>5. Content(o.backup) = new
    BY <1>4
  <2> HIDE DEF new, o0, m, F
  <2> QED
    BY <1>4, <2>2, <2>3, <2>4, <2>5 DEF RestoreOK
<1>6. SessionOK(o, m)
  <2>1. Kept(o)
    BY <1>1, <1>2, <1>4 DEF SessionOK, Kept
  <2> QED
    BY <1>4, <1>5, <2>1 DEF SessionOK, CopyOK, MigrationOK, RestoreOK
<1> QED
  BY <1>1, <1>4, <1>6, SameBackups, ContinueOK DEF Printer

LEMMA StartRestoreOK ==
  ASSUME Inv, NEW s \in Sessions, NEW id \in Ids, StartRestore(s, id) PROVE Inv'
<1> DEFINE b == backups[id]
           m == mirror[b.profile]
           new == Content(b)
           o == [phase |-> "write", migrates |-> FALSE, id |-> id, backup |-> b,
                 todo |-> Restored(b), cut |-> << >>, was |-> m]
<1>1. b # NoBackup /\ UNCHANGED backups /\ Continue(s, o)
  BY DEF StartRestore
<1>2. IsBackup(b) /\ Faithful(b)
  BY <1>1 DEF Inv, Shape, Sound
<1>3. /\ o = [phase |-> o.phase, migrates |-> o.migrates, id |-> o.id, backup |-> o.backup,
              todo |-> o.todo, cut |-> o.cut, was |-> o.was]
      /\ o.phase = "write" /\ o.backup = b /\ o.was = m
      /\ o.todo = {f \in Files : new[f] # Absent} \ PrinterCfgs
  BY DEF Restored, Listing
<1> HIDE DEF o
<1>4. IsOp(o)
  BY <1>2, <1>3 DEF IsOp
<1>5. RestoreOK(o, m)
  BY <1>3 DEF RestoreOK
<1>6. SessionOK(o, m)
  BY <1>2, <1>3, <1>5 DEF SessionOK, CopyOK, MigrationOK, Kept
<1> QED
  BY <1>1, <1>3, <1>4, <1>6, SameBackups, ContinueOK

LEMMA PruneNextOK == ASSUME Inv, NEW s \in Sessions, PruneNext(s) PROVE Inv'
<1> DEFINE o0 == op[s]
           m == mirror[Printer(s)]
           new == Content(o0.backup)
<1>1. o0.phase = "prune" /\ UNCHANGED backups
  BY DEF PruneNext
<1>2. PICK f \in Foremost(o0.todo) :
        LET e == [o0 EXCEPT !.todo = @ \ {f}]
        IN  IF Superfluous(s, f) THEN Write(s, [m EXCEPT ![f] = Absent], e) ELSE Continue(s, e)
  BY DEF PruneNext
<1> DEFINE t == [m EXCEPT ![f] = Absent]
           o == [o0 EXCEPT !.todo = @ \ {f}]
<1>3. /\ IsOp(o0) /\ o0.todo \subseteq Files /\ SessionOK(o0, m) /\ IsTree(m)
  BY <1>1, Going DEF Inv, Shape, Printer
<1>4. f \in o0.todo /\ f \in Files
  BY <1>3 DEF Foremost
<1>5. /\ IsOp(o) /\ o.phase = "prune" /\ o.backup = o0.backup /\ o.todo = o0.todo \ {f}
      /\ o.was = o0.was
  BY <1>1, <1>3, TodoWith
<1>6. IsTree(t) /\ t[f] = Absent /\ \A h \in Files \ {f} : t[h] = m[h]
  BY <1>3, <1>4, TreeWith
<1>7. IF Superfluous(s, f) THEN Write(s, t, o) ELSE Continue(s, o)
  BY <1>2
<1> HIDE DEF t, o
<1>8. ASSUME o.was # Nowhere
      PROVE  /\ \A h \in PrinterCfgs : m[h] = o0.was[h]
             /\ \A h \in Files : \/ m[h] = o0.was[h]
                                 \/ m[h] = new[h] /\ new[h] # Absent
                                 \/ m[h] = Absent /\ new[h] = Absent /\ Bearing(o0.was[h])
             /\ o0.todo \cap PrinterCfgs = {}
             /\ \A h \in Files \ PrinterCfgs : \/ h \in o0.todo
                                               \/ new[h] # Absent /\ m[h] = new[h]
                                               \/ new[h] = Absent /\ ~Bearing(m[h])
             /\ \A h \in Files \ PrinterCfgs : new[h] # Absent => m[h] = new[h]
  <2>1. RestoreOK(o0, m)
    BY <1>3 DEF SessionOK
  <2> QED
    BY <1>1, <1>5, <1>8, <2>1 DEF RestoreOK
<1>9. ~Bearing(Absent)
  BY DEF Bearing, Definitions
<1>10. ASSUME NEW t2, RestoreOK(o, t2) PROVE SessionOK(o, t2)
  <2>1. Kept(o)
    BY <1>1, <1>3, <1>5 DEF SessionOK, Kept
  <2> QED
    BY <1>5, <1>10, <2>1 DEF SessionOK, CopyOK, MigrationOK
<1>a. Content(o.backup) = new
  BY <1>5
<1>b. PrinterCfgs \subseteq Files
  BY FilesAssumption
<1>11. CASE Superfluous(s, f)
  <2>1. Bearing(m[f]) /\ new[f] = Absent
    BY <1>11 DEF Superfluous
  <2>2. ASSUME o.was # Nowhere PROVE RestoreOK(o, t)
    <3> HIDE DEF new, o0, m
    <3>1. f \notin PrinterCfgs /\ Bearing(o0.was[f])
      BY <1>4, <1>8, <1>9, <2>1, <2>2
    <3> QED
      BY <1>4, <1>5, <1>6, <1>8, <1>9, <1>a, <1>b, <2>1, <2>2, <3>1 DEF RestoreOK
  <2>3. SessionOK(o, t)
    BY <1>10, <2>2 DEF RestoreOK
  <2> QED
    BY <1>1, <1>5, <1>6, <1>7, <1>11, <2>3, WriteOK DEF Printer
<1>12. CASE ~Superfluous(s, f)
  <2>1. ~(Bearing(m[f]) /\ new[f] = Absent)
    BY <1>12 DEF Superfluous
  <2>2. ASSUME o.was # Nowhere PROVE RestoreOK(o, m)
    <3> HIDE DEF new, o0, m
    <3> QED
      BY <1>4, <1>5, <1>8, <1>a, <1>b, <2>1, <2>2 DEF RestoreOK
  <2>3. SessionOK(o, m)
    BY <1>10, <2>2 DEF RestoreOK
  <2> QED
    BY <1>1, <1>5, <1>7, <1>12, <2>3, SameBackups, ContinueOK DEF Printer
<1> QED
  BY <1>11, <1>12

LEMMA FinishRestoreOK == ASSUME Inv, NEW s \in Sessions, FinishRestore(s) PROVE Inv'
BY RestOK DEF FinishRestore

-----------------------------------------------------------------------------
(***************************************************************************)
(* The migration of printer.cfg, and interruptions.                        *)
(***************************************************************************)
\* A session comes to rest, having changed its printer's mirror.
LEMMA RestAfterWrite ==
  ASSUME Inv, NEW s \in Sessions, op[s].phase # "idle", NEW f \in Files, NEW c,
         Write(s, [mirror[Printer(s)] EXCEPT ![f] = c], Idle), backups' = backups
  PROVE  Inv'
<1> DEFINE t == [mirror[Printer(s)] EXCEPT ![f] = c]
<1>1. IsTree(t)
  BY Going, TreeWith
<1>2. Write(s, t, Idle)
  OBVIOUS
<1> HIDE DEF t
<1> QED
  BY <1>1, <1>2, IdleIs, WriteOK

LEMMA MoveSectionsOK == ASSUME Inv, NEW s \in Sessions, MoveSections(s) PROVE Inv'
<1> DEFINE o0 == op[s]
           m == mirror[Printer(s)]
           c == m[Root]
           rest == Only(c, Link \cup Other)
           t == [m EXCEPT ![Root] = rest]
           o1 == [o0 EXCEPT !.phase = "append"]
           o == [o1 EXCEPT !.cut = c]
<1>1. /\ o0.phase = "move" /\ UNCHANGED backups
      /\ IF Bearing(c) THEN Write(s, t, o) ELSE Continue(s, Idle)
  BY DEF MoveSections
<1>2. CASE Bearing(c)
  <2>1. /\ IsOp(o0) /\ SessionOK(o0, m) /\ IsTree(m)
    BY <1>1, Going DEF Inv, Shape, Printer
  <2>2. IsTree(t)
    <3> HIDE DEF rest, m
    <3> QED BY <2>1, OrderAssumption, FilesAssumption, TreeWith
  <2>3. o0 = [phase |-> o0.phase, migrates |-> o0.migrates, id |-> o0.id, backup |-> o0.backup,
              todo |-> o0.todo, cut |-> o0.cut, was |-> o0.was]
    BY <2>1 DEF IsOp
  <2>4. o1 = [phase |-> "append", migrates |-> o0.migrates, id |-> o0.id, backup |-> o0.backup,
              todo |-> o0.todo, cut |-> o0.cut, was |-> o0.was]
    BY <2>3
  <2>a. Write(s, t, o)
    BY <1>1, <1>2
  <2> HIDE DEF o1, c, t
  <2>5. o = [phase |-> "append", migrates |-> o0.migrates, id |-> o0.id, backup |-> o0.backup,
             todo |-> o0.todo, cut |-> c, was |-> o0.was]
    BY <2>4
  <2> HIDE DEF o
  <2>6. /\ o.phase = "append" /\ o.backup = o0.backup /\ o.todo = o0.todo
        /\ o.migrates = o0.migrates /\ o.id = o0.id /\ o.cut = c /\ o.was = o0.was
    BY <2>5
  <2>7. IsOp(o)
    <3>1. IsBackup(o0.backup) /\ o0.todo \subseteq Files
      BY <1>1, <2>1 DEF IsOp
    <3> QED
      BY <2>5, <2>6, <3>1 DEF IsOp
  <2>8. MigrationOK(o, t)
    <3>1. SUFFICES ASSUME o0.was # Nowhere
                   PROVE  /\ t = CutOut(o0.was)
                          /\ c = o0.was[Root]
                          /\ o0.backup.was # Nowhere => o0.backup.was = o0.was
      BY <2>6 DEF MigrationOK
    <3>2. o0.was = m /\ (o0.backup.was # Nowhere => o0.backup.was = o0.was)
      BY <1>1, <2>1, <3>1 DEF SessionOK, MigrationOK
    <3>3. m = [f \in Files |-> m[f]]
      BY <2>1 DEF IsTree
    <3> HIDE DEF m
    <3>4. t = CutOut(m)
      BY <3>3 DEF t, c, CutOut
    <3> QED
      BY <3>2, <3>4 DEF c
  <2>9. SessionOK(o, t)
    BY <1>1, <2>1, <2>6, <2>8 DEF SessionOK, CopyOK, RestoreOK, Kept
  <2> QED
    BY <1>1, <2>2, <2>6, <2>7, <2>9, <2>a, WriteOK DEF Printer
<1>3. CASE ~Bearing(c)
  BY <1>1, <1>3, RestOK
<1> QED
  BY <1>2, <1>3

LEMMA AppendMacrosOK == ASSUME Inv, NEW s \in Sessions, AppendMacros(s) PROVE Inv'
<1> DEFINE o0 == op[s]
           m == mirror[Printer(s)]
           c == Text(m[MacrosCfg]) \o Only(o0.cut, Macro)
           t == [m EXCEPT ![MacrosCfg] = c]
           o == [o0 EXCEPT !.phase = "include"]
<1>1. o0.phase = "append" /\ UNCHANGED backups /\ Write(s, t, o)
  BY DEF AppendMacros
<1>2. IsOp(o0) /\ SessionOK(o0, m) /\ IsTree(m)
  BY <1>1, Going DEF Inv, Shape, Printer
<1>3. IsTree(t)
  <2> HIDE DEF c, m
  <2> QED BY <1>2, OrderAssumption, FilesAssumption, TreeWith
<1>4. o = [phase |-> "include", migrates |-> o0.migrates, id |-> o0.id, backup |-> o0.backup,
           todo |-> o0.todo, cut |-> o0.cut, was |-> o0.was]
  BY <1>2 DEF IsOp
<1> HIDE DEF t, o
<1>5. /\ o.phase = "include" /\ o.backup = o0.backup /\ o.todo = o0.todo
      /\ o.migrates = o0.migrates /\ o.id = o0.id /\ o.cut = o0.cut /\ o.was = o0.was
  BY <1>4
<1>6. IsOp(o)
  <2>1. IsBackup(o0.backup) /\ o0.todo \subseteq Files
    BY <1>1, <1>2 DEF IsOp
  <2> QED
    BY <1>4, <1>5, <2>1 DEF IsOp
<1>7. MigrationOK(o, t)
  <2>1. SUFFICES ASSUME o0.was # Nowhere PROVE t = Gathered(o0.was)
    BY <1>5 DEF MigrationOK
  <2>2. o0.cut = o0.was[Root] /\ m = CutOut(o0.was)
    BY <1>1, <1>2, <2>1 DEF SessionOK, MigrationOK
  <2>3. MacrosCfg \in Files /\ MacrosCfg # Root
    BY FilesAssumption DEF MacrosCfg, Root
  <2> HIDE DEF m
  <2>4. m[MacrosCfg] = o0.was[MacrosCfg]
    BY <2>2, <2>3 DEF CutOut
  <2>5. c = Text(o0.was[MacrosCfg]) \o Only(o0.was[Root], Macro)
    BY <2>2, <2>4
  <2> HIDE DEF c
  <2>6. m = [f \in Files |-> CutOut(o0.was)[f]]
    BY <2>2 DEF CutOut
  <2> QED
    BY <2>5, <2>6 DEF Gathered, t
<1>8. SessionOK(o, t)
  BY <1>1, <1>2, <1>5, <1>7 DEF SessionOK, CopyOK, RestoreOK, Kept
<1> QED
  BY <1>1, <1>3, <1>5, <1>6, <1>8, WriteOK DEF Printer

LEMMA AddIncludeOK == ASSUME Inv, NEW s \in Sessions, AddInclude(s) PROVE Inv'
<1> DEFINE c == mirror[Printer(s)][Root]
           c2 == Append(Text(c), [kind |-> "include", file |-> MacrosCfg])
<1>1. /\ op[s].phase = "include" /\ UNCHANGED backups
      /\ \/ Continue(s, Idle)
         \/ Write(s, [mirror[Printer(s)] EXCEPT ![Root] = c2], Idle)
  BY DEF AddInclude
<1> HIDE DEF c2
<1> QED
  BY <1>1, OrderAssumption, FilesAssumption, RestOK, RestAfterWrite

LEMMA InterruptOK == ASSUME Inv, NEW s \in Sessions, Interrupt(s) PROVE Inv'
<1>1. /\ op[s].phase # "idle" /\ UNCHANGED backups
      /\ \/ Continue(s, Idle)
         \/ \E f \in Torn(s) : Write(s, [mirror[Printer(s)] EXCEPT ![f] = << >>], Idle)
  BY DEF Interrupt
<1>2. Torn(s) \subseteq Files
  BY DEF Torn
<1> QED
  BY <1>1, <1>2, RestOK, RestAfterWrite

-----------------------------------------------------------------------------
(***************************************************************************)
(* The theorems.                                                           *)
(***************************************************************************)
LEMMA NextOK == Inv /\ [Next]_vars => Inv'
<1> SUFFICES ASSUME Inv, [Next]_vars PROVE Inv'
  OBVIOUS
<1>1. CASE UNCHANGED vars
  BY <1>1 DEF vars, Inv, Shape, Sound, Printer
<1>2. ASSUME NEW p \in Profiles, Scan(p) PROVE Inv'
  BY <1>2, ScanOK
<1>3. ASSUME NEW p \in Profiles, NEW f \in Files, Edit(p, f) PROVE Inv'
  BY <1>3, EditOK
<1>4. ASSUME NEW p \in Profiles, NEW s \in Sessions, StartBackup(s, p) \/ StartMigration(s, p)
      PROVE  Inv'
  BY <1>4, BeginOK DEF StartBackup, StartMigration
<1>5. ASSUME NEW id \in Ids, DeleteBackup(id) PROVE Inv'
  BY <1>5, DeleteOK
<1>6. ASSUME NEW id \in Ids, NEW s \in Sessions, StartRestore(s, id) PROVE Inv'
  BY <1>6, StartRestoreOK
<1>7. ASSUME NEW s \in Sessions, CopyFile(s) \/ CommitBackup(s) \/ FailBackup(s) PROVE Inv'
  BY <1>7, CopyFileOK, CommitOK, RestOK DEF FailBackup
<1>8. ASSUME NEW s \in Sessions,
             WriteRestored(s) \/ ListRestored(s) \/ PruneNext(s) \/ FinishRestore(s)
      PROVE  Inv'
  BY <1>8, WriteRestoredOK, ListRestoredOK, PruneNextOK, FinishRestoreOK
<1>9. ASSUME NEW s \in Sessions,
             MoveSections(s) \/ AppendMacros(s) \/ AddInclude(s) \/ Interrupt(s)
      PROVE  Inv'
  BY <1>9, MoveSectionsOK, AppendMacrosOK, AddIncludeOK, InterruptOK
<1> QED
  BY <1>1, <1>2, <1>3, <1>4, <1>5, <1>6, <1>7, <1>8, <1>9, BoundsAssumption DEF Next

LEMMA InvHolds == Spec => []Inv
BY InitOK, NextOK, PTL DEF Spec

\* At every moment of a restore that nothing else disturbs, a printer.cfg of
\* whatever directory is as it was, and every other file is as it was or as the
\* backup has it; only files with macros are removed (restore_macro_backup).
THEOREM MixtureHolds == Spec => []RestoreMixture
<1>1. Inv => RestoreMixture
  BY DEF Inv, Sound, SessionOK, RestoreOK, RestoreMixture
<1> QED
  BY <1>1, InvHolds, PTL

\* What is cut out of printer.cfg is in the backup the migration has made, as
\* long as it is in no file (migrate_printer_cfg_macros).
THEOREM CoveredHolds == Spec => []MigrationCovered
<1>1. Inv => MigrationCovered
  <2> SUFFICES ASSUME Inv, NEW s \in Sessions, op[s].phase = "append", op[s].was # Nowhere,
                      op[s].backup.was # Nowhere, backups[op[s].id] = op[s].backup,
                      NEW n \in Names, Definitions(op[s].cut, n) # {}
               PROVE  \E i \in backups[op[s].id].items :
                        /\ i.file = Root /\ i.name = n
                        /\ i.body = op[s].cut[Max(Definitions(op[s].cut, n))].body
    BY DEF MigrationCovered
  <2>1. SessionOK(op[s], mirror[Printer(s)])
    BY DEF Inv, Sound
  <2>2. Faithful(op[s].backup) /\ op[s].backup.was = op[s].was /\ op[s].cut = op[s].was[Root]
    BY <2>1 DEF SessionOK, Kept, MigrationOK
  <2> QED
    BY <2>2 DEF Faithful, CopiedBut
<1> QED
  BY <1>1, InvHolds, PTL

\* A restore that nothing else disturbs brings every file that has macros, or had
\* them when the backup was made, back to what it was then, but for the files
\* called printer.cfg, which it passes over in every directory
\* (create_macro_backup and restore_macro_backup together).
THEOREM RoundTripHolds == Spec => RoundTrip
<1> DEFINE Back == \A s \in Sessions :
       LET b == op[s].backup
       IN  (FinishRestore(s) /\ op[s].was # Nowhere /\ b.was # Nowhere /\ HasFiles(b)) =>
             \A f \in Files \ PrinterCfgs :
               Bearing(b.was[f]) \/ Bearing(mirror[b.profile][f]) =>
                 mirror[b.profile][f] = b.was[f]
<1>1. Inv => Back
  <2> SUFFICES ASSUME Inv, NEW s \in Sessions, FinishRestore(s), op[s].was # Nowhere,
                      op[s].backup.was # Nowhere, HasFiles(op[s].backup),
                      NEW f \in Files \ PrinterCfgs,
                      \/ Bearing(op[s].backup.was[f])
                      \/ Bearing(mirror[op[s].backup.profile][f])
               PROVE  mirror[op[s].backup.profile][f] = op[s].backup.was[f]
    OBVIOUS
  <2> DEFINE b == op[s].backup
             m == mirror[b.profile]
  <2>1. Content(b) = b.files
    BY DEF Content
  <2>2. Listing(b.files) # {}
    BY DEF HasFiles, Listing
  <2>3. op[s].phase = "prune" /\ op[s].todo = {}
    BY <2>1, <2>2 DEF FinishRestore
  <2>4. SessionOK(op[s], m)
    BY <2>3 DEF Inv, Sound, Printer
  <2>5. \/ b.files[f] # Absent /\ m[f] = b.files[f]
        \/ b.files[f] = Absent /\ ~Bearing(m[f])
    BY <2>1, <2>3, <2>4 DEF SessionOK, RestoreOK
  <2>6. b.files[f] = IF Bearing(b.was[f]) THEN b.was[f] ELSE Absent
    BY FilesAssumption, <2>3, <2>4 DEF SessionOK, Kept, Faithful, CopiedBut, Bearers
  <2>7. ~Bearing(Absent)
    BY DEF Bearing, Definitions
  <2> HIDE DEF b, m
  <2>8. Bearing(b.was[f]) \/ Bearing(m[f])
    BY DEF b, m
  <2>9. m[f] = b.was[f]
    BY <2>5, <2>6, <2>7, <2>8
  <2> QED
    BY <2>9 DEF b, m
<1>2. Inv => [Back]_vars
  BY <1>1
<1> QED
  BY <1>2, InvHolds, PTL DEF RoundTrip

-----------------------------------------------------------------------------
(***************************************************************************)
(* Types.  The items of a backup are finitely many, which is why the files *)
(* that are rebuilt from them by line can be sorted.                       *)
(***************************************************************************)
FiniteBackup == {b \in Backup : IsFiniteSet(b.items)}

FiniteOp == {o \in Op : IsFiniteSet(o.backup.items)}

Typed == /\ mirror \in [Profiles -> Tree]
         /\ index \in [Profiles -> [Keys -> Row \cup {NoRow}]]
         /\ backups \in [Ids -> FiniteBackup \cup {NoBackup}]
         /\ op \in [Sessions -> FiniteOp]
         /\ upsets \in 0 .. UpsetBound

LEMMA TypedIs == Typed => TypeOK
BY DEF Typed, TypeOK, FiniteBackup, FiniteOp

LEMMA NowhereIsTree == Nowhere \in Tree
BY DEF Nowhere, Tree

LEMMA IdleTyped == Idle \in FiniteOp
<1>1. (CHOOSE p \in Profiles : TRUE) \in Profiles
  BY NamesAssumption
<1>2. 1 \in Ids
  BY BoundsAssumption DEF Ids
<1>3. << >> \in Contents /\ {} \in SUBSET Item /\ IsFiniteSet({})
  BY FS_EmptySet DEF Contents
<1> QED
  BY <1>1, <1>2, <1>3, NowhereIsTree DEF Idle, FiniteOp, Op, Backup

LEMMA InitTyped == Init => Typed
<1> SUFFICES ASSUME Init PROVE Typed
  OBVIOUS
<1>1. mirror \in [Profiles -> Tree]
  BY LayoutsAssumption DEF Init
<1> QED
  BY <1>1, IdleTyped, BoundsAssumption DEF Init, Typed

LEMMA OpParts ==
  ASSUME NEW o \in FiniteOp
  PROVE  /\ o.migrates \in BOOLEAN /\ o.id \in Ids /\ o.backup \in FiniteBackup
         /\ o.todo \in SUBSET Files /\ o.cut \in Contents /\ o.was \in Tree
         /\ o.backup.profile \in Profiles
BY DEF FiniteOp, FiniteBackup, Op, Backup

LEMMA UndoneTyped ==
  ASSUME NEW o \in FiniteOp, NEW p
  PROVE  Undone(o, p) \in FiniteOp
<1> DEFINE w == IF o.phase = "copy" THEN Nowhere ELSE o.backup.was
           b == [o.backup EXCEPT !.was = w]
           o1 == [o EXCEPT !.was = Nowhere]
<1>1. o.backup \in FiniteBackup /\ w \in Tree
  BY OpParts, NowhereIsTree DEF FiniteBackup, Backup
<1>2. b \in FiniteBackup
  <2> HIDE DEF w
  <2> QED BY <1>1 DEF FiniteBackup, Backup
<1>3. o1 \in FiniteOp /\ o1.backup = o.backup /\ o1.phase = o.phase
  BY NowhereIsTree DEF FiniteOp, Op
<1>4. [o1 EXCEPT !.backup = b] \in FiniteOp
  <2> HIDE DEF b, o1
  <2> QED BY <1>2, <1>3 DEF FiniteOp, FiniteBackup, Op
<1>5. Undone(o, p) = o \/ Undone(o, p) = [o1 EXCEPT !.backup = b]
  BY DEF Undone, FiniteOp, Op, Backup
<1> QED
  BY <1>4, <1>5

LEMMA ContinueTyped ==
  ASSUME Typed, NEW s \in Sessions, NEW o \in FiniteOp, Continue(s, o)
  PROVE  mirror' \in [Profiles -> Tree] /\ op' \in [Sessions -> FiniteOp]
BY DEF Typed, Continue

LEMMA WriteTyped ==
  ASSUME Typed, NEW s \in Sessions, NEW t \in Tree, NEW o \in FiniteOp, Write(s, t, o)
  PROVE  mirror' \in [Profiles -> Tree] /\ op' \in [Sessions -> FiniteOp]
<1>1. Printer(s) \in Profiles
  BY OpParts DEF Typed, Printer
<1>2. mirror' \in [Profiles -> Tree]
  BY <1>1 DEF Typed, Write
<1>3. \A r \in Sessions : Undone(op[r], Printer(s)) \in FiniteOp
  BY UndoneTyped DEF Typed
<1>4. op' \in [Sessions -> FiniteOp]
  BY <1>3 DEF Write
<1> QED
  BY <1>2, <1>4

LEMMA WithFile ==
  ASSUME NEW t \in Tree, NEW f, NEW c \in Contents \cup {Absent}
  PROVE  [t EXCEPT ![f] = c] \in Tree
BY DEF Tree

LEMMA WithTodo ==
  ASSUME NEW o \in FiniteOp, NEW F \in SUBSET Files
  PROVE  [o EXCEPT !.todo = F] \in FiniteOp
BY DEF FiniteOp, Op

LEMMA WithPhase ==
  ASSUME NEW o \in FiniteOp,
         NEW ph \in {"idle", "copy", "write", "prune", "move", "append", "include"}
  PROVE  [o EXCEPT !.phase = ph] \in FiniteOp
BY DEF FiniteOp, Op

(***************************************************************************)
(* The index.                                                              *)
(***************************************************************************)
\* A set of numbers up to N that is not empty has a greatest one.
LEMMA Greatest ==
  ASSUME NEW N \in Nat, NEW D, D \subseteq 0 .. N, D # {}
  PROVE  Max(D) \in D /\ \A z \in D : Max(D) >= z
<1> DEFINE T == {N - x : x \in D}
<1>1. T \subseteq Nat /\ T # {}
  OBVIOUS
<1>2. PICK y \in T : \A z \in T : y <= z
  <2> HIDE DEF T
  <2> QED BY <1>1, Least
<1>3. PICK x \in D : y = N - x
  OBVIOUS
<1>4. \A z \in D : x >= z
  BY <1>2, <1>3
<1>5. \E u \in D : \A z \in D : u >= z
  BY <1>4
<1> QED
  BY <1>5 DEF Max

LEMMA DefinitionsAre ==
  ASSUME NEW c \in Contents \cup {Absent}, NEW n \in Names, Definitions(c, n) # {}
  PROVE  LET i == Max(Definitions(c, n))
         IN  /\ c # Absent /\ i \in Definitions(c, n) /\ i \in Nat /\ c[i].body \in Bodies
             /\ IsFiniteSet(Definitions(c, n))
<1> DEFINE D == Definitions(c, n)
<1>1. c # Absent /\ c \in Seq(Sections)
  BY DEF Definitions, Contents
<1>2. D \subseteq 1 .. Len(c) /\ Len(c) \in Nat
  BY <1>1 DEF Definitions
<1>3. D \subseteq 0 .. Len(c)
  BY <1>2
<1>4. \A i \in D : c[i] \in Macro
  <2> SUFFICES ASSUME NEW i \in D PROVE c[i] \in Macro
    OBVIOUS
  <2>1. c[i] \in Sections /\ c[i].kind = "macro"
    BY <1>1, <1>2 DEF Definitions, IsMacro
  <2> QED
    BY <2>1 DEF Sections, Macro, Link, Other
<1>5. IsFiniteSet(D)
  <2>1. IsFiniteSet(1 .. Len(c))
    BY <1>2, FS_Interval
  <2> HIDE DEF D
  <2>2. D \in SUBSET (1 .. Len(c))
    BY <1>2
  <2> QED
    BY <2>1, <2>2, FS_Subset
<1> HIDE DEF D
<1>6. Max(D) \in D
  <2>1. D # {}
    BY DEF D
  <2> QED
    BY <1>2, <1>3, <2>1, Greatest
<1>7. Max(D) \in Nat /\ c[Max(D)].body \in Bodies
  <2>1. Max(D) \in Nat
    <3>1. PICK i : i = Max(D)
      OBVIOUS
    <3>2. i \in 1 .. Len(c) /\ Len(c) \in Nat
      BY <1>2, <1>6, <3>1
    <3>3. i \in Nat
      BY <3>2
    <3> QED
      BY <3>1, <3>3
  <2>2. c[Max(D)] \in Macro
    BY <1>4, <1>6
  <2> QED
    BY <2>1, <2>2 DEF Macro
<1> QED
  BY <1>1, <1>5, <1>6, <1>7 DEF D

LEMMA ImageIsFinite ==
  ASSUME NEW S, IsFiniteSet(S), NEW f, DOMAIN f = S, f = [x \in S |-> f[x]]
  PROVE  IsFiniteSet({f[x] : x \in S})
<1> DEFINE T == {f[x] : x \in S}
<1>1. f \in Surjection(S, T)
  BY DEF Surjection
<1> HIDE DEF T
<1>2. IsFiniteSet(T)
  BY <1>1, FS_Surjection
<1> QED
  BY <1>2 DEF T

\* The first texts of a macro are unknown.
LEMMA UnknownIs ==
  ASSUME NEW p, NEW k, NEW D, D = Definitions(mirror[p][k[1]], k[2]),
         IsFiniteSet(D), D # {}, index[p][k] = NoRow
  PROVE  Unknown(p, k) \in Nat \ {0}
<1> DEFINE c == mirror[p][k[1]]
           B == {c[i].body : i \in D}
<1>1. IsFiniteSet(B)
  <2> DEFINE g == [i \in D |-> c[i].body]
  <2>1. B = {g[i] : i \in D}
    OBVIOUS
  <2>2. DOMAIN g = D /\ g = [i \in D |-> g[i]]
    OBVIOUS
  <2> HIDE DEF g
  <2>3. IsFiniteSet({g[i] : i \in D})
    BY <2>2, ImageIsFinite
  <2> QED
    BY <2>1, <2>3
<1>2. B # {}
  OBVIOUS
<1>3. B \ {} = B
  OBVIOUS
<1>4. Unknown(p, k) = Cardinality(B \ {})
  BY DEF Unknown
<1> HIDE DEF B
<1>5. Unknown(p, k) = Cardinality(B)
  BY <1>3, <1>4
<1> QED
  BY <1>1, <1>2, <1>5, FS_CardinalityType, FS_EmptySet

LEMMA ScanTyped == ASSUME Typed, NEW p \in Profiles, Scan(p) PROVE Typed'
<1>1. PICK new \in [{k \in Keys : Unknown(p, k) > 0} -> 0 .. VersionBound] :
        LET rows == [k \in Keys |-> Scanned(p, k, IF k \in DOMAIN new THEN new[k] ELSE 0)]
        IN  /\ \A k \in DOMAIN new : IF index[p][k] = NoRow THEN new[k] = Unknown(p, k)
                                                            ELSE new[k] <= Unknown(p, k)
            /\ \A k \in Keys : rows[k] # NoRow => rows[k].version <= VersionBound
            /\ index' = [index EXCEPT ![p] = rows]
  BY DEF Scan
<1> DEFINE m(k) == IF k \in DOMAIN new THEN new[k] ELSE 0
           rows == [k \in Keys |-> Scanned(p, k, m(k))]
<1>2. /\ \A k \in DOMAIN new : index[p][k] = NoRow => new[k] = Unknown(p, k)
      /\ \A k \in Keys : rows[k] # NoRow => rows[k].version <= VersionBound
      /\ index' = [index EXCEPT ![p] = rows]
  BY <1>1
<1>3. ASSUME NEW k \in Keys PROVE rows[k] \in Row \cup {NoRow}
  <2> DEFINE r == index[p][k]
             c == mirror[p][k[1]]
             D == Definitions(c, k[2])
             v == (IF r = NoRow THEN 0 ELSE r.version) + m(k)
  <2>1. r \in Row \cup {NoRow} /\ c \in Contents \cup {Absent} /\ k[2] \in Names
    BY DEF Typed, Tree, Keys
  <2>2. rows[k] = Scanned(p, k, m(k))
    OBVIOUS
  <2>3. m(k) \in Nat
    BY BoundsAssumption
  <2>4. CASE D = {}
    <3>1. rows[k] = NoRow \/ (r # NoRow /\ rows[k] = [r EXCEPT !.deleted = TRUE])
      <4>1. Scanned(p, k, m(k)) = IF r = NoRow THEN NoRow ELSE [r EXCEPT !.deleted = TRUE]
        BY <2>4 DEF Scanned
      <4> HIDE DEF r, m
      <4> QED
        BY <2>2, <4>1
    <3> HIDE DEF rows, r
    <3> QED
      BY <2>1, <3>1 DEF Row
  <2>5. CASE D # {}
    <3> DEFINE i == Max(D)
    <3>1. c # Absent /\ i \in Nat /\ c[i].body \in Bodies /\ IsFiniteSet(D)
      <4> HIDE DEF c
      <4> QED BY <2>1, <2>5, DefinitionsAre
    <3>2. rows[k] = [version |-> v, body |-> c[i].body, line |-> i, deleted |-> FALSE]
      BY <2>2, <2>5 DEF Scanned
    <3>3. v \in Nat \ {0}
      <4>1. CASE r = NoRow
        <5>1. Unknown(p, k) \in Nat \ {0}
          <6>1. D = Definitions(mirror[p][k[1]], k[2])
            OBVIOUS
          <6> HIDE DEF D
          <6> QED BY <2>5, <3>1, <4>1, <6>1, UnknownIs
        <5>2. k \in DOMAIN new
          BY <5>1
        <5>3. m(k) = Unknown(p, k)
          BY <1>2, <4>1, <5>2
        <5> QED
          BY <4>1, <5>1, <5>3
      <4>2. CASE r # NoRow
        <5>1. r.version \in Nat \ {0}
          BY <2>1, <4>2, BoundsAssumption DEF Row
        <5> HIDE DEF m
        <5> QED
          BY <2>3, <4>2, <5>1
      <4> QED
        BY <4>1, <4>2
    <3> HIDE DEF v, i, c, D, rows
    <3>4. rows[k].version = v
      BY <3>2
    <3>5. v \in 1 .. VersionBound \/ rows[k] = NoRow
      BY <1>2, <3>3, <3>4, BoundsAssumption
    <3> QED
      BY <3>1, <3>2, <3>5 DEF Row
  <2> QED
    BY <2>4, <2>5
<1>4. index' \in [Profiles -> [Keys -> Row \cup {NoRow}]]
  <2>1. rows = [k \in Keys |-> rows[k]]
    OBVIOUS
  <2> HIDE DEF rows
  <2>2. rows \in [Keys -> Row \cup {NoRow}]
    BY <1>3, <2>1
  <2> QED
    BY <1>2, <2>2 DEF Typed
<1> QED
  BY <1>4 DEF Typed, Scan

LEMMA ItemsTyped ==
  ASSUME Typed, NEW p \in Profiles
  PROVE  ItemsOf(p) \in SUBSET Item /\ IsFiniteSet(ItemsOf(p))
<1> DEFINE K == {l \in Keys : Newest(p, l)}
           Made(k) == [file |-> k[1], name |-> k[2], body |-> index[p][k].body,
                       line |-> index[p][k].line, active |-> Active(p, k)]
<1>1. ItemsOf(p) = {Made(k) : k \in K}
  BY DEF ItemsOf
<1>2. ASSUME NEW k \in K PROVE Made(k) \in Item
  <2>1. k[1] \in Files /\ k[2] \in Names
    BY DEF Keys
  <2>2. index[p][k] \in Row
    BY DEF Typed, Newest
  <2>3. Active(p, k) \in BOOLEAN
    BY DEF Active
  <2> QED
    BY <2>1, <2>2, <2>3 DEF Item, Row
<1>3. IsFiniteSet(Keys)
  BY OrderAssumption, NamesAssumption, FS_Product DEF Keys
<1>4. IsFiniteSet(K)
  BY <1>3, FS_Subset
<1>5. IsFiniteSet({Made(k) : k \in K})
  <2> DEFINE g == [k \in K |-> Made(k)]
  <2> HIDE DEF K, Made
  <2>1. {Made(k) : k \in K} = {g[k] : k \in K}
    OBVIOUS
  <2>2. DOMAIN g = K /\ g = [k \in K |-> g[k]]
    OBVIOUS
  <2> HIDE DEF g
  <2>3. IsFiniteSet({g[k] : k \in K})
    BY <1>4, <2>2, ImageIsFinite
  <2> QED
    BY <2>1, <2>3
<1> HIDE DEF K, Made
<1> QED
  BY <1>1, <1>2, <1>5

-----------------------------------------------------------------------------
(***************************************************************************)
(* The files a restore writes.                                             *)
(***************************************************************************)
Sorted(q, S) == /\ ToSet(q) = S
                /\ \A i, j \in DOMAIN q : i < j => q[i].line <= q[j].line

\* Finitely many items can be sorted: the one with the least line comes first.
LEMMA ItemsSort ==
  ASSUME NEW I, I \subseteq Item, IsFiniteSet(I)
  PROVE  \E q \in SeqOf(I, Cardinality(I)) : Sorted(q, I)
<1> DEFINE C == Cardinality(I)
           Sorts(n) == \A S \in SUBSET I :
                         Cardinality(S) = n => \E q \in [1 .. n -> S] : Sorted(q, S)
           P == {n \in 0 .. C : Sorts(n)}
<1>1. C \in Nat /\ \A S \in SUBSET I : IsFiniteSet(S)
  BY FS_CardinalityType, FS_Subset
<1>2. Sorts(0)
  <2> SUFFICES ASSUME NEW S \in SUBSET I, Cardinality(S) = 0
               PROVE  \E q \in [1 .. 0 -> S] : Sorted(q, S)
    OBVIOUS
  <2>1. S = {}
    BY <1>1, FS_EmptySet
  <2> DEFINE e == [i \in 1 .. 0 |-> 1]
  <2>2. e \in [1 .. 0 -> S] /\ DOMAIN e = {}
    OBVIOUS
  <2> HIDE DEF e
  <2>3. Sorted(e, S)
    BY <2>1, <2>2 DEF Sorted, ToSet
  <2> QED
    BY <2>2, <2>3
<1>3. ASSUME NEW n \in 1 .. C, Sorts(n - 1) PROVE Sorts(n)
  <2> SUFFICES ASSUME NEW S \in SUBSET I, Cardinality(S) = n
               PROVE  \E q \in [1 .. n -> S] : Sorted(q, S)
    OBVIOUS
  <2>n. n \in Nat \ {0}
    BY <1>1
  <2>1. S # {}
    BY <2>n, FS_EmptySet
  <2> DEFINE L == {x.line : x \in S}
  <2>2. L \subseteq Nat /\ L # {}
    BY <2>1 DEF Item
  <2>3. PICK l \in L : \A k \in L : l <= k
    <3> HIDE DEF L
    <3> QED BY <2>2, Least
  <2>4. PICK m \in S : \A x \in S : m.line <= x.line
    BY <2>3
  <2> DEFINE R == S \ {m}
  <2>5. R \in SUBSET I /\ Cardinality(R) = n - 1
    <3>1. Cardinality(S \ {m}) = Cardinality(S) - 1
      BY <1>1, FS_RemoveElement
    <3> QED
      BY <3>1
  <2>6. PICK r \in [1 .. n - 1 -> R] : Sorted(r, R)
    <3> HIDE DEF R
    <3> QED BY <1>3, <2>5
  <2> DEFINE q == [i \in 1 .. n |-> IF i = 1 THEN m ELSE r[i - 1]]
  <2>7. \A i \in 1 .. n : i # 1 => i - 1 \in 1 .. n - 1 /\ r[i - 1] \in R
    BY <2>n, <2>6
  <2>8. q \in [1 .. n -> S]
    BY <2>7
  <2>9. ToSet(q) = S
    <3>1. ASSUME NEW x \in S PROVE \E i \in 1 .. n : q[i] = x
      <4>1. CASE x = m
        <5>1. 1 \in 1 .. n
          BY <2>n
        <5> QED
          BY <4>1, <5>1
      <4>2. CASE x # m
        <5>1. x \in ToSet(r)
          BY <2>6, <4>2 DEF Sorted
        <5>2. PICK i \in 1 .. n - 1 : r[i] = x
          BY <2>6, <5>1 DEF ToSet
        <5>3. i + 1 \in 1 .. n /\ i + 1 # 1 /\ i + 1 - 1 = i
          BY <2>n
        <5>4. q[i + 1] = r[i]
          BY <5>3
        <5> QED
          BY <5>2, <5>3, <5>4
      <4> QED
        BY <4>1, <4>2
    <3> HIDE DEF q
    <3> QED
      BY <2>8, <3>1 DEF ToSet
  <2>a. ASSUME NEW i \in 1 .. n, NEW j \in 1 .. n, i < j PROVE q[i].line <= q[j].line
    <3>1. j # 1 /\ j - 1 \in 1 .. n - 1 /\ q[j] = r[j - 1]
      BY <2>n, <2>a
    <3>2. CASE i = 1
      <4>1. q[i] = m
        BY <3>2
      <4>2. q[j] \in S
        BY <2>8
      <4> HIDE DEF q
      <4> QED
        BY <2>4, <4>1, <4>2
    <3>3. CASE i # 1
      <4>1. i - 1 \in 1 .. n - 1 /\ i - 1 < j - 1 /\ q[i] = r[i - 1]
        BY <2>n, <2>a, <3>3
      <4>2. DOMAIN r = 1 .. n - 1
        OBVIOUS
      <4> HIDE DEF q
      <4> QED
        BY <2>6, <3>1, <4>1, <4>2 DEF Sorted
    <3> QED
      BY <3>2, <3>3
  <2>b. Sorted(q, S)
    <3>1. DOMAIN q = 1 .. n
      OBVIOUS
    <3> HIDE DEF q
    <3> QED
      BY <2>9, <2>a, <3>1 DEF Sorted
  <2> HIDE DEF q
  <2> QED
    BY <2>8, <2>b
<1>4. 0 \in P /\ \A n \in 1 .. C : n - 1 \in P => n \in P
  <2> HIDE DEF Sorts, C
  <2>1. ASSUME NEW n \in 1 .. C, n - 1 \in P PROVE n \in P
    <3>1. n \in 0 .. C /\ Sorts(n - 1)
      BY <1>1, <2>1
    <3> QED
      BY <1>3, <3>1
  <2> QED
    BY <1>1, <1>2, <2>1
<1>5. Sorts(C)
  <2>1. \A n \in 0 .. C : n \in P
    <3> HIDE DEF P, C
    <3> QED BY <1>1, <1>4, Induction
  <2> HIDE DEF C, Sorts
  <2> QED BY <1>1, <2>1
<1>6. PICK q \in [1 .. C -> I] : Sorted(q, I)
  BY <1>5
<1>7. q \in SeqOf(I, C)
  <2>1. C \in 0 .. C
    BY <1>1
  <2> HIDE DEF C
  <2> QED BY <2>1 DEF SeqOf
<1> QED
  BY <1>6, <1>7

LEMMA RebuiltTyped == ASSUME NEW b \in FiniteBackup PROVE Rebuilt(b) \in Tree
<1> DEFINE I(f) == {i \in b.items : i.file = f}
           q(f) == CHOOSE q \in SeqOf(I(f), Cardinality(I(f))) :
                     /\ ToSet(q) = I(f)
                     /\ \A i, j \in DOMAIN q : i < j => q[i].line <= q[j].line
           c(f) == [n \in DOMAIN q(f) |-> [kind |-> "macro", name |-> q(f)[n].name, body |-> q(f)[n].body]]
<1>1. b.items \subseteq Item /\ IsFiniteSet(b.items)
  BY DEF FiniteBackup, Backup
<1>2. ASSUME NEW f \in Files PROVE c(f) \in Contents
  <2>1. I(f) \in SUBSET b.items
    OBVIOUS
  <2>2. I(f) \subseteq Item
    BY <1>1, <2>1
  <2>3. IsFiniteSet(I(f))
    <3> HIDE DEF I
    <3> QED BY <1>1, <2>1, FS_Subset
  <2>4. Cardinality(I(f)) \in Nat
    <3> HIDE DEF I
    <3> QED BY <2>3, FS_CardinalityType
  <2> HIDE DEF I
  <2>5. \E s \in SeqOf(I(f), Cardinality(I(f))) : Sorted(s, I(f))
    BY <2>2, <2>3, ItemsSort
  <2>6. q(f) \in SeqOf(I(f), Cardinality(I(f)))
    BY <2>5 DEF Sorted
  <2> HIDE DEF q
  <2>7. PICK n \in Nat : q(f) \in [1 .. n -> I(f)]
    BY <2>4, <2>6 DEF SeqOf
  <2>8. \A k \in 1 .. n : [kind |-> "macro", name |-> q(f)[k].name, body |-> q(f)[k].body] \in Sections
    <3> SUFFICES ASSUME NEW k \in 1 .. n
                 PROVE  [kind |-> "macro", name |-> q(f)[k].name, body |-> q(f)[k].body] \in Sections
      OBVIOUS
    <3>1. q(f)[k] \in Item
      BY <2>2, <2>7
    <3>2. q(f)[k].name \in Names /\ q(f)[k].body \in Bodies
      BY <3>1 DEF Item
    <3> QED
      BY <3>2 DEF Sections, Macro
  <2>9. DOMAIN q(f) = 1 .. n
    BY <2>7
  <2>a. c(f) \in [1 .. n -> Sections]
    BY <2>8, <2>9
  <2> HIDE DEF c
  <2> QED
    BY <2>a DEF Contents
<1>3. Rebuilt(b) = [f \in Files |-> IF I(f) = {} THEN Absent ELSE c(f)]
  BY DEF Rebuilt
<1> HIDE DEF I, c
<1> QED
  BY <1>2, <1>3 DEF Tree

LEMMA ContentTyped == ASSUME NEW b \in FiniteBackup PROVE Content(b) \in Tree
BY RebuiltTyped DEF Content, FiniteBackup, Backup

-----------------------------------------------------------------------------
(***************************************************************************)
(* The steps.                                                              *)
(***************************************************************************)
LEMMA EditTyped ==
  ASSUME Typed, NEW p \in Profiles, NEW f \in Files, Edit(p, f) PROVE Typed'
<1>1. PICK c \in Layouts[f] : mirror' = [mirror EXCEPT ![p][f] = c]
  BY DEF Edit
<1>2. c \in Contents \cup {Absent} /\ mirror[p] \in Tree
  BY LayoutsAssumption DEF Typed
<1>3. [mirror[p] EXCEPT ![f] = c] \in Tree
  BY <1>2, WithFile
<1>4. mirror' = [mirror EXCEPT ![p] = [mirror[p] EXCEPT ![f] = c]]
  BY <1>1
<1>5. mirror' \in [Profiles -> Tree]
  BY <1>3, <1>4 DEF Typed
<1>6. op' \in [Sessions -> FiniteOp]
  BY UndoneTyped DEF Typed, Edit
<1>7. upsets' \in 0 .. UpsetBound
  BY BoundsAssumption DEF Typed, Edit
<1> QED
  BY <1>5, <1>6, <1>7 DEF Typed, Edit

LEMMA BeginTyped ==
  ASSUME Typed, NEW s \in Sessions, NEW p \in Profiles, NEW migrates \in BOOLEAN, Begin(s, p, migrates)
  PROVE  Typed'
<1> DEFINE w == IF IndexTrue(p) THEN mirror[p] ELSE Nowhere
           b == [profile |-> p, items |-> ItemsOf(p), files |-> Nowhere, was |-> w]
           o == [phase |-> "copy", migrates |-> migrates, id |-> NextId, backup |-> b,
                 todo |-> FilesOf(p), cut |-> << >>, was |-> mirror[p]]
<1>1. Continue(s, o) /\ NextId \in Ids /\ UNCHANGED <<index, backups, upsets>>
  BY DEF Begin
<1>2. mirror[p] \in Tree /\ w \in Tree
  BY NowhereIsTree DEF Typed
<1> HIDE DEF w
<1>3. b \in FiniteBackup
  BY <1>2, ItemsTyped, NowhereIsTree DEF FiniteBackup, Backup
<1>4. FilesOf(p) \in SUBSET Files /\ << >> \in Contents
  BY DEF FilesOf, Contents
<1> HIDE DEF b
<1>5. o \in FiniteOp
  BY <1>1, <1>2, <1>3, <1>4 DEF FiniteOp, FiniteBackup, Op
<1> HIDE DEF o
<1>6. mirror' \in [Profiles -> Tree] /\ op' \in [Sessions -> FiniteOp]
  BY <1>1, <1>5, ContinueTyped
<1> QED
  BY <1>1, <1>6 DEF Typed

LEMMA CopyFileTyped == ASSUME Typed, NEW s \in Sessions, CopyFile(s) PROVE Typed'
<1> DEFINE p == Printer(s)
           o0 == op[s]
           b0 == op[s].backup
<1>1. o0 \in FiniteOp /\ b0 \in FiniteBackup /\ p \in Profiles /\ o0.todo \in SUBSET Files
  BY OpParts DEF Typed, Printer
<1>2. PICK f \in Foremost(o0.todo) : \E c \in {mirror[p][f], Absent} :
        Continue(s, [o0 EXCEPT !.todo = @ \ {f}, !.backup.files[f] = c,
                               !.backup.was = IF c = mirror[p][f] THEN @ ELSE Nowhere])
  BY DEF CopyFile
<1>3. PICK c \in {mirror[p][f], Absent} :
        Continue(s, [o0 EXCEPT !.todo = @ \ {f}, !.backup.files[f] = c,
                               !.backup.was = IF c = mirror[p][f] THEN @ ELSE Nowhere])
  BY <1>2
<1>4. f \in Files /\ mirror[p] \in Tree
  BY <1>1 DEF Foremost, Typed
<1>5. c \in Contents \cup {Absent}
  BY <1>4 DEF Tree
<1>6. b0.files \in Tree /\ b0.was \in Tree
  BY <1>1 DEF FiniteBackup, Backup
<1> DEFINE g == [b0.files EXCEPT ![f] = c]
           w == IF c = mirror[p][f] THEN b0.was ELSE Nowhere
           b1 == [b0 EXCEPT !.files = g]
           b == [b1 EXCEPT !.was = w]
           F == o0.todo \ {f}
           o1 == [o0 EXCEPT !.todo = F]
           o == [o1 EXCEPT !.backup = b]
<1>7. g \in Tree /\ w \in Tree
  <2>1. g \in Tree
    <3> HIDE DEF b0
    <3> QED BY <1>5, <1>6, WithFile
  <2> QED
    BY <2>1, <1>6, NowhereIsTree
<1>8. Continue(s, o)
  <2>1. [o0 EXCEPT !.todo = @ \ {f}, !.backup.files[f] = c,
                   !.backup.was = IF c = mirror[p][f] THEN @ ELSE Nowhere] = o
    BY <1>1 DEF FiniteOp, FiniteBackup, Op, Backup
  <2> QED
    BY <1>3, <2>1
<1> HIDE DEF g, w
<1>9. b1 \in FiniteBackup
  BY <1>1, <1>7 DEF FiniteBackup, Backup
<1>a. b \in FiniteBackup
  <2> HIDE DEF b1
  <2> QED BY <1>7, <1>9 DEF FiniteBackup, Backup
<1>b. o1 \in FiniteOp
  BY <1>1, WithTodo
<1>c. o \in FiniteOp
  <2> HIDE DEF b, o1
  <2> QED BY <1>a, <1>b DEF FiniteOp, FiniteBackup, Op
<1> HIDE DEF o
<1>d. mirror' \in [Profiles -> Tree] /\ op' \in [Sessions -> FiniteOp]
  BY <1>8, <1>c, ContinueTyped
<1> QED
  BY <1>d DEF Typed, CopyFile

LEMMA CommitTyped == ASSUME Typed, NEW s \in Sessions, CommitBackup(s) PROVE Typed'
<1>1. op[s] \in FiniteOp /\ op[s].id \in Ids /\ op[s].backup \in FiniteBackup
  BY OpParts DEF Typed
<1> DEFINE o == IF op[s].migrates THEN [op[s] EXCEPT !.phase = "move"] ELSE Idle
<1>2. o \in FiniteOp
  BY <1>1, WithPhase, IdleTyped
<1>3. Continue(s, o)
  BY DEF CommitBackup
<1> HIDE DEF o
<1>4. mirror' \in [Profiles -> Tree] /\ op' \in [Sessions -> FiniteOp]
  BY <1>2, <1>3, ContinueTyped
<1>5. backups' \in [Ids -> FiniteBackup \cup {NoBackup}]
  BY <1>1 DEF Typed, CommitBackup
<1> QED
  BY <1>4, <1>5 DEF Typed, CommitBackup

LEMMA DeleteTyped == ASSUME Typed, NEW id \in Ids, DeleteBackup(id) PROVE Typed'
BY DEF Typed, DeleteBackup

\* Steps that change the mirror or the operation alone.
LEMMA RestTyped ==
  ASSUME Typed, NEW s \in Sessions, NEW o \in FiniteOp, UNCHANGED <<index, backups, upsets>>,
         Continue(s, o) \/ \E t \in Tree : Write(s, t, o)
  PROVE  Typed'
<1>1. mirror' \in [Profiles -> Tree] /\ op' \in [Sessions -> FiniteOp]
  BY ContinueTyped, WriteTyped
<1> QED
  BY <1>1 DEF Typed

LEMMA FailTyped == ASSUME Typed, NEW s \in Sessions, FailBackup(s) PROVE Typed'
BY IdleTyped, RestTyped DEF FailBackup

LEMMA StartRestoreTyped ==
  ASSUME Typed, NEW s \in Sessions, NEW id \in Ids, StartRestore(s, id) PROVE Typed'
<1> DEFINE b == backups[id]
           o == [phase |-> "write", migrates |-> FALSE, id |-> id, backup |-> b,
                 todo |-> Restored(b), cut |-> << >>, was |-> mirror[b.profile]]
<1>1. b \in FiniteBackup /\ Continue(s, o) /\ UNCHANGED <<index, backups, upsets>>
  BY DEF Typed, StartRestore
<1>2. mirror[b.profile] \in Tree
  BY <1>1 DEF Typed, FiniteBackup, Backup
<1>3. Restored(b) \in SUBSET Files /\ << >> \in Contents
  BY DEF Restored, Listing, Contents
<1> HIDE DEF b
<1>4. o \in FiniteOp
  BY <1>1, <1>2, <1>3 DEF FiniteOp, FiniteBackup, Op
<1> HIDE DEF o
<1> QED
  BY <1>1, <1>4, RestTyped

\* What operations take their printer's mirror and their backup to be.
LEMMA MirrorTyped ==
  ASSUME Typed, NEW s \in Sessions
  PROVE  /\ op[s] \in FiniteOp
         /\ mirror[Printer(s)] \in Tree
         /\ Content(op[s].backup) \in Tree
         /\ op[s].todo \in SUBSET Files
BY OpParts, ContentTyped DEF Typed, Printer

LEMMA WriteRestoredTyped == ASSUME Typed, NEW s \in Sessions, WriteRestored(s) PROVE Typed'
<1> DEFINE m == mirror[Printer(s)]
           new == Content(op[s].backup)
<1>1. PICK f \in Foremost(op[s].todo) :
        Write(s, [m EXCEPT ![f] = new[f]], [op[s] EXCEPT !.todo = @ \ {f}])
  BY DEF WriteRestored
<1>2. m \in Tree /\ new \in Tree /\ op[s] \in FiniteOp /\ op[s].todo \in SUBSET Files
  BY MirrorTyped
<1>3. f \in Files
  BY <1>2 DEF Foremost
<1> DEFINE F == op[s].todo \ {f}
           o == [op[s] EXCEPT !.todo = F]
           t == [m EXCEPT ![f] = new[f]]
<1>4. F \in SUBSET Files
  BY <1>2
<1>5. o \in FiniteOp
  <2> HIDE DEF F
  <2> QED BY <1>2, <1>4, WithTodo
<1>6. t \in Tree
  <2> HIDE DEF m, new
  <2>1. new[f] \in Contents \cup {Absent}
    BY <1>2, <1>3 DEF Tree
  <2> QED
    BY <1>2, <2>1, WithFile
<1>7. Write(s, t, o)
  BY <1>1
<1>8. UNCHANGED <<index, backups, upsets>>
  BY DEF WriteRestored
<1> HIDE DEF o, t
<1> QED
  BY <1>5, <1>6, <1>7, <1>8, RestTyped

LEMMA ListRestoredTyped == ASSUME Typed, NEW s \in Sessions, ListRestored(s) PROVE Typed'
<1> DEFINE F == Listing(mirror[Printer(s)]) \ PrinterCfgs
           o1 == [op[s] EXCEPT !.phase = "prune"]
           o == [o1 EXCEPT !.todo = F]
<1>1. op[s] \in FiniteOp /\ F \in SUBSET Files
  BY MirrorTyped DEF Listing
<1>2. o1 \in FiniteOp
  BY <1>1, WithPhase
<1>3. o \in FiniteOp
  <2> HIDE DEF o1, F
  <2> QED BY <1>1, <1>2, WithTodo
<1>4. Continue(s, o) /\ UNCHANGED <<index, backups, upsets>>
  <2>1. [op[s] EXCEPT !.phase = "prune", !.todo = F] = o
    OBVIOUS
  <2> QED
    BY <2>1 DEF ListRestored
<1> HIDE DEF o
<1> QED
  BY <1>3, <1>4, RestTyped

LEMMA PruneNextTyped == ASSUME Typed, NEW s \in Sessions, PruneNext(s) PROVE Typed'
<1> DEFINE m == mirror[Printer(s)]
<1>1. PICK f \in Foremost(op[s].todo) :
        LET o == [op[s] EXCEPT !.todo = @ \ {f}]
        IN  IF Superfluous(s, f) THEN Write(s, [m EXCEPT ![f] = Absent], o)
            ELSE Continue(s, o)
  BY DEF PruneNext
<1>2. m \in Tree /\ op[s] \in FiniteOp /\ op[s].todo \in SUBSET Files
  BY MirrorTyped
<1> DEFINE F == op[s].todo \ {f}
           o == [op[s] EXCEPT !.todo = F]
           t == [m EXCEPT ![f] = Absent]
<1>3. F \in SUBSET Files
  BY <1>2
<1>4. o \in FiniteOp
  <2> HIDE DEF F
  <2> QED BY <1>2, <1>3, WithTodo
<1>5. t \in Tree
  <2> HIDE DEF m
  <2> QED BY <1>2, WithFile
<1>6. Write(s, t, o) \/ Continue(s, o)
  BY <1>1
<1>7. UNCHANGED <<index, backups, upsets>>
  BY DEF PruneNext
<1> HIDE DEF o, t
<1> QED
  BY <1>4, <1>5, <1>6, <1>7, RestTyped

LEMMA FinishRestoreTyped == ASSUME Typed, NEW s \in Sessions, FinishRestore(s) PROVE Typed'
BY IdleTyped, RestTyped DEF FinishRestore

LEMMA MoveSectionsTyped == ASSUME Typed, NEW s \in Sessions, MoveSections(s) PROVE Typed'
<1> DEFINE m == mirror[Printer(s)]
           c == m[Root]
           rest == Only(c, Link \cup Other)
           t == [m EXCEPT ![Root] = rest]
           o1 == [op[s] EXCEPT !.phase = "append"]
           o == [o1 EXCEPT !.cut = c]
<1>1. /\ UNCHANGED <<index, backups, upsets>>
      /\ IF Bearing(c) THEN Write(s, t, o) ELSE Continue(s, Idle)
  BY DEF MoveSections
<1>2. CASE Bearing(c)
  <2>1. m \in Tree /\ op[s] \in FiniteOp
    BY MirrorTyped
  <2>2. c \in Seq(Sections) /\ c \in Contents
    <3>1. c # Absent
      BY <1>2 DEF Bearing, Definitions
    <3> HIDE DEF m
    <3> QED
      BY <2>1, <3>1, OrderAssumption DEF Tree, Contents
  <2>3. rest \in Contents
    <3> DEFINE S == Link \cup Other
    <3> HIDE DEF c, S
    <3>1. Only(c, S) \in Seq(Sections \cap S)
      BY <2>2, OnlyIsSeq
    <3>2. Only(c, S) \in Seq(Sections)
      BY <3>1
    <3> QED
      BY <3>2 DEF Contents, S
  <2>4. t \in Tree
    <3> HIDE DEF m, rest
    <3> QED BY <2>1, <2>3, WithFile
  <2>5. o1 \in FiniteOp
    BY <2>1, WithPhase
  <2>6. o \in FiniteOp
    <3> HIDE DEF o1, c
    <3> QED BY <2>2, <2>5 DEF FiniteOp, Op
  <2>7. Write(s, t, o)
    BY <1>1, <1>2
  <2> HIDE DEF t, o
  <2> QED
    BY <1>1, <2>4, <2>6, <2>7, RestTyped
<1>3. CASE ~Bearing(c)
  BY <1>1, <1>3, IdleTyped, RestTyped
<1> QED
  BY <1>2, <1>3

LEMMA TextTyped ==
  ASSUME NEW c \in Contents \cup {Absent}
  PROVE  Text(c) \in Seq(Sections)
BY DEF Text, Contents

LEMMA AppendMacrosTyped == ASSUME Typed, NEW s \in Sessions, AppendMacros(s) PROVE Typed'
<1> DEFINE m == mirror[Printer(s)]
           a == Text(m[MacrosCfg])
           b == Only(op[s].cut, Macro)
           c == a \o b
           t == [m EXCEPT ![MacrosCfg] = c]
           o == [op[s] EXCEPT !.phase = "include"]
<1>1. UNCHANGED <<index, backups, upsets>> /\ Write(s, t, o)
  BY DEF AppendMacros
<1>2. m \in Tree /\ op[s] \in FiniteOp /\ op[s].cut \in Seq(Sections)
  BY MirrorTyped, OpParts DEF Contents
<1>3. a \in Seq(Sections)
  <2>1. m[MacrosCfg] \in Contents \cup {Absent}
    <3> HIDE DEF m
    <3> QED BY <1>2, FilesAssumption DEF Tree
  <2> QED
    BY <2>1, TextTyped
<1>4. b \in Seq(Sections)
  <2>1. b \in Seq(Sections \cap Macro)
    BY <1>2, OnlyIsSeq
  <2> QED
    BY <2>1
<1>5. c \in Contents
  <2> HIDE DEF a, b
  <2> QED BY <1>3, <1>4, ConcatLonger DEF Contents
<1>6. t \in Tree
  <2> HIDE DEF m, c
  <2> QED BY <1>2, <1>5, WithFile
<1>7. o \in FiniteOp
  BY <1>2, WithPhase
<1> HIDE DEF t, o
<1> QED
  BY <1>1, <1>6, <1>7, RestTyped

LEMMA AddIncludeTyped == ASSUME Typed, NEW s \in Sessions, AddInclude(s) PROVE Typed'
<1> DEFINE m == mirror[Printer(s)]
           c == m[Root]
           x == [kind |-> "include", file |-> MacrosCfg]
           d == Append(Text(c), x)
           t == [m EXCEPT ![Root] = d]
<1>1. UNCHANGED <<index, backups, upsets>> /\ (Continue(s, Idle) \/ Write(s, t, Idle))
  BY DEF AddInclude
<1>2. m \in Tree
  BY MirrorTyped
<1>3. x \in Sections
  BY FilesAssumption DEF Sections, Link
<1>4. Text(c) \in Seq(Sections)
  <2>1. c \in Contents \cup {Absent}
    <3> HIDE DEF m
    <3> QED BY <1>2, OrderAssumption DEF Tree
  <2> QED
    BY <2>1, TextTyped
<1>5. d \in Contents
  <2> HIDE DEF c, x
  <2> QED BY <1>3, <1>4 DEF Contents
<1>6. t \in Tree
  <2> HIDE DEF m, d
  <2> QED BY <1>2, <1>5, WithFile
<1> HIDE DEF t
<1> QED
  BY <1>1, <1>6, IdleTyped, RestTyped

LEMMA InterruptTyped == ASSUME Typed, NEW s \in Sessions, Interrupt(s) PROVE Typed'
<1>1. Continue(s, Idle) \/ \E t \in Tree : Write(s, t, Idle)
  <2>1. mirror[Printer(s)] \in Tree
    BY MirrorTyped
  <2>2. \A f \in Files : [mirror[Printer(s)] EXCEPT ![f] = << >>] \in Tree
    <3>1. << >> \in Contents \cup {Absent}
      BY DEF Contents
    <3> QED
      BY <2>1, <3>1, WithFile
  <2>3. \A f \in Torn(s) : f \in Files
    BY DEF Torn
  <2> QED
    BY <2>2, <2>3 DEF Interrupt
<1>2. mirror' \in [Profiles -> Tree] /\ op' \in [Sessions -> FiniteOp]
  BY <1>1, IdleTyped, ContinueTyped, WriteTyped
<1>3. upsets' \in 0 .. UpsetBound
  BY BoundsAssumption DEF Typed, Interrupt
<1> QED
  BY <1>2, <1>3 DEF Typed, Interrupt

LEMMA NextTyped == Typed /\ [Next]_vars => Typed'
<1> SUFFICES ASSUME Typed, [Next]_vars PROVE Typed'
  OBVIOUS
<1>1. CASE UNCHANGED vars
  BY <1>1 DEF vars, Typed
<1>2. ASSUME NEW p \in Profiles, Scan(p) PROVE Typed'
  BY <1>2, ScanTyped
<1>3. ASSUME NEW p \in Profiles, NEW f \in Files, Edit(p, f) PROVE Typed'
  BY <1>3, EditTyped
<1>4. ASSUME NEW p \in Profiles, NEW s \in Sessions, StartBackup(s, p) \/ StartMigration(s, p)
      PROVE  Typed'
  BY <1>4, BeginTyped DEF StartBackup, StartMigration
<1>5. ASSUME NEW id \in Ids, DeleteBackup(id) PROVE Typed'
  BY <1>5, DeleteTyped
<1>6. ASSUME NEW id \in Ids, NEW s \in Sessions, StartRestore(s, id) PROVE Typed'
  BY <1>6, StartRestoreTyped
<1>7. ASSUME NEW s \in Sessions, CopyFile(s) \/ CommitBackup(s) \/ FailBackup(s) PROVE Typed'
  BY <1>7, CopyFileTyped, CommitTyped, FailTyped
<1>8. ASSUME NEW s \in Sessions,
             WriteRestored(s) \/ ListRestored(s) \/ PruneNext(s) \/ FinishRestore(s)
      PROVE  Typed'
  BY <1>8, WriteRestoredTyped, ListRestoredTyped, PruneNextTyped, FinishRestoreTyped
<1>9. ASSUME NEW s \in Sessions,
             MoveSections(s) \/ AppendMacros(s) \/ AddInclude(s) \/ Interrupt(s)
      PROVE  Typed'
  BY <1>9, MoveSectionsTyped, AppendMacrosTyped, AddIncludeTyped, InterruptTyped
<1> QED
  BY <1>1, <1>2, <1>3, <1>4, <1>5, <1>6, <1>7, <1>8, <1>9, BoundsAssumption DEF Next

LEMMA TypedHolds == Spec => []Typed
BY InitTyped, NextTyped, PTL DEF Spec

\* Every mirror is a tree of cfg files, every row, backup and operation is of its
\* kind, whatever is restored, migrated and interrupted: what a restore rebuilds
\* from the items of a backup is made of sections too.
THEOREM BackupTypes == Spec => []TypeOK
BY TypedHolds, TypedIs, PTL

\* The loading overview of every printer finds at any time what Klipper reads,
\* and breaks off only where Klipper would, whatever edits, restores, migrations
\* and interruptions have made of the files (klipper_macro_indexer.py).
THEOREM OverviewHolds == Spec => []OverviewAgrees
<1>1. Typed => OverviewAgrees
  BY WalksAlwaysAgree DEF Typed, OverviewAgrees
<1> QED
  BY <1>1, TypedHolds, PTL

-----------------------------------------------------------------------------
(***************************************************************************)
(* What a migration leaves of the definitions.                             *)
(***************************************************************************)
\* The files that content c links to.
LinksOf(c) == {e.file : e \in {x \in ToSet(c) : x.kind \in LinkKinds}}

LEMMA LinksAre ==
  ASSUME NEW t \in Tree, NEW f \in Files, t[f] # Absent
  PROVE  Targets(t, f, LinkKinds) = LinksOf(t[f])
BY DEF Targets, LinksOf, ToSet

LEMMA KindsAre ==
  ASSUME NEW e \in Sections
  PROVE  /\ e.kind \in LinkKinds => e \in Link /\ e \notin Macro
         /\ e \in Link => e.kind \in LinkKinds
         /\ e.kind = "include" => e.kind \in LinkKinds
         /\ e \in Link \cup Other => e \notin Macro
         /\ e \in Macro => e.kind = "macro" /\ IsMacro(e)
BY DEF Sections, Macro, Link, Other, LinkKinds, IsMacro

LEMMA LinksOfMore ==
  ASSUME NEW a \in Seq(Sections), NEW b \in Seq(Sections)
  PROVE  LinksOf(a \o b) = LinksOf(a) \cup LinksOf(b)
<1>1. ToSet(a \o b) = ToSet(a) \cup ToSet(b)
  BY ConcatSet
<1> QED
  BY <1>1 DEF LinksOf

\* Cutting the macros out leaves all links, and the macros have none.
LEMMA LinksOfCut ==
  ASSUME NEW c \in Seq(Sections)
  PROVE  /\ LinksOf(Only(c, Link \cup Other)) = LinksOf(c)
         /\ LinksOf(Only(c, Macro)) = {}
<1>1. /\ ToSet(Only(c, Link \cup Other)) = ToSet(c) \cap (Link \cup Other)
      /\ ToSet(Only(c, Macro)) = ToSet(c) \cap Macro
  BY OnlySet
<1>2. ToSet(c) \subseteq Sections
  BY DEF ToSet
<1>3. \A e \in ToSet(c) : e.kind \in LinkKinds => e \in Link /\ e \notin Macro
  BY <1>2, KindsAre
<1> QED
  BY <1>1, <1>3 DEF LinksOf

\* What a migration that nothing disturbs makes of tree b.
Migrated(b) ==
  LET rest == Only(b[Root], Link \cup Other)
  IN  [Gathered(b) EXCEPT ![Root] =
         IF IncludesMacrosCfg(rest) THEN rest
         ELSE Append(rest, [kind |-> "include", file |-> MacrosCfg])]

\* The trees for which MigrationKeepsDefinitions claims something.
Eligible(b) ==
  /\ b[Root] # Absent
  /\ KlipperMacros(b).ok
  /\ b[MacrosCfg] = Absent \/ MacrosCfg \in ToSet(KlipperMacros(b).files)
  /\ \A i \in DOMAIN b[Root] : ~(b[Root][i].kind = "include" /\ b[Root][i].file \in Namesakes)

LEMMA TwoFiles == Root \in Files /\ MacrosCfg \in Files /\ Root # MacrosCfg
BY OrderAssumption, FilesAssumption DEF Root, MacrosCfg

LEMMA MigratedIs ==
  ASSUME NEW b \in Tree, b[Root] # Absent
  PROVE  LET rest == Only(b[Root], Link \cup Other)
         IN  /\ Migrated(b)[Root] = IF IncludesMacrosCfg(rest) THEN rest
                                    ELSE Append(rest, [kind |-> "include", file |-> MacrosCfg])
             /\ Migrated(b)[MacrosCfg] = Text(b[MacrosCfg]) \o Only(b[Root], Macro)
             /\ \A f \in Files \ {Root, MacrosCfg} : Migrated(b)[f] = b[f]
             /\ rest \in Seq(Sections) /\ Text(b[MacrosCfg]) \in Seq(Sections)
             /\ Only(b[Root], Macro) \in Seq(Sections) /\ b[Root] \in Seq(Sections)
             /\ Migrated(b) \in Tree
<1> DEFINE rest == Only(b[Root], Link \cup Other)
           x == [kind |-> "include", file |-> MacrosCfg]
           c == IF IncludesMacrosCfg(rest) THEN rest ELSE Append(rest, x)
           text == Text(b[MacrosCfg])
           macros == Only(b[Root], Macro)
           a == Migrated(b)
<1>1. b[Root] \in Seq(Sections) /\ Root \in Files /\ MacrosCfg \in Files /\ Root # MacrosCfg
  BY TwoFiles, TextIs
<1>2. rest \in Seq(Sections) /\ macros \in Seq(Sections)
  <2>1. PICK r \in Seq(Sections) : r = b[Root]
    BY <1>1
  <2>2. ASSUME NEW S PROVE Only(r, S) \in Seq(Sections)
    <3>1. Only(r, S) \in Seq(Sections \cap S)
      BY OnlyIsSeq
    <3> QED
      BY <3>1
  <2> QED
    BY <2>1, <2>2
<1>3. text \in Seq(Sections)
  <2>1. b[MacrosCfg] \in Contents \cup {Absent}
    BY <1>1 DEF Tree
  <2> QED
    BY <2>1, TextTyped
<1>4. x \in Sections
  BY TwoFiles DEF Sections, Link
<1>5. a = [Gathered(b) EXCEPT ![Root] = c]
  BY DEF Migrated
<1> HIDE DEF rest, x, text, macros, a
<1>6. c \in Seq(Sections) /\ text \o macros \in Seq(Sections)
  BY <1>2, <1>3, <1>4
<1>7. Gathered(b) = [f \in Files |-> IF f = MacrosCfg THEN text \o macros
                                     ELSE IF f = Root THEN rest ELSE b[f]]
  BY DEF Gathered, CutOut, text, macros, rest
<1> HIDE DEF c
<1>8. a = [f \in Files |-> IF f = Root THEN c ELSE IF f = MacrosCfg THEN text \o macros ELSE b[f]]
  BY <1>1, <1>5, <1>7
<1>9. /\ a[Root] = c /\ a[MacrosCfg] = text \o macros
      /\ \A f \in Files \ {Root, MacrosCfg} : a[f] = b[f]
  BY <1>1, <1>8
<1>10. a \in Tree
  BY <1>6, <1>8 DEF Tree, Contents
<1> QED
  BY <1>1, <1>2, <1>3, <1>9, <1>10 DEF a, c, x, text, macros, rest

LEMMA MigratedExist ==
  ASSUME NEW b \in Tree, b[Root] # Absent
  PROVE  /\ Migrated(b)[Root] # Absent /\ Migrated(b)[MacrosCfg] # Absent
         /\ \A f \in Files \ {Root, MacrosCfg} : Migrated(b)[f] = b[f]
<1> DEFINE rest == Only(b[Root], Link \cup Other)
           x == [kind |-> "include", file |-> MacrosCfg]
           text == Text(b[MacrosCfg])
           macros == Only(b[Root], Macro)
           a == Migrated(b)
<1>1. /\ a[Root] = IF IncludesMacrosCfg(rest) THEN rest ELSE Append(rest, x)
      /\ a[MacrosCfg] = text \o macros
      /\ \A f \in Files \ {Root, MacrosCfg} : a[f] = b[f]
      /\ rest \in Seq(Sections) /\ text \in Seq(Sections)
      /\ macros \in Seq(Sections)
  BY MigratedIs
<1>2. x \in Sections
  BY TwoFiles DEF Sections, Link
<1> HIDE DEF a, rest, x, text, macros
<1>3. a[Root] \in Seq(Sections) /\ a[MacrosCfg] \in Seq(Sections)
  BY <1>1, <1>2
<1> QED
  BY <1>1, <1>3, AbsentAssumption DEF Contents, a

\* Its links: those of b, and one from printer.cfg to macros.cfg.
LEMMA MigratedLinks ==
  ASSUME NEW b \in Tree, Eligible(b)
  PROVE  \A f \in Files : Targets(Migrated(b), f, LinkKinds) =
           Targets(b, f, LinkKinds) \cup (IF f = Root THEN {MacrosCfg} ELSE {})
<1> DEFINE a == Migrated(b)
           rest == Only(b[Root], Link \cup Other)
           x == [kind |-> "include", file |-> MacrosCfg]
           text == Text(b[MacrosCfg])
           macros == Only(b[Root], Macro)
           K == LinkKinds
<1>1. /\ a[Root] = IF IncludesMacrosCfg(rest) THEN rest ELSE Append(rest, x)
      /\ a[MacrosCfg] = text \o macros
      /\ \A f \in Files \ {Root, MacrosCfg} : a[f] = b[f]
      /\ rest \in Seq(Sections) /\ text \in Seq(Sections)
      /\ macros \in Seq(Sections) /\ b[Root] \in Seq(Sections)
      /\ a \in Tree
  BY MigratedIs DEF Eligible
<1>2. Root \in Files /\ MacrosCfg \in Files /\ Root # MacrosCfg /\ b[Root] # Absent
  BY TwoFiles DEF Eligible
<1>3. /\ LinksOf(rest) = LinksOf(b[Root]) /\ LinksOf(macros) = {}
      /\ ToSet(rest) \subseteq ToSet(b[Root])
  <2>1. PICK r \in Seq(Sections) : r = b[Root]
    BY <1>1
  <2> QED
    BY <2>1, LinksOfCut, OnlySet
<1>4. x \in Sections /\ x.kind \in LinkKinds /\ x.file = MacrosCfg
  BY TwoFiles DEF Sections, Link, LinkKinds
<1>5. \A i \in DOMAIN b[Root] : ~(b[Root][i].kind = "include" /\ b[Root][i].file \in Namesakes)
  BY DEF Eligible
<1>6. text = IF b[MacrosCfg] = Absent THEN << >> ELSE b[MacrosCfg]
  BY DEF Text
<1>7. IncludesMacrosCfg(rest) <=> \E i \in DOMAIN rest : rest[i].kind = "include"
                                                        /\ rest[i].file \in {MacrosCfg} \cup Namesakes
  <2>1. Text(rest) = rest
    BY <1>1, AbsentAssumption DEF Text, Contents
  <2> QED
    BY <2>1 DEF IncludesMacrosCfg
<1> HIDE DEF a, rest, x, text, macros
<1>8. a[Root] # Absent /\ LinksOf(a[Root]) = LinksOf(b[Root]) \cup {MacrosCfg}
  <2>1. CASE IncludesMacrosCfg(rest)
    <3>1. PICK i \in DOMAIN rest : rest[i].kind = "include" /\ rest[i].file \in {MacrosCfg} \cup Namesakes
      BY <1>7, <2>1
    <3>2. PICK e \in ToSet(b[Root]) : e.kind = "include" /\ e.file \in {MacrosCfg} \cup Namesakes
      BY <1>3, <3>1 DEF ToSet
    <3>3. e.file = MacrosCfg
      BY <1>5, <3>2 DEF ToSet
    <3>4. MacrosCfg \in LinksOf(b[Root])
      BY <3>2, <3>3 DEF LinksOf, LinkKinds
    <3> QED
      BY <1>1, <1>3, <2>1, <3>4, AbsentAssumption DEF Contents
  <2>2. CASE ~IncludesMacrosCfg(rest)
    <3>1. a[Root] = Append(rest, x) /\ Append(rest, x) \in Seq(Sections)
      BY <1>1, <1>4, <2>2
    <3>2. ToSet(Append(rest, x)) = ToSet(rest) \cup {x}
      BY <1>1, <1>4, AppendSet
    <3>3. LinksOf(Append(rest, x)) = LinksOf(rest) \cup {MacrosCfg}
      BY <1>4, <3>2 DEF LinksOf
    <3> QED
      BY <1>3, <3>1, <3>3, AbsentAssumption DEF Contents
  <2> QED
    BY <2>1, <2>2
<1>9. a[MacrosCfg] # Absent /\ LinksOf(a[MacrosCfg]) = LinksOf(text)
  <2>1. text \o macros \in Seq(Sections)
    BY <1>1
  <2>2. LinksOf(text \o macros) = LinksOf(text) \cup LinksOf(macros)
    BY <1>1, LinksOfMore
  <2> QED
    BY <1>1, <1>3, <2>1, <2>2, AbsentAssumption DEF Contents
<1>10. Targets(b, MacrosCfg, K) = LinksOf(text)
  <2>1. CASE b[MacrosCfg] = Absent
    <3>1. LinksOf(text) = {}
      BY <1>6, <2>1 DEF LinksOf, ToSet
    <3> QED
      BY <2>1, <3>1 DEF Targets
  <2>2. CASE b[MacrosCfg] # Absent
    BY <1>2, <1>6, <2>2, LinksAre
  <2> QED
    BY <2>1, <2>2
<1>11. Targets(a, Root, K) = Targets(b, Root, K) \cup {MacrosCfg}
  BY <1>1, <1>2, <1>8, LinksAre
<1>12. Targets(a, MacrosCfg, K) = Targets(b, MacrosCfg, K)
  BY <1>1, <1>2, <1>9, <1>10, LinksAre
<1>13. \A f \in Files \ {Root, MacrosCfg} : Targets(a, f, K) = Targets(b, f, K)
  BY <1>1 DEF Targets
<1> QED
  BY <1>2, <1>11, <1>12, <1>13 DEF a

\* A set of files without printer.cfg, or with macros.cfg, that no link of b leaves
\* is not left by one of the migrated tree either.
LEMMA MigratedClosed ==
  ASSUME NEW b \in Tree, Eligible(b), NEW X \in SUBSET Files, Closed(b, LinkKinds, X),
         Root \in X => MacrosCfg \in X
  PROVE  Closed(Migrated(b), LinkKinds, X)
BY MigratedLinks DEF Closed

\* The new links make no cycle and lead to no missing file.
LEMMA MigratedGood ==
  ASSUME NEW b \in Tree, Eligible(b)
  PROVE  /\ KlipperMacros(Migrated(b)).ok
         /\ MacrosCfg \in Closure(Migrated(b), LinkKinds, {Root})
<1> DEFINE a == Migrated(b)
           K == LinkKinds
           T(g) == Targets(b, g, K)
           C == Closure(b, K, {Root})
           D(g) == Closure(b, K, T(g))
<1>1. /\ Root \in Files /\ MacrosCfg \in Files /\ Root # MacrosCfg
      /\ K \subseteq LinkKinds /\ {Root} \in SUBSET Files
      /\ b[Root] # Absent /\ a \in Tree
  BY TwoFiles, MigratedIs DEF Eligible
<1>2. Good(b, K, Root) /\ (b[MacrosCfg] = Absent \/ MacrosCfg \in C)
  <2>1. KlipperMacros(b) = Visit(b, K) /\ Describes(Visit(b, K), b, K, {}, Root)
    BY <1>1, VisitDescribed DEF KlipperMacros, LinkKinds
  <2> QED
    BY <2>1 DEF Eligible, Describes
<1>3. \A g \in Files : T(g) \in SUBSET Files
  BY TargetsAre
<1>4. \A g \in Files : D(g) \in SUBSET Files /\ T(g) \subseteq D(g) /\ Closed(b, K, D(g))
  BY <1>3, ClosureIs
<1>5. C \in SUBSET Files /\ Root \in C /\ C = {Root} \cup D(Root) /\ Closed(b, K, C)
  BY <1>1, ClosureIs, ClosureOfOne
<1>6. /\ \A g \in C : b[g] # Absent /\ g \notin D(g)
  BY <1>2 DEF Good
<1>7. b[MacrosCfg] = Absent => T(MacrosCfg) = {} /\ D(MacrosCfg) = {}
  <2>1. ASSUME b[MacrosCfg] = Absent PROVE T(MacrosCfg) = {} /\ D(MacrosCfg) = {}
    <3>1. T(MacrosCfg) = {}
      BY <2>1 DEF Targets
    <3>2. {} \in SUBSET Files /\ {} \subseteq {} /\ Closed(b, K, {})
      BY DEF Closed
    <3>3. Closure(b, K, {}) \subseteq {}
      BY <3>2, ClosureIs
    <3> QED
      BY <3>1, <3>3
  <2> QED
    BY <2>1
<1>8. \A g \in D(Root) : Root \notin D(g)
  <2> SUFFICES ASSUME NEW g \in D(Root), Root \in D(g) PROVE FALSE
    OBVIOUS
  <2>1. g \in Files /\ T(Root) \in SUBSET Files
    BY <1>1, <1>3, <1>4
  <2>2. Closure(b, K, {g}) \subseteq D(Root)
    BY <2>1, ClosureOfClosure
  <2>3. Closure(b, K, {g}) = {g} \cup D(g)
    BY <2>1, ClosureOfOne
  <2> QED
    BY <1>5, <1>6, <2>2, <2>3
<1>9. \A f \in Files : Targets(a, f, K) = T(f) \cup (IF f = Root THEN {MacrosCfg} ELSE {})
  BY MigratedLinks
<1> HIDE DEF a, T, C, D, K
<1> DEFINE E == C \cup {MacrosCfg}
           A(g) == Closure(a, K, Targets(a, g, K))
<1>10. Closure(a, K, {Root}) \subseteq E
  <2>1. E \in SUBSET Files /\ {Root} \subseteq E /\ Closed(b, K, E)
    BY <1>1, <1>2, <1>5, <1>7 DEF Closed, T
  <2>2. Closed(a, K, E)
    BY <2>1, MigratedClosed DEF a, K
  <2> HIDE DEF E
  <2> QED
    BY <1>1, <2>1, <2>2, ClosureIs
<1>11. \A g \in E : a[g] # Absent
  <2>1. /\ a[Root] # Absent /\ a[MacrosCfg] # Absent
        /\ \A f \in Files \ {Root, MacrosCfg} : a[f] = b[f]
    BY <1>1, MigratedExist DEF a
  <2> QED
    BY <1>5, <1>6, <2>1
<1>12. \A g \in E : g \notin A(g)
  <2>0. ASSUME NEW g \in Files, NEW X \in SUBSET Files, Targets(a, g, K) \subseteq X,
               Closed(b, K, X), Root \notin X
        PROVE  A(g) \subseteq X
    <3>1. Closed(a, K, X)
      BY <2>0, MigratedClosed DEF a, K
    <3>2. Targets(a, g, K) \in SUBSET Files
      BY <2>0
    <3>3. A(g) \subseteq X
      BY <1>1, <2>0, <3>1, <3>2, ClosureIs
    <3> QED
      BY <3>3
  <2>1. Root \notin A(Root)
    <3> DEFINE X == D(Root) \cup {MacrosCfg}
    <3>1. X \in SUBSET Files /\ Closed(b, K, X) /\ Root \notin X
      BY <1>1, <1>2, <1>4, <1>5, <1>6, <1>7 DEF Closed, T
    <3>2. Targets(a, Root, K) \subseteq X
      BY <1>1, <1>4, <1>9
    <3> HIDE DEF X, A
    <3>3. A(Root) \subseteq X
      BY <1>1, <2>0, <3>1, <3>2
    <3> QED
      BY <3>1, <3>3
  <2>2. ASSUME NEW g \in E \ {Root} PROVE g \notin A(g)
    <3>1. g \in Files /\ g # Root
      BY <1>1, <1>5
    <3>2. Targets(a, g, K) \subseteq D(g) /\ D(g) \in SUBSET Files /\ Closed(b, K, D(g))
      BY <1>4, <1>9, <3>1
    <3>3. Root \notin D(g) /\ g \notin D(g)
      BY <1>2, <1>5, <1>6, <1>7, <1>8, <2>2
    <3> HIDE DEF A, E
    <3>4. A(g) \subseteq D(g)
      BY <2>0, <3>1, <3>2, <3>3
    <3> QED
      BY <3>3, <3>4
  <2> QED
    BY <2>1, <2>2
<1>13. Good(a, K, Root)
  BY <1>10, <1>11, <1>12 DEF Good
<1>14. KlipperMacros(a).ok
  <2>1. a[Root] # Absent
    BY <1>5, <1>11
  <2>2. KlipperMacros(a) = Visit(a, K) /\ Describes(Visit(a, K), a, K, {}, Root)
    BY <1>1, <2>1, VisitDescribed DEF KlipperMacros, LinkKinds, K
  <2> QED
    BY <1>13, <2>2 DEF Describes
<1>15. MacrosCfg \in Closure(a, K, {Root})
  <2>1. Closed(a, K, Closure(a, K, {Root})) /\ Root \in Closure(a, K, {Root})
    BY <1>1, ClosureIs
  <2> QED
    BY <1>1, <1>9, <2>1 DEF Closed
<1> QED
  BY <1>14, <1>15 DEF a, K

LEMMA NoDefinition ==
  ASSUME NEW c \in Seq(Sections), NEW n \in Names, Definitions(c, n) = {}
  PROVE  ToSet(c) \cap Called(n) = {}
<1>1. ToSet(c) \subseteq Sections
  BY DEF ToSet
<1>2. \A e \in Macro : IsMacro(e)
  BY DEF Macro, IsMacro
<1>3. c # Absent
  BY AbsentAssumption DEF Contents
<1>4. \A e \in ToSet(c) : e \notin Called(n)
  <2> SUFFICES ASSUME NEW e \in ToSet(c) PROVE e \notin Called(n)
    OBVIOUS
  <2>1. PICK i \in DOMAIN c : e = c[i]
    BY DEF ToSet
  <2>2. ~(IsMacro(c[i]) /\ c[i].name = n)
    BY <1>3 DEF Definitions
  <2> QED
    BY <1>2, <2>1, <2>2 DEF Called
<1> QED
  BY <1>4

\* The last definition in printer.cfg is the last one in macros.cfg then.
LEMMA MigratedKeeps ==
  ASSUME NEW b \in Tree, Eligible(b), NEW n \in Names,
         \A f \in Files \ {Root} : Definitions(b[f], n) = {}
  PROVE  Effective(Migrated(b), n) = Effective(b, n)
<1> DEFINE a == Migrated(b)
           S == Called(n)
           rest == Only(b[Root], Link \cup Other)
           x == [kind |-> "include", file |-> MacrosCfg]
           text == Text(b[MacrosCfg])
           macros == Only(b[Root], Macro)
           FinalOf(q) == IF q = << >> THEN Absent ELSE q[Len(q)].body
<1>1. /\ a[Root] = IF IncludesMacrosCfg(rest) THEN rest ELSE Append(rest, x)
      /\ a[MacrosCfg] = text \o macros
      /\ \A f \in Files \ {Root, MacrosCfg} : a[f] = b[f]
      /\ rest \in Seq(Sections) /\ text \in Seq(Sections)
      /\ macros \in Seq(Sections) /\ b[Root] \in Seq(Sections)
      /\ a \in Tree
  BY MigratedIs DEF Eligible
<1>2. /\ Root \in Files /\ MacrosCfg \in Files /\ Root # MacrosCfg
      /\ b[Root] # Absent /\ KlipperMacros(b).ok /\ {Root} \in SUBSET Files
      /\ LinkKinds \subseteq LinkKinds
  BY TwoFiles DEF Eligible
<1>3. a[Root] # Absent /\ KlipperMacros(a).ok /\ MacrosCfg \in Closure(a, LinkKinds, {Root})
  BY <1>2, MigratedExist, MigratedGood
<1>4. Root \in Closure(b, LinkKinds, {Root})
  BY <1>2, ClosureIs
<1>5. S \subseteq Macro
  BY DEF Called
<1>6. \A g \in Files \ {Root} : b[g] # Absent => ToSet(b[g]) \cap S = {}
  <2> SUFFICES ASSUME NEW g \in Files \ {Root}, b[g] # Absent PROVE ToSet(b[g]) \cap S = {}
    OBVIOUS
  <2>1. PICK c \in Seq(Sections) : c = b[g]
    BY TextIs
  <2>2. Definitions(c, n) = {}
    BY <2>1
  <2>3. ToSet(c) \cap Called(n) = {}
    BY <2>2, NoDefinition
  <2> QED
    BY <2>1, <2>3
<1>7. ToSet(text) \cap S = {}
  BY <1>2, <1>6 DEF Text, ToSet
<1>8. ToSet(a[Root]) \cap S = {}
  <2>1. x \in Sections /\ x \notin Macro
    BY <1>2 DEF Sections, Link, Macro
  <2>2. ToSet(rest) \cap Macro = {}
    <3>1. PICK r \in Seq(Sections) : r = b[Root]
      BY <1>1
    <3>2. ToSet(Only(r, Link \cup Other)) = ToSet(r) \cap (Link \cup Other)
      BY OnlySet
    <3>3. (Link \cup Other) \cap Macro = {}
      BY DEF Link, Other, Macro
    <3> QED
      BY <3>1, <3>2, <3>3
  <2> HIDE DEF x, rest, a, S
  <2>3. ToSet(Append(rest, x)) = ToSet(rest) \cup {x}
    BY <1>1, <2>1, AppendSet
  <2> QED
    BY <1>1, <1>5, <2>1, <2>2, <2>3
<1>9. \A g \in Files \ {MacrosCfg} : a[g] # Absent => ToSet(a[g]) \cap S = {}
  <2> HIDE DEF a, S
  <2> QED BY <1>1, <1>6, <1>8
<1>10. Effective(b, n) = FinalOf(Only(b[Root], S))
  BY <1>2, <1>4, <1>6, EffectiveIs
<1>11. Effective(a, n) = FinalOf(Only(a[MacrosCfg], S))
  <2> HIDE DEF a
  <2> QED BY <1>1, <1>3, <1>9, EffectiveIs
<1>12. Only(a[MacrosCfg], S) = Only(b[Root], S)
  <2>1. PICK r \in Seq(Sections) : r = b[Root]
    BY <1>1
  <2>2. Only(text, S) = << >>
    <3> HIDE DEF text, S
    <3> QED BY <1>1, <1>7, OnlyNone
  <2>3. Only(Only(r, Macro), S) = Only(r, S)
    <3> HIDE DEF S
    <3> QED BY <1>5, OnlyOnly
  <2>4. PICK v \in Seq(Sections \cap S) : v = Only(r, S)
    <3> HIDE DEF S
    <3> QED BY OnlyIsSeq
  <2>5. Only(text \o macros, S) = Only(text, S) \o Only(macros, S)
    <3> HIDE DEF text, macros, S
    <3>1. PICK y \in Seq(Sections), z \in Seq(Sections) : y = text /\ z = macros
      BY <1>1
    <3>2. Only(y \o z, S) = Only(y, S) \o Only(z, S)
      BY OnlyConcat
    <3> QED
      BY <3>1, <3>2
  <2>6. << >> \o v = v
    OBVIOUS
  <2> HIDE DEF a, text, S
  <2> QED
    BY <1>1, <2>1, <2>2, <2>3, <2>4, <2>5, <2>6
<1> QED
  BY <1>10, <1>11, <1>12

\* A migration that nothing disturbs keeps what Klipper makes of a macro that only
\* printer.cfg defines, when macros.cfg was loaded or did not exist
\* (migrate_printer_cfg_macros).
THEOREM MigrationKeeps == Spec => MigrationKeepsDefinitions
<1> DEFINE Keeps == \A s \in Sessions :
       LET before == op[s].was
           after  == mirror'[Printer(s)]
           loaded == ToSet(KlipperMacros(before).files)
       IN  (/\ AddInclude(s)
            /\ before[Root] # Absent
            /\ KlipperMacros(before).ok
            /\ before[MacrosCfg] = Absent \/ MacrosCfg \in loaded
            /\ \A i \in DOMAIN before[Root] : ~(before[Root][i].kind = "include"
                                                 /\ before[Root][i].file \in Namesakes)) =>
             \A n \in Names :
               (\A f \in Files \ {Root} : Definitions(before[f], n) = {}) =>
                 Effective(after, n) = Effective(before, n)
<1>1. Inv /\ Typed => Keeps
  <2> SUFFICES ASSUME Inv, Typed, NEW s \in Sessions, AddInclude(s), Eligible(op[s].was),
                      NEW n \in Names,
                      \A f \in Files \ {Root} : Definitions(op[s].was[f], n) = {}
               PROVE  Effective(mirror'[Printer(s)], n) = Effective(op[s].was, n)
    BY DEF Eligible
  <2> DEFINE p == Printer(s)
             m == mirror[p]
             b == op[s].was
             rest == Only(b[Root], Link \cup Other)
             x == [kind |-> "include", file |-> MacrosCfg]
  <2>1. b \in Tree /\ op[s].phase = "include" /\ p \in Profiles /\ m \in Tree
    BY MirrorTyped, OpParts DEF AddInclude, FiniteOp, Op, FiniteBackup, Backup, Typed, Printer
  <2>2. b # Nowhere /\ b[Root] # Absent
    BY TwoFiles DEF Eligible, Nowhere
  <2>3. m = Gathered(b)
    <3>1. SessionOK(op[s], m)
      BY <2>1 DEF Inv, Sound
    <3> QED
      BY <2>1, <2>2, <3>1 DEF SessionOK, MigrationOK
  <2>4. rest \in Seq(Sections) /\ rest # Absent
    <3>1. rest \in Seq(Sections)
      BY <2>1, <2>2, MigratedIs
    <3> QED
      BY <3>1, AbsentAssumption DEF Contents
  <2>5. m[Root] = rest
    BY <2>3, TwoFiles DEF Gathered, CutOut
  <2>6. Text(m[Root]) = rest
    BY <2>4, <2>5 DEF Text
  <2>7. mirror' = IF IncludesMacrosCfg(rest) THEN mirror
                  ELSE [mirror EXCEPT ![p] = [m EXCEPT ![Root] = Append(rest, x)]]
    <3> HIDE DEF rest
    <3> QED BY <2>5, <2>6 DEF AddInclude, Continue, Write
  <2>8. mirror'[p] = Migrated(b)
    <3>1. mirror'[p] = IF IncludesMacrosCfg(rest) THEN m ELSE [m EXCEPT ![Root] = Append(rest, x)]
      <4> HIDE DEF rest, x
      <4> QED BY <2>1, <2>7 DEF Typed
    <3>2. Migrated(b) = [m EXCEPT ![Root] = IF IncludesMacrosCfg(rest) THEN rest ELSE Append(rest, x)]
      BY <2>3 DEF Migrated
    <3>3. [m EXCEPT ![Root] = rest] = m
      <4> HIDE DEF m, rest
      <4> QED BY <2>1, <2>5 DEF Tree
    <3> HIDE DEF m, rest, x
    <3>4. CASE IncludesMacrosCfg(rest)
      <4>1. Migrated(b) = [m EXCEPT ![Root] = rest] /\ mirror'[p] = m
        BY <3>1, <3>2, <3>4
      <4> QED
        BY <3>3, <4>1
    <3>5. CASE ~IncludesMacrosCfg(rest)
      BY <3>1, <3>2, <3>5
    <3> QED
      BY <3>4, <3>5
  <2> QED
    BY <2>1, <2>8, MigratedKeeps
<1>2. Inv /\ Typed /\ [Next]_vars => [Keeps]_vars
  BY <1>1
<1>3. Spec => [][Keeps]_vars
  BY <1>2, InvHolds, TypedHolds, PTL DEF Spec
<1> QED
  BY <1>3 DEF MigrationKeepsDefinitions


-----------------------------------------------------------------------------
(***************************************************************************)
(* The active macro and the one Klipper ends up with.                      *)
(***************************************************************************)
\* The last of the definitions of a file is the last of its definitions.
LEMMA LastDefinition ==
  ASSUME NEW c \in Seq(Sections), NEW n \in Names, Definitions(c, n) # {}
  PROVE  LET q == Only(c, Called(n))
         IN  q # << >> /\ q[Len(q)] = c[Max(Definitions(c, n))]
<1> DEFINE S == Called(n)
           D == Definitions(c, n)
<1>1. /\ c # Absent /\ c \in Seq(Sections) /\ Len(c) \in Nat /\ DOMAIN c = 1 .. Len(c)
      /\ \A i \in 1 .. Len(c) : c[i] \in Sections
  BY DEF Definitions
<1>2. \A i \in 1 .. Len(c) : i \in D <=> c[i] \in S
  <2> SUFFICES ASSUME NEW i \in 1 .. Len(c) PROVE i \in D <=> c[i] \in S
    OBVIOUS
  <2>1. c[i] \in Sections
    BY <1>1
  <2>2. c[i] \in Macro <=> c[i].kind = "macro"
    BY <2>1 DEF Sections, Macro, Link, Other
  <2> QED
    BY <1>1, <2>2 DEF Definitions, IsMacro, Called
<1>3. D \subseteq 1 .. Len(c)
  BY <1>1 DEF Definitions
<1> HIDE DEF D, S
<1>4. Max(D) \in D /\ \A z \in D : Max(D) >= z
  <2>1. D \subseteq 0 .. Len(c) /\ D # {}
    BY <1>1, <1>3 DEF D
  <2> QED
    BY <1>1, <2>1, Greatest
<1>5. PICK m \in 1 .. Len(c) : m = Max(D)
  BY <1>3, <1>4
<1> DEFINE y == [i \in 1 .. m - 1 |-> c[i]]
           z == [i \in 1 .. Len(c) - m |-> c[m + i]]
<1>6. y \in Seq(Sections) /\ z \in Seq(Sections) /\ c[m] \in Sections
  BY <1>1
<1>7. c = Append(y, c[m]) \o z
  <2>1. Append(y, c[m]) = [i \in 1 .. m |-> c[i]]
    BY <1>1, <1>6
  <2> HIDE DEF y
  <2> QED
    BY <1>1, <2>1
<1>8. Only(z, S) = << >>
  <2>1. ToSet(z) \cap S = {}
    <3> SUFFICES ASSUME NEW i \in 1 .. Len(c) - m PROVE c[m + i] \notin S
      BY <1>1 DEF ToSet
    <3>1. m + i \in 1 .. Len(c) /\ ~(m >= m + i)
      BY <1>1
    <3> QED
      BY <1>2, <1>4, <1>5, <3>1
  <2> HIDE DEF z
  <2> QED
    BY <1>6, <2>1, OnlyNone
<1> DEFINE u == Only(y, S)
<1>9. u \in Seq(Sections \cap S)
  <2> HIDE DEF y
  <2> QED BY <1>6, OnlyIsSeq
<1>10. c[m] \in S
  BY <1>2, <1>4, <1>5
<1>11. Only(Append(y, c[m]), S) = Append(u, c[m])
  <2> HIDE DEF y
  <2> QED BY <1>6, <1>10, OnlyAppend
<1>12. Only(c, S) = Append(u, c[m]) \o << >>
  <2> DEFINE v == Append(y, c[m])
  <2> HIDE DEF y, z
  <2>1. v \in Seq(Sections)
    BY <1>6
  <2> HIDE DEF v, u
  <2>2. Only(v \o z, S) = Only(v, S) \o Only(z, S)
    BY <1>6, <2>1, OnlyConcat
  <2>3. c = v \o z
    BY <1>7 DEF v
  <2>4. Only(v, S) = Append(u, c[m])
    BY <1>11 DEF v
  <2> QED
    BY <1>8, <2>2, <2>3, <2>4
<1> HIDE DEF u, y, z
<1>13. /\ Only(c, S) = Append(u, c[m])
       /\ Only(c, S) # << >> /\ Only(c, S)[Len(Only(c, S))] = c[m]
  BY <1>6, <1>9, <1>10, <1>12
<1> QED
  BY <1>5, <1>13 DEF S, D

\* A macro that a single file defines, one that Klipper loads, is active there,
\* and its row has the text that Klipper ends up with, while the index is true of
\* the files (run_indexing and the loading overview together).
THEOREM ActiveHolds == Spec => []ActiveIsEffective
<1>1. Typed => ActiveIsEffective
  <2> SUFFICES ASSUME Typed, NEW p \in Profiles, IndexTrue(p), KlipperMacros(mirror[p]).ok,
                      NEW f \in ToSet(KlipperMacros(mirror[p]).files), NEW n \in Names,
                      Definitions(mirror[p][f], n) # {},
                      \A g \in Files \ {f} : Definitions(mirror[p][g], n) = {}
               PROVE  /\ Active(p, <<f, n>>)
                      /\ index[p][<<f, n>>].body = Effective(mirror[p], n)
    BY DEF ActiveIsEffective
  <2>1. PICK t \in Tree : t = mirror[p]
    BY DEF Typed
  <2>2. t[Root] # Absent
    BY <2>1 DEF KlipperMacros, Found, ToSet
  <2>3. KlipperMacros(t) = Visit(t, LinkKinds) /\ Describes(Visit(t, LinkKinds), t, LinkKinds, {}, Root)
    BY <2>2, VisitDescribed DEF KlipperMacros, LinkKinds
  <2>4. Closure(t, LinkKinds, {Root}) \in SUBSET Files
    BY ClosureIs, OrderAssumption
  <2>5. f \in Closure(t, LinkKinds, {Root}) /\ f \in Files
    BY <2>1, <2>3, <2>4 DEF Describes
  <2>6. t[f] # Absent
    BY <2>1 DEF Definitions
  <2>7. PICK c \in Seq(Sections) : c = t[f]
    BY <2>5, <2>6, TextIs
  <2>8. \A g \in Files \ {f} : t[g] # Absent => ToSet(t[g]) \cap Called(n) = {}
    <3> SUFFICES ASSUME NEW g \in Files \ {f}, t[g] # Absent PROVE ToSet(t[g]) \cap Called(n) = {}
      OBVIOUS
    <3>1. PICK d \in Seq(Sections) : d = t[g]
      BY TextIs
    <3>2. ToSet(d) \cap Called(n) = {}
      BY <2>1, <3>1, NoDefinition
    <3> QED
      BY <3>1, <3>2
  <2>9. Effective(t, n) = IF Only(c, Called(n)) = << >> THEN Absent
                          ELSE Only(c, Called(n))[Len(Only(c, Called(n)))].body
    BY <2>1, <2>2, <2>5, <2>7, <2>8, EffectiveIs
  <2>10. Effective(t, n) = c[Max(Definitions(c, n))].body
    BY <2>1, <2>7, <2>9, LastDefinition
  <2>11. index[p][<<f, n>>].body = c[Max(Definitions(c, n))].body
    BY <2>1, <2>5, <2>7 DEF IndexTrue
  <2>12. /\ Live(p, <<f, n>>)
         /\ \A g \in Files \ {f} : ~Live(p, <<g, n>>)
    BY <2>5 DEF IndexTrue
  <2>13. Active(p, <<f, n>>)
    <3>1. \A i, j \in DOMAIN FileSeq : i < j => FileSeq[j] \in Files /\ FileSeq[j] # FileSeq[i]
      BY OrderAssumption DEF IsInjective
    <3> QED
      BY <2>12, <3>1 DEF Active
  <2> QED
    BY <2>1, <2>10, <2>11, <2>13
<1> QED
  BY <1>1, TypedHolds, PTL

=============================================================================
