----------------------------- MODULE RemoteSync -----------------------------
(***************************************************************************)
(* The cfg files between the printers and their local mirrors.             *)
(*                                                                         *)
(* Every printer has a mirror directory and, in it, a state file with the  *)
(* checksum each remote file had when KlipperVault last read or wrote it.  *)
(* A browser tab (a session) has a service of its own that keeps the       *)
(* printer it was switched to and a copy of those checksums in memory; the *)
(* connection it opens is the one of the printer that is active in the     *)
(* database, which all the sessions share.                                 *)
(*                                                                         *)
(* A scan downloads the active printer's files into the mirror; a save     *)
(* uploads the mirror and removes what the mirror has lost, and refuses a  *)
(* file that is not as the session last saw it.  Both run in threads,      *)
(* under one modal dialog per session that keeps the user from starting    *)
(* anything else until the first of them ends.  A text stands for its      *)
(* SHA-256 checksum; the printers are not virtual.                         *)
(***************************************************************************)
EXTENDS Naturals, FiniteSets

CONSTANTS
  Profiles,   \* printers
  Sessions,   \* browser tabs
  Files,      \* cfg files
  Rank,       \* Rank[f]: the place of f in the order they are listed
  Protected,  \* printer.cfg
  Texts,      \* file contents, told apart by their checksum
  Absent,     \* the content of a file that does not exist
  Statuses,   \* the states the printers go through
  EditBound   \* bound: edits people make, on the printers or in the mirrors

ASSUME FilesAssumption == /\ Rank \in [Files -> Nat]
                          /\ \A f, g \in Files : Rank[f] = Rank[g] => f = g
                          /\ Protected \subseteq Files
ASSUME TextsAssumption == Absent \notin Texts
ASSUME StatusesAssumption == /\ "idle" \in Statuses
                             /\ Statuses \subseteq {"idle", "printing", "unknown"}
ASSUME EditBoundAssumption == EditBound \in Nat

VARIABLES
  remote,     \* remote[p]: the cfg files on printer p
  status,     \* status[p]: what Moonraker reports of printer p
  mirror,     \* mirror[p]: the cfg files in the mirror of p
  snapshot,   \* snapshot[p]: the checksums in the mirror's state file
  active,     \* the active printer in the database
  ses,        \* ses[s]: the service and page state of session s
  syncing,    \* syncing[s]: the download session s is in the middle of
  saving,     \* saving[s]: the upload session s is in the middle of
  edits,      \* counts the edits people have made, up to EditBound
  exchanged,  \* history: exchanged[p][f], the texts of f read from or written to p
  touched     \* history: <<s, f>> when f was changed while s saved, not by that save

vars == <<remote, status, mirror, snapshot, active, ses, syncing, saving, edits,
          exchanged, touched>>

printers == <<remote, status, exchanged>>

-----------------------------------------------------------------------------
Tree == [Files -> Texts \cup {Absent}]

\* No files, or no checksums.
Nothing == [f \in Files |-> Absent]

\* list_cfg_files: the files of tree m, which are gone through in order.
Listing(m) == {f \in Files : m[f] # Absent}

Foremost(F) == {f \in F : \A g \in F : Rank[f] <= Rank[g]}

Session == [mine : Profiles, expected : Tree, pending : BOOLEAN, modal : BOOLEAN,
            polled : Statuses]

NewSession(p) == [mine |-> p, expected |-> Nothing, pending |-> FALSE, modal |-> FALSE,
                  polled |-> "idle"]

Sync == [phase : {"idle", "download", "commit"}, source : Profiles, target : Profiles,
         todo : SUBSET Files, got : Tree]

IdleSync(p) == [phase |-> "idle", source |-> p, target |-> p, todo |-> {},
                got |-> Nothing]

Save == [phase : {"idle", "refused", "push", "write", "prune", "remove", "restart"},
         source : Profiles, dest : Profiles, todo : SUBSET Files, local : SUBSET Files,
         payload : Texts \cup {Absent}, forced : BOOLEAN, uploaded : BOOLEAN,
         kept : SUBSET Files]  \* history: the removals that the printer refused

IdleSave(p) == [phase |-> "idle", source |-> p, dest |-> p, todo |-> {}, local |-> {},
                payload |-> Absent, forced |-> FALSE, uploaded |-> FALSE, kept |-> {}]

Saving(s) == saving[s].phase \notin {"idle", "refused"}

Idle(s) == ~ses[s].modal /\ syncing[s].phase = "idle"

\* Files F change, and none of the saves of sessions S did it.
Touch(F, S) == touched' = touched \cup ({s \in S : Saving(s)} \X F)

\* History: text t of file f is read from or written to printer p.
Exchange(p, f, t) == exchanged' = [exchanged EXCEPT ![p][f] = @ \cup {t}]

\* _resolve_runtime_config_dir: with no checksums in memory the state file is read.
Loaded(s) == IF ses[s].expected = Nothing THEN snapshot[ses[s].mine] ELSE ses[s].expected

Persist(s, checksums) == snapshot' = [snapshot EXCEPT ![ses[s].mine] = checksums]

\* cleanup_runtime_cache, then the new printer.
Cleaned(s, p) == [ses[s] EXCEPT !.mine = p, !.expected = Nothing, !.modal = TRUE]

-----------------------------------------------------------------------------
(***************************************************************************)
(* People and printers.                                                    *)
(***************************************************************************)
Edit == edits < EditBound /\ edits' = edits + 1

\* Somebody changes, creates or removes a file on the printer.
EditRemote(p, f) == /\ Edit
                    /\ \E t \in (Texts \cup {Absent}) \ {remote[p][f]} :
                         remote' = [remote EXCEPT ![p][f] = t]
                    /\ Touch({f}, Sessions)
                    /\ UNCHANGED <<status, mirror, snapshot, active, ses, syncing, saving,
                                   exchanged>>

ChangeStatus(p) == /\ \E x \in Statuses \ {status[p]} : status' = [status EXCEPT ![p] = x]
                   /\ UNCHANGED <<remote, mirror, snapshot, active, ses, syncing, saving,
                                  edits, exchanged, touched>>

\* An edit, a deletion, a restored version or an activated import rewrites one
\* file of the mirror, an import even a protected one; an import that goes to
\* macros.cfg may add its include to printer.cfg too.
EditMirror(s, f) ==
  /\ ~ses[s].modal
  /\ Edit
  /\ \E t \in Texts \ {mirror[ses[s].mine][f]}, u \in Texts, F \in SUBSET Protected :
       /\ mirror' = [mirror EXCEPT ![ses[s].mine] =
                       [g \in Files |-> IF g = f THEN t ELSE IF g \in F THEN u ELSE @[g]]]
       /\ Touch({f} \cup F, Sessions)
  /\ ses' = [ses EXCEPT ![s].pending = TRUE, ![s].expected = Loaded(s)]
  /\ UNCHANGED <<printers, snapshot, active, syncing, saving>>

-----------------------------------------------------------------------------
(***************************************************************************)
(* The download.                                                           *)
(***************************************************************************)
BeginSync(s, p, target) ==
  syncing' = [syncing EXCEPT ![s] = [IdleSync(p) EXCEPT !.phase = "download",
                !.target = target, !.todo = Listing(remote[p])]]

\* The Scan button.
StartSync(s) == /\ Idle(s)
                /\ BeginSync(s, active, ses[s].mine)
                /\ ses' = [ses EXCEPT ![s].modal = TRUE, ![s].expected = Loaded(s)]
                /\ UNCHANGED <<printers, mirror, snapshot, active, saving, edits, touched>>

\* The status poll, of the active printer; one that is back is scanned, even while
\* a save runs.
Poll(s) == LET now == status[active]
               rescan == /\ ses[s].polled = "unknown"
                         /\ now \notin {"unknown", "printing"}
                         /\ syncing[s].phase = "idle"
           IN  /\ now # ses[s].polled
               /\ IF rescan
                  THEN /\ BeginSync(s, active, ses[s].mine)
                       /\ ses' = [ses EXCEPT ![s].polled = now, ![s].modal = TRUE,
                                             ![s].expected = Loaded(s)]
                  ELSE /\ ses' = [ses EXCEPT ![s].polled = now]
                       /\ UNCHANGED syncing
               /\ UNCHANGED <<printers, mirror, snapshot, active, saving, edits, touched>>

\* Opening a printer's workspace activates it for everybody and scans it, unless
\* a scan of this session is still running.
Switch(s, p) == /\ ~ses[s].modal
                /\ active' = p
                /\ IF syncing[s].phase = "idle"
                   THEN /\ BeginSync(s, p, p)
                        /\ ses' = [ses EXCEPT ![s] = Cleaned(s, p)]
                   ELSE /\ ses' = [ses EXCEPT ![s] = [Cleaned(s, p) EXCEPT !.modal = FALSE]]
                        /\ UNCHANGED syncing
                /\ UNCHANGED <<printers, mirror, snapshot, saving, edits, touched>>

\* Mutant of Readable: a file that is gone reads as if it were there.
AlwaysReadable(p, f) == TRUE

Readable(p, f) == remote[p][f] # Absent

DownloadNext(s) ==
  LET job == syncing[s]
  IN  /\ job.phase = "download"
      /\ \E f \in Foremost(job.todo) :
           LET t == remote[job.source][f]
           IN  /\ Readable(job.source, f)
               /\ mirror' = [mirror EXCEPT ![job.target][f] = t]
               /\ syncing' = [syncing EXCEPT ![s].todo = @ \ {f}, ![s].got[f] = t]
               /\ Exchange(job.source, f, t)
               /\ Touch({f}, Sessions)
      /\ UNCHANGED <<remote, status, snapshot, active, ses, saving, edits>>

\* The files that were not downloaded leave the mirror.
PruneMirror(s) ==
  LET job  == syncing[s]
      gone == {f \in Files : job.got[f] = Absent /\ mirror[job.target][f] # Absent}
  IN  /\ job.phase = "download" /\ job.todo = {}
      /\ mirror' = [mirror EXCEPT ![job.target] =
                      [f \in Files |-> IF f \in gone THEN Absent ELSE @[f]]]
      /\ syncing' = [syncing EXCEPT ![s].phase = "commit"]
      /\ Touch(gone, Sessions)
      /\ UNCHANGED <<printers, snapshot, active, ses, saving, edits>>

CommitSync(s) == /\ syncing[s].phase = "commit"
                 /\ ses' = [ses EXCEPT ![s].expected = syncing[s].got, ![s].modal = FALSE]
                 /\ Persist(s, syncing[s].got)
                 /\ syncing' = [syncing EXCEPT ![s] = IdleSync(@.source)]
                 /\ UNCHANGED <<printers, mirror, active, saving, edits, touched>>

\* A lost connection, or a listed file that is gone.
FailSync(s) == /\ syncing[s].phase = "download"
               /\ ses' = [ses EXCEPT ![s].modal = FALSE]
               /\ syncing' = [syncing EXCEPT ![s] = IdleSync(@.source)]
               /\ UNCHANGED <<printers, mirror, snapshot, active, saving, edits, touched>>

-----------------------------------------------------------------------------
(***************************************************************************)
(* The upload.                                                             *)
(***************************************************************************)
\* Without checksums there is nothing to compare the printer with.
BeginSave(s, tree, forced) ==
  /\ Loaded(s) # Nothing
  /\ saving' = [saving EXCEPT ![s] = [IdleSave(active) EXCEPT !.phase = "push",
                  !.todo = Listing(tree), !.local = Listing(tree), !.forced = forced]]
  /\ ses' = [ses EXCEPT ![s].modal = TRUE, ![s].pending = TRUE, ![s].expected = Loaded(s)]

\* The button Save Config.  A second save of the same session is left out.
StartSave(s) == /\ ~ses[s].modal
                /\ ~Saving(s)
                /\ ses[s].pending
                /\ ses[s].polled # "printing"
                /\ BeginSave(s, mirror[ses[s].mine], FALSE)
                /\ touched' = touched \ ({s} \X Files)
                /\ UNCHANGED <<printers, mirror, snapshot, active, syncing, edits>>

\* A backup is restored, or printer.cfg migrated: the mirror is rewritten (though
\* printer.cfg is neither created nor removed) and, if anything was ever
\* downloaded, uploaded at once, the protected files with it.
RestoreTree(s) ==
  /\ ~ses[s].modal
  /\ ~Saving(s)
  /\ ses[s].polled # "printing"
  /\ Edit
  /\ \E tree \in Tree :
       /\ \A f \in Protected : tree[f] = Absent <=> mirror[ses[s].mine][f] = Absent
       /\ mirror' = [mirror EXCEPT ![ses[s].mine] = tree]
       /\ \/ BeginSave(s, tree, TRUE)
          \/ /\ Loaded(s) = Nothing
             /\ ses' = [ses EXCEPT ![s].pending = TRUE]
             /\ UNCHANGED saving
  /\ touched' = (touched \ ({s} \X Files))
                  \cup ({x \in Sessions \ {s} : Saving(x)} \X Files)
  /\ UNCHANGED <<printers, snapshot, active, syncing>>

Skipped(s, f) == f \in Protected /\ ~saving[s].forced

SkipProtected(s) == /\ saving[s].phase = "push"
                    /\ \E f \in Foremost(saving[s].todo) :
                         /\ Skipped(s, f)
                         /\ saving' = [saving EXCEPT ![s].todo = @ \ {f}]
                    /\ UNCHANGED <<printers, mirror, snapshot, active, ses, syncing, edits,
                                   touched>>

\* Mutant of Unchanged: a file with a checksum is taken to be unchanged.
UnchangedIfKnown(known, p, f) == known[f] # Absent

\* File f on printer p is there and as the checksums have it.
Unchanged(known, p, f) == known[f] # Absent /\ remote[p][f] = known[f]

\* The conflict message; a file without a checksum is refused before it is read.
Conflict(known, p, f) == \/ known[f] = Absent
                         \/ remote[p][f] # Absent /\ remote[p][f] # known[f]

\* Mutant of Refused: the checksums of the printer replace the session's.
RefusedAdopting(s, known, p) ==
  /\ saving' = [saving EXCEPT ![s].phase = "refused", ![s].dest = p]
  /\ ses' = [ses EXCEPT ![s].expected = remote[p], ![s].modal = FALSE]

Refused(s, known, p) == /\ saving' = [saving EXCEPT ![s].phase = "refused", ![s].dest = p]
                        /\ ses' = [ses EXCEPT ![s].expected = known, ![s].modal = FALSE]

CheckPush(s) ==
  /\ saving[s].phase = "push"
  /\ \E f \in Foremost(saving[s].todo) :
       /\ ~Skipped(s, f)
       /\ mirror[ses[s].mine][f] # Absent
       /\ \/ /\ Unchanged(Loaded(s), active, f)
             /\ saving' = [saving EXCEPT ![s].phase = "write", ![s].dest = active,
                                         ![s].payload = mirror[ses[s].mine][f]]
             /\ ses' = [ses EXCEPT ![s].expected = Loaded(s)]
          \/ Conflict(Loaded(s), active, f) /\ Refused(s, Loaded(s), active)
  /\ UNCHANGED <<printers, mirror, snapshot, active, syncing, edits, touched>>

Upload(s, f) == /\ remote' = [remote EXCEPT ![saving[s].dest][f] = saving[s].payload]
                /\ Exchange(saving[s].dest, f, saving[s].payload)
                /\ Touch({f}, Sessions \ {s})

WriteNext(s) ==
  /\ saving[s].phase = "write"
  /\ \E f \in Foremost(saving[s].todo) :
       LET known == [ses[s].expected EXCEPT ![f] = saving[s].payload]
       IN  /\ Upload(s, f)
           /\ ses' = [ses EXCEPT ![s].expected = known]
           /\ Persist(s, known)
           /\ saving' = [saving EXCEPT ![s].phase = "push", ![s].todo = @ \ {f},
                                       ![s].uploaded = TRUE]
  /\ UNCHANGED <<status, mirror, active, syncing, edits>>

\* Mutants of Surplus: nothing goes (prune_remote_missing is off); the protected
\* files go too; a file without a checksum stays.
NoSurplus(s) == {}
SurplusWithProtected(s) == Listing(remote[saving[s].source]) \ saving[s].local
SurplusOfKnown(s) == (Listing(remote[saving[s].source]) \ (saving[s].local \cup Protected))
                       \cap Listing(ses[s].expected)

\* The files the printer has and the mirror had not when it was listed.
Surplus(s) == Listing(remote[saving[s].source]) \ (saving[s].local \cup Protected)

StartPrune(s) == /\ saving[s].phase = "push" /\ saving[s].todo = {}
                 /\ saving' = [saving EXCEPT ![s].phase = "prune", ![s].todo = Surplus(s)]
                 /\ UNCHANGED <<printers, mirror, snapshot, active, ses, syncing, edits,
                                touched>>

CheckRemoval(s) ==
  LET p == saving[s].source
  IN  /\ saving[s].phase = "prune"
      /\ \E f \in Foremost(saving[s].todo) :
           \/ /\ Unchanged(ses[s].expected, p, f)
              /\ saving' = [saving EXCEPT ![s].phase = "remove", ![s].dest = p]
              /\ UNCHANGED ses
           \/ Conflict(ses[s].expected, p, f) /\ Refused(s, ses[s].expected, p)
      /\ UNCHANGED <<printers, mirror, snapshot, active, syncing, edits, touched>>

RemoveNext(s) ==
  LET p == saving[s].source
  IN  /\ saving[s].phase = "remove"
      /\ \E f \in Foremost(saving[s].todo) :
           LET known == [ses[s].expected EXCEPT ![f] = Absent]
           IN  /\ remote[p][f] # Absent
               /\ remote' = [remote EXCEPT ![p][f] = Absent]
               /\ ses' = [ses EXCEPT ![s].expected = known]
               /\ Persist(s, known)
               /\ saving' = [saving EXCEPT ![s].phase = "prune", ![s].todo = @ \ {f}]
               /\ Touch({f}, Sessions \ {s})
      /\ UNCHANGED <<status, mirror, active, syncing, edits, exchanged>>

\* The printer does not remove the file, for whatever reason or since it is gone
\* already: its checksum stays, and the save goes on.
RefuseRemoval(s) ==
  /\ saving[s].phase = "remove"
  /\ \E f \in Foremost(saving[s].todo) :
       saving' = [saving EXCEPT ![s].phase = "prune", ![s].todo = @ \ {f},
                                ![s].kept = @ \cup {f}]
  /\ UNCHANGED <<printers, mirror, snapshot, active, ses, syncing, edits, touched>>

Saved(s) == /\ ses' = [ses EXCEPT ![s].pending = FALSE, ![s].modal = FALSE]
            /\ Persist(s, ses[s].expected)
            /\ saving' = [saving EXCEPT ![s] = IdleSave(@.source)]

\* The restart policy: after an upload the active printer is restarted if idle.
FinishSave(s) == /\ saving[s].phase = "prune" /\ saving[s].todo = {}
                 /\ IF saving[s].uploaded /\ status[active] = "idle"
                    THEN /\ saving' = [saving EXCEPT ![s].phase = "restart"]
                         /\ UNCHANGED <<ses, snapshot>>
                    ELSE Saved(s)
                 /\ UNCHANGED <<printers, mirror, active, syncing, edits, touched>>

RestartKlipper(s) == /\ saving[s].phase = "restart"
                     /\ Saved(s)
                     /\ UNCHANGED <<printers, mirror, active, syncing, edits, touched>>

\* Mutant of Failed: nothing closes the dialog.
FailedBehindDialog(s) == saving' = [saving EXCEPT ![s] = IdleSave(@.source)] /\ UNCHANGED ses

Failed(s) == /\ saving' = [saving EXCEPT ![s] = IdleSave(@.source)]
             /\ ses' = [ses EXCEPT ![s].modal = FALSE]

\* A lost connection, a file that is gone when it is read, or a restart that fails.
FailSave(s) == /\ Saving(s)
               /\ Failed(s)
               /\ UNCHANGED <<printers, mirror, snapshot, active, syncing, edits, touched>>

\* The printer refused to rename the temporary file, and the connection is lost
\* while the file itself is overwritten: any text may be left of it.
TornUpload(s, f) == /\ \E t \in Texts : remote' = [remote EXCEPT ![saving[s].dest][f] = t]
                    /\ Touch({f}, Sessions \ {s})
                    /\ UNCHANGED exchanged

\* The connection is lost after the upload took place, or in the middle of it.
FailWrite(s) == /\ saving[s].phase = "write"
                /\ \E f \in Foremost(saving[s].todo) : Upload(s, f) \/ TornUpload(s, f)
                /\ Failed(s)
                /\ UNCHANGED <<status, mirror, snapshot, active, syncing, edits>>

-----------------------------------------------------------------------------
\* The process ends and starts again: memory is lost, files and database stay.
Restart == /\ ses' = [s \in Sessions |-> NewSession(active)]
           /\ syncing' = [s \in Sessions |-> IdleSync(active)]
           /\ saving' = [s \in Sessions |-> IdleSave(active)]
           /\ touched' = {}
           /\ UNCHANGED <<printers, mirror, snapshot, active, edits>>

Init == /\ remote \in [Profiles -> Tree]
        /\ status = [p \in Profiles |-> "idle"]
        /\ mirror = [p \in Profiles |-> Nothing]
        /\ snapshot = [p \in Profiles |-> Nothing]
        /\ active \in Profiles
        /\ ses = [s \in Sessions |-> NewSession(active)]
        /\ syncing = [s \in Sessions |-> IdleSync(active)]
        /\ saving = [s \in Sessions |-> IdleSave(active)]
        /\ edits = 0
        /\ exchanged = [p \in Profiles |-> [f \in Files |-> {}]]
        /\ touched = {}

SyncStep(s) == DownloadNext(s) \/ PruneMirror(s) \/ CommitSync(s)

SaveStep(s) == \/ SkipProtected(s) \/ CheckPush(s) \/ WriteNext(s) \/ StartPrune(s)
               \/ CheckRemoval(s) \/ RemoveNext(s) \/ RefuseRemoval(s)
               \/ FinishSave(s) \/ RestartKlipper(s)

Failing(s) == FailSync(s) \/ FailSave(s) \/ FailWrite(s)

User(s) == \/ StartSync(s) \/ StartSave(s) \/ RestoreTree(s)
           \/ \E p \in Profiles : Switch(s, p)
           \/ \E f \in Files : EditMirror(s, f)

Outside == \/ \E p \in Profiles : ChangeStatus(p) \/ \E f \in Files : EditRemote(p, f)
           \/ Restart

Next == \/ \E s \in Sessions : SyncStep(s) \/ SaveStep(s) \/ Failing(s) \/ User(s) \/ Poll(s)
        \/ Outside

Spec == Init /\ [][Next]_vars

\* The threads run to their end; nothing makes a user, a printer or the poll act.
Fairness == \A s \in Sessions : /\ WF_vars(SyncStep(s) \/ FailSync(s))
                                /\ WF_vars(SaveStep(s) \/ FailSave(s) \/ FailWrite(s))

FairSpec == Spec /\ Fairness

-----------------------------------------------------------------------------
(***************************************************************************)
(* Properties.                                                             *)
(***************************************************************************)
TypeOK == /\ remote \in [Profiles -> Tree]
          /\ status \in [Profiles -> Statuses]
          /\ mirror \in [Profiles -> Tree]
          /\ snapshot \in [Profiles -> Tree]
          /\ active \in Profiles
          /\ ses \in [Sessions -> Session]
          /\ edits \in 0 .. EditBound
          /\ exchanged \in [Profiles -> [Files -> SUBSET Texts]]
          /\ touched \subseteq Sessions \X Files
          /\ syncing \in [Sessions -> Sync]
          /\ saving \in [Sessions -> Save]

\* Every checksum a mirror's state file or a session keeps for a printer is of a
\* text that KlipperVault read from that printer or wrote to it, across switches
\* between printers, lost connections and restarts of the process.
SnapshotsAreHistory ==
  \A f \in Files :
    /\ \A p \in Profiles : snapshot[p][f] \in exchanged[p][f] \cup {Absent}
    /\ \A s \in Sessions : ses[s].expected[f] \in exchanged[ses[s].mine][f] \cup {Absent}

\* When a save decides to replace or to remove a file, the text it finds there is
\* one KlipperVault has seen on that printer: what others changed is never taken
\* for known, whatever the sessions did since the download.
ReplacesOnlySeenText ==
  [][\A s \in Sessions :
       saving'[s].phase \in {"write", "remove"} /\ saving[s].phase # saving'[s].phase
         => LET p == saving'[s].dest
            IN  \A f \in Foremost(saving[s].todo) : remote[p][f] \in exchanged[p][f]]_vars

\* The user's own saves leave the protected files of the printers alone; only a
\* restored backup or a migration writes them, and nothing removes them.
ProtectedOnlyByRestore ==
  [][\A p \in Profiles, f \in Protected :
       remote'[p][f] # remote[p][f]
         => \/ EditRemote(p, f)
            \/ /\ remote'[p][f] # Absent
               /\ \E s \in Sessions : saving[s].forced /\ saving[s].phase = "write"]_vars

\* When a save reports success, every file that was not changed behind its back is
\* on the printer as it is in the mirror: the page may forget the pending changes.
\* The exception is a file that the mirror has lost and the printer did not remove
\* when it was told to: remove_file answers False and the save passes over it.
SavedMeansSent ==
  [][\A s \in Sessions :
       (FinishSave(s) \/ RestartKlipper(s)) /\ saving'[s].phase = "idle"
         => \A f \in Files \ Protected :
              \/ <<s, f>> \in touched
              \/ remote[saving[s].source][f] = mirror[ses[s].mine][f]
              \/ f \in saving[s].kept /\ mirror[ses[s].mine][f] = Absent]_vars

\* A session's dialog closes: a scan or save ends whatever the printer does, with
\* scans that the poll starts during a save and connections that are lost.
DialogCloses == \A s \in Sessions : ses[s].modal ~> ~ses[s].modal

=============================================================================
