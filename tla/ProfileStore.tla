---------------------------- MODULE ProfileStore ----------------------------
(***************************************************************************)
(* Printers, their SSH connections and their secrets: three stores that    *)
(* one save of the printer editor changes in a row of separate commits.    *)
(*                                                                         *)
(* A connection is kept twice, in an older table of SSH profiles and in    *)
(* the row of the printer, which names its SSH profile.  A secret is kept  *)
(* under a reference, in the keyring of the operating system or in the     *)
(* database, and an index records where.  Saves and deletions run on the   *)
(* event loop, one at a time; the connections that are made in threads     *)
(* read in between.                                                        *)
(*                                                                         *)
(* A host stands for all the fields of a connection.  Which SSH profile is *)
(* the active one, which is only read when a printer has no connection of  *)
(* its own, and vendor and model of a printer are left out.                *)
(***************************************************************************)
EXTENDS Naturals, FiniteSets, FiniteSetsExt

CONSTANTS Names,         \* names of printers
          DefaultName,   \* "Default Printer"
          Hosts,         \* connections
          Modes,         \* ways to authenticate
          Refs,          \* references to secrets
          RefOf,         \* RefOf[<<name, mode>>]: the reference made of the two
          Secrets,       \* secrets
          None,          \* no host, no reference, no secret
          NoRow,         \* there is no row of an id
          PrinterBound,  \* bound: ids of printers
          SshBound,      \* bound: ids of SSH profiles
          SaveBound      \* bound: saves

ASSUME NamesAssumption  == DefaultName \in Names
ASSUME ModesAssumption  == Modes # {}
ASSUME NoneAssumption   == None \notin Hosts \cup Refs \cup Secrets
ASSUME RefsAssumption   == RefOf \in [Names \X Modes -> Refs]
ASSUME BoundsAssumption == PrinterBound \in Nat \ {0} /\ SshBound \in Nat /\ SaveBound \in Nat

VARIABLES
  printers,     \* printers[p]: the row of printer p, or NoRow
  nextPrinter,  \* ids are never used again
  active,       \* the active printer, or 0
  ssh,          \* ssh[r]: an SSH profile, or NoRow
  nextSsh,
  keyring,      \* keyring[f]: the secret of reference f in the keyring, or None
  fallback,     \* fallback[f]: the one in the database
  recorded,     \* recorded[f]: where the index says the secret is
  available,    \* whether this process has found a keyring
  op,           \* what the event loop is in the middle of
  fresh,        \* history: the last secret set under f, and those tried since
  saves         \* counts the saves, up to SaveBound

rows == <<printers, nextPrinter, active, ssh, nextSsh>>
vault == <<keyring, fallback, recorded>>
vars == <<rows, vault, available, op, fresh, saves>>

-----------------------------------------------------------------------------
PrinterIds == 1 .. PrinterBound
SshIds == 1 .. SshBound

Printer == [name : Names, host : Hosts \cup {None}, ref : Refs \cup {None},
            ssh : 0 .. SshBound, archived : BOOLEAN, virtual : BOOLEAN]

Ssh == [name : Names, host : Hosts, mode : Modes, ref : Refs]

Phases == {"idle", "keyring", "record", "clear", "recordfallback", "fallback",
           "ssh", "link", "connect", "activate", "unkey", "unfallback", "archive", "unlink"}

\* sel: what the editor says is selected; printer, row: what has been found for it.
Op == [phase : Phases,
       sel : 0 .. PrinterBound, printer : 0 .. PrinterBound, row : 0 .. SshBound,
       name : Names, host : Hosts \cup {None}, mode : Modes, ref : Refs \cup {None},
       secret : Secrets \cup {None}, activates : BOOLEAN]

ASSUME NoRowAssumption == NoRow \notin Printer \cup Ssh

Idle == [phase |-> "idle", sel |-> 0, printer |-> 0, row |-> 0, name |-> DefaultName,
         host |-> None, mode |-> CHOOSE m \in Modes : TRUE, ref |-> None, secret |-> None,
         activates |-> FALSE]

Default == [name |-> DefaultName, host |-> None, ref |-> None, ssh |-> 0,
            archived |-> FALSE, virtual |-> FALSE]

Visible(p) == p \in PrinterIds /\ printers[p] # NoRow /\ ~printers[p].archived

\* list_ssh_profiles; the id of each is the one of the printer.
Listed == {p \in PrinterIds : Visible(p) /\ ~printers[p].virtual /\ printers[p].host # None}

Exists(r) == r \in SshIds /\ ssh[r] # NoRow

\* UNIQUE names, archived printers included.
NameTaken(name, p) == \E q \in PrinterIds \ {p} : printers[q] # NoRow /\ printers[q].name = name

\* get_secret; reads: whether the keyring answers.
GetSecret(f, reads) ==
  IF recorded[f] = "keyring" /\ available /\ reads /\ keyring[f] # None THEN keyring[f]
  ELSE fallback[f]

-----------------------------------------------------------------------------
TypeOK ==
  /\ printers \in [PrinterIds -> Printer \cup {NoRow}]
  /\ nextPrinter \in 1 .. PrinterBound + 1
  /\ active \in 0 .. PrinterBound
  /\ ssh \in [SshIds -> Ssh \cup {NoRow}]
  /\ nextSsh \in 1 .. SshBound + 1
  /\ keyring \in [Refs -> Secrets \cup {None}]
  /\ fallback \in [Refs -> Secrets \cup {None}]
  /\ recorded \in [Refs -> {"keyring", "fallback", "nowhere"}]
  /\ available \in BOOLEAN
  /\ op \in Op
  /\ fresh \in [Refs -> SUBSET Secrets]
  /\ saves \in 0 .. SaveBound

\* The first tab has been opened.
Init ==
  /\ printers = [p \in PrinterIds |-> IF p = 1 THEN Default ELSE NoRow]
  /\ nextPrinter = 2
  /\ active = 1
  /\ ssh = [r \in SshIds |-> NoRow]
  /\ nextSsh = 1
  /\ keyring = [f \in Refs |-> None]
  /\ fallback = [f \in Refs |-> None]
  /\ recorded = [f \in Refs |-> "nowhere"]
  /\ available \in BOOLEAN
  /\ op = Idle
  /\ fresh = [f \in Refs |-> {}]
  /\ saves = 0

-----------------------------------------------------------------------------
(***************************************************************************)
(* Saving.                                                                 *)
(***************************************************************************)

\* Mutant of Reference: a connection that is new gets none.
ReferenceOfRow(sel, name, mode) == IF Exists(sel) THEN ssh[sel].ref ELSE None

\* The reference of the SSH profile that is saved again, else a new one.
Reference(sel, name, mode) ==
  IF Exists(sel) /\ ssh[sel].mode = mode THEN ssh[sel].ref ELSE RefOf[<<name, mode>>]

\* save_ssh_profile_from_dialog and the head of save_ssh_profile.  The selected
\* id is a printer's, and is looked up among the ids of SSH profiles.
StartSave(sel, name, host, mode, secret, activates) ==
  LET linked == {p \in PrinterIds : Visible(p) /\ sel # 0 /\ printers[p].ssh = sel}
  IN  /\ op.phase = "idle"
      /\ saves < SaveBound
      /\ nextPrinter \in PrinterIds /\ nextSsh \in SshIds
      /\ sel \in {0} \cup Listed
      /\ \/ secret # None
         \/ sel # 0 /\ GetSecret(printers[sel].ref, TRUE) # None
      /\ op' = [phase |-> IF secret = None THEN "ssh"
                         ELSE IF available THEN "keyring" ELSE "recordfallback",
                sel |-> sel, printer |-> IF linked = {} THEN 0 ELSE Min(linked), row |-> 0,
                name |-> name, host |-> host, mode |-> mode, ref |-> Reference(sel, name, mode),
                secret |-> secret,
                activates |-> activates]
      /\ fresh' = IF secret = None THEN fresh
                  ELSE [fresh EXCEPT ![Reference(sel, name, mode)] = @ \cup {secret}]
      /\ saves' = saves + 1
      /\ UNCHANGED <<rows, vault, available>>

Goto(phase) == op' = [op EXCEPT !.phase = phase]

\* Any failure of the keyring or of its bookkeeping falls through to the database.
WriteKeyring ==
  /\ op.phase = "keyring"
  /\ \/ keyring' = [keyring EXCEPT ![op.ref] = op.secret] /\ Goto("record")
     \/ UNCHANGED keyring /\ Goto("recordfallback")
  /\ UNCHANGED <<rows, fallback, recorded, available, fresh, saves>>

RecordKeyring ==
  /\ op.phase = "record"
  /\ \/ recorded' = [recorded EXCEPT ![op.ref] = "keyring"] /\ Goto("clear")
     \/ UNCHANGED recorded /\ Goto("recordfallback")
  /\ UNCHANGED <<rows, keyring, fallback, available, fresh, saves>>

\* Mutant of ClearFallback: the old secret is left in the database.
ClearNothing ==
  /\ op.phase = "clear"
  /\ \/ fresh' = [fresh EXCEPT ![op.ref] = {op.secret}] /\ Goto("ssh")
     \/ UNCHANGED fresh /\ Goto("recordfallback")
  /\ UNCHANGED <<rows, keyring, fallback, recorded, available, saves>>

ClearFallback ==
  /\ op.phase = "clear"
  /\ \/ /\ fallback' = [fallback EXCEPT ![op.ref] = None]
        /\ fresh' = [fresh EXCEPT ![op.ref] = {op.secret}]
        /\ Goto("ssh")
     \/ UNCHANGED <<fallback, fresh>> /\ Goto("recordfallback")
  /\ UNCHANGED <<rows, keyring, recorded, available, saves>>

\* Mutant of RecordFallback: a record that is there already is kept.
RecordFallbackOnce ==
  /\ op.phase = "recordfallback"
  /\ recorded' = [recorded EXCEPT ![op.ref] = IF @ = "nowhere" THEN "fallback" ELSE @]
  /\ Goto("fallback")
  /\ UNCHANGED <<rows, keyring, fallback, available, fresh, saves>>

RecordFallback ==
  /\ op.phase = "recordfallback"
  /\ recorded' = [recorded EXCEPT ![op.ref] = "fallback"]
  /\ Goto("fallback")
  /\ UNCHANGED <<rows, keyring, fallback, available, fresh, saves>>

WriteFallback ==
  /\ op.phase = "fallback"
  /\ fallback' = [fallback EXCEPT ![op.ref] = op.secret]
  /\ fresh' = [fresh EXCEPT ![op.ref] = {op.secret}]
  /\ Goto("ssh")
  /\ UNCHANGED <<rows, keyring, recorded, available, saves>>

\* upsert_ssh_host_profile: by id, else by name.
UpsertSsh ==
  LET named == {r \in SshIds : Exists(r) /\ ssh[r].name = op.name}
      row   == IF Exists(op.sel) THEN op.sel ELSE IF named # {} THEN Min(named) ELSE nextSsh
  IN  /\ op.phase = "ssh"
      /\ named \subseteq {row}
      /\ ssh' = [ssh EXCEPT ![row] = [name |-> op.name, host |-> op.host, mode |-> op.mode,
                                      ref |-> op.ref]]
      /\ nextSsh' = IF row = nextSsh THEN nextSsh + 1 ELSE nextSsh
      /\ op' = [op EXCEPT !.phase = "link", !.row = row]
      /\ UNCHANGED <<printers, nextPrinter, active, vault, available, fresh, saves>>

Linked(r) == {p \in PrinterIds : Visible(p) /\ printers[p].ssh = r}
Named(n)  == {p \in PrinterIds : Visible(p) /\ printers[p].name = n}

\* ensure_printer_profile_for_ssh_profile: by SSH profile, else by name.
Found == IF Linked(op.row) # {} THEN Min(Linked(op.row))
         ELSE IF Named(op.name) # {} THEN Min(Named(op.name)) ELSE 0

LinkPrinter ==
  /\ op.phase = "link"
  /\ \/ /\ op.printer # 0
        /\ Visible(op.printer) => ~NameTaken(op.name, op.printer)
        /\ printers' = IF Visible(op.printer)
                       THEN [printers EXCEPT ![op.printer].name = op.name] ELSE printers
        /\ Goto("connect")
        /\ UNCHANGED <<nextPrinter, active>>
     \/ /\ op.printer = 0 /\ Found # 0
        /\ op' = [op EXCEPT !.phase = "connect", !.printer = Found]
        /\ active' = IF op.activates THEN Found ELSE active
        /\ UNCHANGED <<printers, nextPrinter>>
     \/ /\ op.printer = 0 /\ Found = 0
        /\ ~NameTaken(op.name, nextPrinter)
        /\ printers' = [printers EXCEPT ![nextPrinter] =
                          [Default EXCEPT !.name = op.name, !.ssh = op.row]]
        /\ nextPrinter' = nextPrinter + 1
        /\ op' = [op EXCEPT !.phase = "connect", !.printer = nextPrinter]
        /\ active' = IF op.activates THEN nextPrinter ELSE active
  /\ UNCHANGED <<ssh, nextSsh, vault, available, fresh, saves>>

\* Mutant of Connect: the printer keeps the SSH profile it had.
ConnectWithoutLink ==
  /\ op.phase = "connect"
  /\ printers' = IF Visible(op.printer)
                 THEN [printers EXCEPT ![op.printer].host = op.host, ![op.printer].ref = op.ref]
                 ELSE printers
  /\ op' = IF op.activates THEN [op EXCEPT !.phase = "activate"] ELSE Idle
  /\ UNCHANGED <<nextPrinter, active, ssh, nextSsh, vault, available, fresh, saves>>

\* update_printer_profile_connection
Connect ==
  /\ op.phase = "connect"
  /\ printers' = IF Visible(op.printer)
                 THEN [printers EXCEPT ![op.printer].host = op.host, ![op.printer].ref = op.ref,
                                       ![op.printer].ssh = op.row]
                 ELSE printers
  /\ op' = IF op.activates THEN [op EXCEPT !.phase = "activate"] ELSE Idle
  /\ UNCHANGED <<nextPrinter, active, ssh, nextSsh, vault, available, fresh, saves>>

ActivateSaved ==
  /\ op.phase = "activate"
  /\ active' = IF Visible(op.printer) THEN op.printer ELSE active
  /\ op' = Idle
  /\ UNCHANGED <<printers, nextPrinter, ssh, nextSsh, vault, available, fresh, saves>>

\* A constraint of the database is violated, or another connection holds its
\* lock for too long: the step is rolled back and the handler gives up.
FailStep ==
  /\ op.phase \notin {"idle", "keyring", "record", "clear", "unkey"}
  /\ op' = Idle
  /\ UNCHANGED <<rows, vault, available, fresh, saves>>

-----------------------------------------------------------------------------
(***************************************************************************)
(* Deleting and activating.                                                *)
(***************************************************************************)

\* delete_ssh_profile, with the editor's selected id: a printer whose SSH
\* profile has that id, else the printer that has it.
StartDelete(sel) ==
  LET linked == Linked(sel)
      p      == IF linked # {} THEN Min(linked) ELSE sel
  IN  /\ op.phase = "idle"
      /\ sel \in Listed
      /\ op' = [Idle EXCEPT !.phase = IF printers[p].ref = None THEN "archive"
                                      ELSE IF available THEN "unkey" ELSE "unfallback",
                            !.sel = sel, !.printer = p, !.row = printers[p].ssh,
                            !.ref = printers[p].ref]
      /\ UNCHANGED <<rows, vault, available, fresh, saves>>

\* A keyring that does not delete is passed over.
DeleteFromKeyring ==
  /\ op.phase = "unkey"
  /\ \E s \in {keyring[op.ref], None} : keyring' = [keyring EXCEPT ![op.ref] = s]
  /\ Goto("unfallback")
  /\ UNCHANGED <<rows, fallback, recorded, available, fresh, saves>>

DeleteFallback ==
  /\ op.phase = "unfallback"
  /\ fallback' = [fallback EXCEPT ![op.ref] = None]
  /\ Goto("archive")
  /\ UNCHANGED <<rows, keyring, recorded, available, fresh, saves>>

Archive ==
  /\ op.phase = "archive"
  /\ printers' = IF printers[op.printer] = NoRow THEN printers
                 ELSE [printers EXCEPT ![op.printer].archived = TRUE]
  /\ active' = IF active = op.printer THEN 0 ELSE active
  /\ op' = IF op.row = 0 THEN Idle ELSE [op EXCEPT !.phase = "unlink"]
  /\ UNCHANGED <<nextPrinter, ssh, nextSsh, vault, available, fresh, saves>>

\* delete_ssh_host_profile: the index loses a reference that nothing uses.
UnlinkSsh ==
  /\ op.phase = "unlink"
  /\ ssh' = [ssh EXCEPT ![op.row] = NoRow]
  /\ recorded' = IF Exists(op.row) /\ \A r \in SshIds \ {op.row} :
                                        Exists(r) => ssh[r].ref # ssh[op.row].ref
                 THEN [recorded EXCEPT ![ssh[op.row].ref] = "nowhere"] ELSE recorded
  /\ op' = Idle
  /\ UNCHANGED <<printers, nextPrinter, active, nextSsh, keyring, fallback, available, fresh, saves>>

\* delete_printer_profile: the row and the macros and backups of the printer, in
\* one transaction; its connection and its secret stay.
DeletePrinter(p) ==
  /\ op.phase = "idle"
  /\ Visible(p)
  /\ printers' = [printers EXCEPT ![p] = NoRow]
  /\ active' = IF active = p THEN 0 ELSE active
  /\ UNCHANGED <<nextPrinter, ssh, nextSsh, vault, available, op, fresh, saves>>

CreateVirtual(name) ==
  /\ op.phase = "idle"
  /\ nextPrinter \in PrinterIds
  /\ ~NameTaken(name, nextPrinter)
  /\ printers' = [printers EXCEPT ![nextPrinter] = [Default EXCEPT !.name = name, !.virtual = TRUE]]
  /\ active' = nextPrinter
  /\ nextPrinter' = nextPrinter + 1
  /\ UNCHANGED <<ssh, nextSsh, vault, available, op, fresh, saves>>

Activate(p) ==
  /\ op.phase = "idle"
  /\ Visible(p) /\ active # p
  /\ active' = p
  /\ UNCHANGED <<printers, nextPrinter, ssh, nextSsh, vault, available, op, fresh, saves>>

\* ensure_default_printer_profile, whenever a tab is opened.
OpenTab ==
  LET visible == {p \in PrinterIds : Visible(p)}
  IN  /\ op.phase = "idle"
      /\ active = 0
      /\ \/ /\ visible # {}
            /\ active' = Min(visible)
            /\ UNCHANGED <<printers, nextPrinter>>
         \/ /\ visible = {}
            /\ nextPrinter \in PrinterIds
            /\ ~NameTaken(DefaultName, nextPrinter)
            /\ printers' = [printers EXCEPT ![nextPrinter] = Default]
            /\ nextPrinter' = nextPrinter + 1
            /\ active' = nextPrinter
      /\ UNCHANGED <<ssh, nextSsh, vault, available, op, fresh, saves>>

\* The process ends at any moment; the next one may find a keyring or not.
Restart ==
  /\ op' = Idle
  /\ available' \in BOOLEAN
  /\ UNCHANGED <<rows, vault, fresh, saves>>

-----------------------------------------------------------------------------
Next ==
  \/ \E sel \in 0 .. PrinterBound, name \in Names, host \in Hosts, mode \in Modes,
        secret \in Secrets \cup {None}, activates \in BOOLEAN :
       StartSave(sel, name, host, mode, secret, activates)
  \/ WriteKeyring \/ RecordKeyring \/ ClearFallback \/ RecordFallback \/ WriteFallback
  \/ UpsertSsh \/ LinkPrinter \/ Connect \/ ActivateSaved \/ FailStep
  \/ \E p \in PrinterIds : StartDelete(p) \/ DeletePrinter(p) \/ Activate(p)
  \/ DeleteFromKeyring \/ DeleteFallback \/ Archive \/ UnlinkSsh
  \/ \E name \in Names : CreateVirtual(name)
  \/ OpenTab
  \/ Restart

Spec == Init /\ [][Next]_vars

-----------------------------------------------------------------------------
(***************************************************************************)
(* Properties.                                                             *)
(***************************************************************************)

\* Whatever fails and whenever the process ends, with or without a keyring, a
\* secret that has been replaced is never read again.
NoStaleSecret ==
  \A f \in Refs, reads \in BOOLEAN : GetSecret(f, reads) \in fresh[f] \cup {None}

\* The two copies of a connection belong together: every printer that is shown
\* with a connection has an SSH profile, and no other shown printer has the same.
LinksExact ==
  \A p \in Listed : /\ Exists(printers[p].ssh)
                    /\ \A q \in Listed \ {p} : printers[q].ssh # printers[p].ssh

\* When a save has written the last of the rows, the printer it ends at can be
\* reached: by both copies of the connection and with the secret just entered.
SaveTakesEffect ==
  [][(op.phase = "connect" /\ Connect /\ Visible(op.printer)) =>
        LET row == printers'[op.printer]
        IN  /\ ssh[row.ssh] # NoRow
            /\ ssh[row.ssh].host = row.host /\ ssh[row.ssh].ref = row.ref
            /\ op.secret # None => GetSecret(row.ref, TRUE) = op.secret]_vars

\* A save or a deletion in the editor of one printer changes no other printer
\* that has a connection: neither its row, nor its secret.
EditorScope ==
  [][op.phase # "idle" /\ op.sel # 0 =>
       \A q \in Listed \ {op.sel} :
         /\ printers'[q] = printers[q]
         /\ printers[q].ref # printers[op.sel].ref =>
              /\ keyring'[printers[q].ref] = keyring[printers[q].ref]
              /\ fallback'[printers[q].ref] = fallback[printers[q].ref]]_vars

=============================================================================
