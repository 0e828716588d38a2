------------------------- MODULE ProfileStore_proofs ------------------------
(***************************************************************************)
(* Theorems about ProfileStore: its state keeps its types, a secret that   *)
(* was replaced is never read again, the two copies of a connection belong *)
(* together, and a save that finishes can be used.                         *)
(***************************************************************************)
EXTENDS ProfileStore, WellFoundedInduction, TLAPS

LEMMA NatHasMin ==
  ASSUME NEW S \in SUBSET Nat, S # {}
  PROVE  \E i \in S : \A j \in S : i <= j
<1> DEFINE R == OpToRel(<, Nat)
<1>1. IsWellFoundedOn(R, Nat)
  BY NatLessThanWellFounded
<1>2. \E i \in S : \A j \in S : ~(<<j, i>> \in R)
  <2> HIDE DEF R
  <2> QED BY <1>1, WFMin
<1>3. \A i, j \in Nat : ~(<<j, i>> \in R) => i <= j
  BY DEF OpToRel
<1> QED BY <1>2, <1>3

LEMMA MinIn ==
  ASSUME NEW S \in SUBSET Nat, S # {}
  PROVE  Min(S) \in S
BY NatHasMin DEF Min

Before == {"keyring", "record", "clear", "recordfallback", "fallback"}

\* What the event loop holds while it is in the middle of something.
OpOK ==
  /\ op.phase \in Before \cup {"ssh"} => nextSsh \in SshIds
  /\ op.phase \in Before \cup {"ssh", "link"} => nextPrinter \in PrinterIds
  /\ op.phase \in Before \cup {"ssh", "link", "connect"} => op.ref \in Refs /\ op.host \in Hosts
  /\ op.phase \in Before => op.secret \in Secrets
  /\ op.phase \in {"unkey", "unfallback"} => op.ref \in Refs
  /\ op.phase = "unlink" => op.row \in SshIds

\* The printers that are shown.
RowsOK ==
  /\ \A p \in PrinterIds : Visible(p) /\ printers[p].ssh # 0 => Exists(printers[p].ssh)
  /\ \A p \in PrinterIds : Visible(p) /\ printers[p].host # None =>
       printers[p].ssh # 0 /\ printers[p].ref \in Refs
  /\ \A p, q \in PrinterIds : Visible(p) /\ Visible(q) /\ printers[p].ssh # 0
                                /\ printers[p].ssh = printers[q].ssh => p = q

\* What a save or a deletion has found.
FoundOK ==
  /\ op.phase \in Before \cup {"ssh", "link"} /\ op.printer # 0 =>
       Visible(op.printer) /\ op.sel # 0 /\ printers[op.printer].ssh = op.sel
  /\ op.phase = "link" /\ op.printer # 0 => op.row = op.sel
  /\ op.phase \in {"link", "connect"} =>
       Exists(op.row) /\ ssh[op.row].host = op.host /\ ssh[op.row].ref = op.ref
  /\ op.phase = "connect" =>
       \A q \in PrinterIds : Visible(q) /\ printers[q].ssh = op.row => q = op.printer
  /\ op.phase \in {"unkey", "unfallback", "archive"} =>
       Visible(op.printer) /\ op.row = printers[op.printer].ssh
  /\ op.phase = "unlink" => \A q \in PrinterIds : Visible(q) => printers[q].ssh # op.row

\* Where the secrets are.
SecretsOK ==
  /\ \A f \in Refs : /\ fallback[f] \in fresh[f] \cup {None}
                     /\ recorded[f] = "keyring" => keyring[f] \in fresh[f] \cup {None}
  /\ op.phase \in Before => op.secret \in fresh[op.ref]
  /\ op.phase = "keyring" => available
  /\ op.phase = "record" => keyring[op.ref] = op.secret /\ available
  /\ op.phase = "clear" => /\ keyring[op.ref] = op.secret
                           /\ recorded[op.ref] = "keyring" /\ available
  /\ op.phase = "fallback" => recorded[op.ref] # "keyring"
  /\ op.phase \in {"ssh", "link", "connect"} /\ op.secret # None => 
       \/ recorded[op.ref] = "keyring" /\ available /\ keyring[op.ref] = op.secret
       \/ recorded[op.ref] # "keyring" /\ fallback[op.ref] = op.secret

Inv == TypeOK /\ OpOK /\ RowsOK /\ FoundOK /\ SecretsOK

-----------------------------------------------------------------------------
\* Everything but the phase stays.
SameOp == /\ op'.sel = op.sel /\ op'.printer = op.printer /\ op'.row = op.row
          /\ op'.name = op.name /\ op'.host = op.host /\ op'.mode = op.mode
          /\ op'.ref = op.ref /\ op'.secret = op.secret /\ op'.activates = op.activates

LEMMA GotoFact ==
  ASSUME op \in Op, NEW phase \in Phases, Goto(phase)
  PROVE  op' \in Op /\ op'.phase = phase /\ SameOp
BY DEF Goto, Op, SameOp

LEMMA PhasesFact ==
  /\ {"idle", "keyring", "record", "clear", "recordfallback", "fallback", "ssh"} \subseteq Phases
  /\ {"link", "connect", "activate", "unkey", "unfallback", "archive", "unlink"} \subseteq Phases
BY DEF Phases

LEMMA OpFields ==
  ASSUME op \in Op
  PROVE  /\ op.phase \in Phases /\ op.sel \in 0 .. PrinterBound
         /\ op.printer \in 0 .. PrinterBound /\ op.row \in 0 .. SshBound
         /\ op.name \in Names /\ op.host \in Hosts \cup {None} /\ op.mode \in Modes
         /\ op.ref \in Refs \cup {None} /\ op.secret \in Secrets \cup {None}
         /\ op.activates \in BOOLEAN
BY DEF Op

LEMMA IdleType == Idle \in Op /\ Idle.phase = "idle" /\ Default \in Printer
<1>1. 0 \in 0 .. PrinterBound /\ 0 \in 0 .. SshBound
  BY BoundsAssumption
<1>2. (CHOOSE m \in Modes : TRUE) \in Modes
  BY ModesAssumption
<1>3. Idle \in Op
  BY <1>1, <1>2, NamesAssumption DEF Idle, Op, Phases
<1>4. Default \in Printer
  BY <1>1, NamesAssumption DEF Default, Printer
<1> QED BY <1>3, <1>4 DEF Idle

\* When nothing is going on, there is nothing to hold.
LEMMA IdleOK == ASSUME op.phase = "idle" PROVE OpOK /\ FoundOK
BY DEF OpOK, FoundOK, Before

LEMMA SameRows == ASSUME RowsOK, UNCHANGED <<printers, ssh>> PROVE RowsOK'
BY DEF RowsOK, Visible, Exists

-----------------------------------------------------------------------------
(***************************************************************************)
(* Writing a secret.                                                       *)
(***************************************************************************)
LEMMA VaultStep ==
  ASSUME Inv, op.phase \in Before, op' \in Op, SameOp, op'.phase \in Before \cup {"ssh"},
         UNCHANGED rows
  PROVE  OpOK' /\ RowsOK' /\ FoundOK'
<1>1. RowsOK'
  BY SameRows DEF Inv, rows
<1>2. /\ nextSsh \in SshIds /\ nextPrinter \in PrinterIds
      /\ op.ref \in Refs /\ op.host \in Hosts /\ op.secret \in Secrets
  BY DEF Inv, OpOK
<1>3. OpOK'
  BY <1>2 DEF OpOK, SameOp, rows, Before
<1>4. op.printer # 0 => Visible(op.printer) /\ op.sel # 0 /\ printers[op.printer].ssh = op.sel
  BY DEF Inv, FoundOK
<1>5. FoundOK'
  BY <1>4 DEF FoundOK, SameOp, rows, Before, Visible
<1> QED BY <1>1, <1>3, <1>5

\* What holds while a secret is being written.
LEMMA Writing ==
  ASSUME Inv, op.phase \in Before
  PROVE  /\ op \in Op /\ op.ref \in Refs /\ op.secret \in Secrets
         /\ op.secret \in fresh[op.ref]
         /\ keyring \in [Refs -> Secrets \cup {None}]
         /\ fallback \in [Refs -> Secrets \cup {None}]
         /\ recorded \in [Refs -> {"keyring", "fallback", "nowhere"}]
         /\ fresh \in [Refs -> SUBSET Secrets]
         /\ \A f \in Refs : /\ fallback[f] \in fresh[f] \cup {None}
                            /\ recorded[f] = "keyring" => keyring[f] \in fresh[f] \cup {None}
         /\ op.secret # None
BY NoneAssumption DEF Inv, TypeOK, OpOK, SecretsOK

LEMMA WriteKeyringInv == ASSUME Inv, WriteKeyring PROVE Inv'
<1>1. /\ op' \in Op /\ SameOp
      /\ \/ op'.phase = "record" /\ keyring' = [keyring EXCEPT ![op.ref] = op.secret]
         \/ op'.phase = "recordfallback" /\ keyring' = keyring
  BY GotoFact, PhasesFact DEF WriteKeyring, Inv, TypeOK
<1>2. /\ op.phase = "keyring" /\ op.phase \in Before /\ UNCHANGED rows
      /\ fallback' = fallback /\ recorded' = recorded /\ available' = available
      /\ fresh' = fresh /\ saves' = saves
  BY DEF WriteKeyring, Before
<1>3. keyring' \in [Refs -> Secrets \cup {None}]
  BY <1>1, <1>2, Writing
<1>4. TypeOK'
  BY <1>1, <1>2, <1>3 DEF Inv, TypeOK, rows
<1>5. OpOK' /\ RowsOK' /\ FoundOK'
  BY <1>1, <1>2, VaultStep DEF Before
<1>6. available
  BY <1>2 DEF Inv, SecretsOK
<1>7. SecretsOK'
  BY <1>1, <1>2, <1>6, Writing DEF SecretsOK, SameOp, Before
<1> QED BY <1>4, <1>5, <1>7 DEF Inv

LEMMA RecordKeyringInv == ASSUME Inv, RecordKeyring PROVE Inv'
<1>1. /\ op' \in Op /\ SameOp
      /\ \/ op'.phase = "clear" /\ recorded' = [recorded EXCEPT ![op.ref] = "keyring"]
         \/ op'.phase = "recordfallback" /\ recorded' = recorded
  BY GotoFact, PhasesFact DEF RecordKeyring, Inv, TypeOK
<1>2. /\ op.phase = "record" /\ op.phase \in Before /\ UNCHANGED rows
      /\ fallback' = fallback /\ keyring' = keyring /\ available' = available
      /\ fresh' = fresh /\ saves' = saves
  BY DEF RecordKeyring, Before
<1>3. recorded' \in [Refs -> {"keyring", "fallback", "nowhere"}]
  BY <1>1, <1>2, Writing
<1>4. TypeOK'
  BY <1>1, <1>2, <1>3 DEF Inv, TypeOK, rows
<1>5. OpOK' /\ RowsOK' /\ FoundOK'
  BY <1>1, <1>2, VaultStep DEF Before
<1>6. available /\ keyring[op.ref] = op.secret
  BY <1>2 DEF Inv, SecretsOK
<1>7. SecretsOK'
  BY <1>1, <1>2, <1>6, Writing DEF SecretsOK, SameOp, Before
<1> QED BY <1>4, <1>5, <1>7 DEF Inv

LEMMA ClearFallbackInv == ASSUME Inv, ClearFallback PROVE Inv'
<1>1. /\ op' \in Op /\ SameOp
      /\ \/ /\ op'.phase = "ssh"
            /\ fallback' = [fallback EXCEPT ![op.ref] = None]
            /\ fresh' = [fresh EXCEPT ![op.ref] = {op.secret}]
         \/ op'.phase = "recordfallback" /\ fallback' = fallback /\ fresh' = fresh
  BY GotoFact, PhasesFact DEF ClearFallback, Inv, TypeOK
<1>2. /\ op.phase = "clear" /\ op.phase \in Before /\ UNCHANGED rows
      /\ recorded' = recorded /\ keyring' = keyring /\ available' = available
      /\ saves' = saves
  BY DEF ClearFallback, Before
<1>3. /\ fallback' \in [Refs -> Secrets \cup {None}]
      /\ fresh' \in [Refs -> SUBSET Secrets]
  BY <1>1, <1>2, Writing
<1>4. TypeOK'
  BY <1>1, <1>2, <1>3 DEF Inv, TypeOK, rows
<1>5. OpOK' /\ RowsOK' /\ FoundOK'
  BY <1>1, <1>2, VaultStep DEF Before
<1>6. available /\ keyring[op.ref] = op.secret /\ recorded[op.ref] = "keyring"
  BY <1>2 DEF Inv, SecretsOK
<1>7. SecretsOK'
  BY <1>1, <1>2, <1>6, Writing DEF SecretsOK, SameOp, Before
<1> QED BY <1>4, <1>5, <1>7 DEF Inv

LEMMA RecordFallbackInv == ASSUME Inv, RecordFallback PROVE Inv'
<1>1. /\ op' \in Op /\ SameOp /\ op'.phase = "fallback"
      /\ recorded' = [recorded EXCEPT ![op.ref] = "fallback"]
  BY GotoFact, PhasesFact DEF RecordFallback, Inv, TypeOK
<1>2. /\ op.phase = "recordfallback" /\ op.phase \in Before /\ UNCHANGED rows
      /\ fallback' = fallback /\ keyring' = keyring /\ available' = available
      /\ fresh' = fresh /\ saves' = saves
  BY DEF RecordFallback, Before
<1>3. recorded' \in [Refs -> {"keyring", "fallback", "nowhere"}]
  BY <1>1, <1>2, Writing
<1>4. TypeOK'
  BY <1>1, <1>2, <1>3 DEF Inv, TypeOK, rows
<1>5. OpOK' /\ RowsOK' /\ FoundOK'
  BY <1>1, <1>2, VaultStep DEF Before
<1>6. SecretsOK'
  BY <1>1, <1>2, Writing DEF SecretsOK, SameOp, Before
<1> QED BY <1>4, <1>5, <1>6 DEF Inv

LEMMA WriteFallbackInv == ASSUME Inv, WriteFallback PROVE Inv'
<1>1. /\ op' \in Op /\ SameOp /\ op'.phase = "ssh"
      /\ fallback' = [fallback EXCEPT ![op.ref] = op.secret]
      /\ fresh' = [fresh EXCEPT ![op.ref] = {op.secret}]
  BY GotoFact, PhasesFact DEF WriteFallback, Inv, TypeOK
<1>2. /\ op.phase = "fallback" /\ op.phase \in Before /\ UNCHANGED rows
      /\ recorded' = recorded /\ keyring' = keyring /\ available' = available
      /\ saves' = saves
  BY DEF WriteFallback, Before
<1>3. /\ fallback' \in [Refs -> Secrets \cup {None}]
      /\ fresh' \in [Refs -> SUBSET Secrets]
  BY <1>1, <1>2, Writing
<1>4. TypeOK'
  BY <1>1, <1>2, <1>3 DEF Inv, TypeOK, rows
<1>5. OpOK' /\ RowsOK' /\ FoundOK'
  BY <1>1, <1>2, VaultStep DEF Before
<1>6. recorded[op.ref] # "keyring"
  BY <1>2 DEF Inv, SecretsOK
<1>7. SecretsOK'
  BY <1>1, <1>2, <1>6, Writing DEF SecretsOK, SameOp, Before
<1> QED BY <1>4, <1>5, <1>7 DEF Inv

-----------------------------------------------------------------------------
(***************************************************************************)
(* Rows.                                                                   *)
(***************************************************************************)
LEMMA Ids ==
  /\ PrinterIds \subseteq Nat /\ PrinterIds \subseteq 0 .. PrinterBound /\ 0 \notin PrinterIds
  /\ SshIds \subseteq Nat /\ SshIds \subseteq 0 .. SshBound /\ 0 \notin SshIds
  /\ 0 \in 0 .. PrinterBound /\ 0 \in 0 .. SshBound
BY BoundsAssumption DEF PrinterIds, SshIds

LEMMA SshType ==
  ASSUME TypeOK, NEW r, Exists(r)
  PROVE  /\ r \in SshIds
         /\ ssh[r].name \in Names /\ ssh[r].host \in Hosts /\ ssh[r].mode \in Modes
         /\ ssh[r].ref \in Refs
<1>1. ssh[r] \in Ssh
  BY DEF TypeOK, Exists
<1> QED BY <1>1 DEF Ssh, Exists

LEMMA PrinterType ==
  ASSUME TypeOK, NEW p, Visible(p)
  PROVE  /\ p \in PrinterIds /\ printers[p] \in Printer
         /\ printers[p].name \in Names /\ printers[p].host \in Hosts \cup {None}
         /\ printers[p].ref \in Refs \cup {None} /\ printers[p].ssh \in 0 .. SshBound
<1>1. printers[p] \in Printer
  BY DEF TypeOK, Visible
<1> QED BY <1>1 DEF Printer, Visible

LEMMA ReferenceType ==
  ASSUME TypeOK, NEW sel, NEW name \in Names, NEW mode \in Modes
  PROVE  Reference(sel, name, mode) \in Refs
<1>1. RefOf[<<name, mode>>] \in Refs
  BY RefsAssumption
<1>2. Exists(sel) => ssh[sel].ref \in Refs
  BY SshType
<1> QED BY <1>1, <1>2 DEF Reference

LEMMA StartSaveInv ==
  ASSUME Inv, NEW sel \in 0 .. PrinterBound, NEW name \in Names, NEW host \in Hosts,
         NEW mode \in Modes, NEW secret \in Secrets \cup {None}, NEW activates \in BOOLEAN,
         StartSave(sel, name, host, mode, secret, activates)
  PROVE  Inv'
<1> DEFINE linked == {p \in PrinterIds : Visible(p) /\ sel # 0 /\ printers[p].ssh = sel}
           printer == IF linked = {} THEN 0 ELSE Min(linked)
           phase == IF secret = None THEN "ssh"
                    ELSE IF available THEN "keyring" ELSE "recordfallback"
           ref == Reference(sel, name, mode)
<1>1. /\ op' = [phase |-> phase, sel |-> sel, printer |-> printer, row |-> 0, name |-> name,
                host |-> host, mode |-> mode, ref |-> ref, secret |-> secret,
                activates |-> activates]
      /\ fresh' = IF secret = None THEN fresh ELSE [fresh EXCEPT ![ref] = @ \cup {secret}]
      /\ nextPrinter \in PrinterIds /\ nextSsh \in SshIds
      /\ saves < SaveBound /\ saves' = saves + 1
      /\ UNCHANGED <<rows, vault, available>>
  BY DEF StartSave
<1>2. ref \in Refs
  BY ReferenceType DEF Inv
<1>3. printer # 0 => Visible(printer) /\ sel # 0 /\ printers[printer].ssh = sel
  <2>1. linked \in SUBSET Nat
    BY Ids
  <2>2. linked # {} => printer \in linked
    <3> HIDE DEF linked
    <3> QED BY <2>1, MinIn
  <2>3. linked = {} => printer = 0
    OBVIOUS
  <2> QED BY <2>2, <2>3
<1>4. printer \in 0 .. PrinterBound
  <2> HIDE DEF printer
  <2> QED BY <1>3, Ids DEF Visible
<1>5. /\ phase \in Phases
      /\ \/ phase = "ssh" /\ secret = None
         \/ phase = "keyring" /\ secret # None /\ available
         \/ phase = "recordfallback" /\ secret # None
  BY PhasesFact
<1> HIDE DEF linked, printer, phase, ref
<1>6. /\ op' \in Op /\ op'.phase = phase /\ op'.sel = sel /\ op'.printer = printer
      /\ op'.host = host /\ op'.ref = ref /\ op'.secret = secret
  BY <1>1, <1>2, <1>4, <1>5, Ids DEF Op
<1>7. fresh' \in [Refs -> SUBSET Secrets]
  BY <1>1, <1>2 DEF Inv, TypeOK
<1>8. saves' \in 0 .. SaveBound
  BY <1>1, BoundsAssumption DEF Inv, TypeOK
<1>9. TypeOK'
  BY <1>1, <1>6, <1>7, <1>8 DEF Inv, TypeOK, rows, vault
<1>10. OpOK'
  BY <1>1, <1>2, <1>5, <1>6 DEF OpOK, Before, rows
<1>11. RowsOK'
  BY <1>1, SameRows DEF Inv, rows
<1>12. FoundOK'
  BY <1>1, <1>3, <1>5, <1>6 DEF FoundOK, Before, rows, Visible
<1>13. SecretsOK'
  <2>1. /\ \A f \in Refs : fresh[f] \subseteq fresh'[f]
        /\ secret # None => secret \in fresh'[ref]
    BY <1>1, <1>2 DEF Inv, TypeOK
  <2> QED BY <1>1, <1>2, <1>5, <1>6, <2>1 DEF Inv, SecretsOK, Before, vault
<1> QED BY <1>9, <1>10, <1>11, <1>12, <1>13 DEF Inv

LEMMA UpsertSshInv == ASSUME Inv, UpsertSsh PROVE Inv'
<1> DEFINE named == {r \in SshIds : Exists(r) /\ ssh[r].name = op.name}
           row == IF Exists(op.sel) THEN op.sel ELSE IF named # {} THEN Min(named) ELSE nextSsh
           new == [name |-> op.name, host |-> op.host, mode |-> op.mode, ref |-> op.ref]
<1>1. /\ op.phase = "ssh"
      /\ ssh' = [ssh EXCEPT ![row] = new]
      /\ nextSsh' = IF row = nextSsh THEN nextSsh + 1 ELSE nextSsh
      /\ op' = [op EXCEPT !.phase = "link", !.row = row]
      /\ UNCHANGED <<printers, nextPrinter, active, vault, available, fresh, saves>>
  BY DEF UpsertSsh
<1>2. op \in Op /\ nextSsh \in SshIds /\ nextPrinter \in PrinterIds
      /\ op.ref \in Refs /\ op.host \in Hosts
  BY <1>1 DEF Inv, TypeOK, OpOK, Before
<1>3. row \in SshIds
  <2>1. named \in SUBSET Nat /\ named \subseteq SshIds
    BY Ids
  <2>2. named # {} => Min(named) \in named
    <3> HIDE DEF named
    <3> QED BY <2>1, MinIn
  <2> QED BY <1>2, <2>1, <2>2 DEF Exists
<1>4. /\ new \in Ssh /\ new.host = op.host /\ new.ref = op.ref
  BY <1>2, OpFields DEF Ssh
<1>5. new # NoRow
  BY <1>4, NoRowAssumption
<1>6. Exists(op.sel) => row = op.sel
  OBVIOUS
<1> HIDE DEF named, row, new
<1>7. /\ op' \in Op /\ op'.phase = "link" /\ op'.row = row /\ op'.sel = op.sel
      /\ op'.printer = op.printer /\ op'.host = op.host /\ op'.ref = op.ref
      /\ op'.secret = op.secret
  BY <1>1, <1>2, <1>3, PhasesFact, Ids DEF Op
<1>8. /\ ssh' \in [SshIds -> Ssh \cup {NoRow}]
      /\ ssh'[row] = new
      /\ \A r \in SshIds : Exists(r) => ssh'[r] # NoRow
  BY <1>1, <1>3, <1>4, <1>5 DEF Inv, TypeOK, Exists
<1>9. nextSsh' \in 1 .. SshBound + 1
  BY <1>1, <1>2, BoundsAssumption DEF SshIds
<1>10. TypeOK'
  BY <1>1, <1>7, <1>8, <1>9 DEF Inv, TypeOK, vault
<1>11. OpOK'
  BY <1>1, <1>2, <1>7 DEF OpOK, Before
<1>12. RowsOK'
  BY <1>1, <1>8 DEF Inv, RowsOK, Visible, Exists
<1>13. FoundOK'
  <2>1. op.printer # 0 => Visible(op.printer) /\ op.sel # 0 /\ printers[op.printer].ssh = op.sel
    BY <1>1 DEF Inv, FoundOK
  <2>2. op.printer # 0 => Exists(op.sel)
    BY <2>1 DEF Inv, RowsOK, Visible
  <2> QED BY <1>1, <1>3, <1>4, <1>5, <1>6, <1>7, <1>8, <2>1, <2>2 DEF FoundOK, Before, Visible, Exists
<1>14. SecretsOK'
  BY <1>1, <1>7 DEF Inv, SecretsOK, Before, vault
<1> QED BY <1>10, <1>11, <1>12, <1>13, <1>14 DEF Inv

LEMMA FoundFact ==
  ASSUME TypeOK
  PROVE  /\ Found # 0 => Visible(Found)
         /\ Linked(op.row) # {} => Found \in Linked(op.row)
         /\ Found \in 0 .. PrinterBound
<1>1. Linked(op.row) \in SUBSET Nat /\ Named(op.name) \in SUBSET Nat
  BY Ids DEF Linked, Named
<1>2. Linked(op.row) # {} => Found \in Linked(op.row)
  <2> DEFINE S == Linked(op.row)
  <2>1. S # {} => Min(S) \in S
    <3> HIDE DEF S
    <3> QED BY <1>1, MinIn DEF S
  <2> QED BY <2>1 DEF Found
<1>3. Linked(op.row) = {} /\ Named(op.name) # {} => Found \in Named(op.name)
  <2> DEFINE S == Named(op.name)
  <2>1. S # {} => Min(S) \in S
    <3> HIDE DEF S
    <3> QED BY <1>1, MinIn DEF S
  <2> QED BY <2>1 DEF Found
<1>4. Linked(op.row) = {} /\ Named(op.name) = {} => Found = 0
  BY DEF Found
<1>5. \A p \in Linked(op.row) \cup Named(op.name) : p \in PrinterIds /\ Visible(p)
  BY DEF Linked, Named
<1> QED BY <1>2, <1>3, <1>4, <1>5, Ids

\* What holds when a save comes to the row of its printer.
LEMMA Linking ==
  ASSUME Inv, op.phase = "link"
  PROVE  /\ op \in Op /\ nextPrinter \in PrinterIds /\ op.ref \in Refs /\ op.host \in Hosts
         /\ Exists(op.row) /\ ssh[op.row].host = op.host /\ ssh[op.row].ref = op.ref
         /\ op.row \in SshIds
         /\ op.printer # 0 => /\ Visible(op.printer) /\ op.row # 0
                              /\ printers[op.printer].ssh = op.row
BY DEF Inv, TypeOK, OpOK, FoundOK, Before, Exists

\* A row of which only the name is changed.
LEMMA Renamed ==
  ASSUME TypeOK, NEW p, Visible(p), NEW name \in Names,
         printers' = [printers EXCEPT ![p].name = name]
  PROVE  /\ printers' \in [PrinterIds -> Printer \cup {NoRow}]
         /\ \A q \in PrinterIds : Visible(q)' <=> Visible(q)
         /\ \A q \in PrinterIds : Visible(q) => /\ printers'[q].ssh = printers[q].ssh
                                                /\ printers'[q].host = printers[q].host
                                                /\ printers'[q].ref = printers[q].ref
<1> DEFINE new == [printers[p] EXCEPT !.name = name]
<1>1. p \in PrinterIds /\ printers[p] \in Printer /\ ~printers[p].archived
  BY PrinterType DEF Visible
<1>2. /\ new \in Printer /\ new.ssh = printers[p].ssh /\ new.host = printers[p].host
      /\ new.ref = printers[p].ref /\ new.archived = printers[p].archived
  BY <1>1 DEF Printer
<1>3. printers' = [printers EXCEPT ![p] = new] /\ printers \in [PrinterIds -> Printer \cup {NoRow}]
  BY DEF TypeOK
<1> HIDE DEF new
<1>4. printers'[p] = new /\ \A q \in PrinterIds \ {p} : printers'[q] = printers[q]
  BY <1>1, <1>3
<1>5. new # NoRow
  BY <1>2, NoRowAssumption
<1>6. printers' \in [PrinterIds -> Printer \cup {NoRow}]
  BY <1>1, <1>2, <1>3
<1>7. \A q \in PrinterIds : Visible(q)' <=> Visible(q)
  BY <1>1, <1>2, <1>4, <1>5 DEF Visible
<1>8. \A q \in PrinterIds : Visible(q) => /\ printers'[q].ssh = printers[q].ssh
                                          /\ printers'[q].host = printers[q].host
                                          /\ printers'[q].ref = printers[q].ref
  BY <1>2, <1>4
<1> QED BY <1>6, <1>7, <1>8

\* A row that is new.
LEMMA Added ==
  ASSUME TypeOK, NEW p \in PrinterIds, NEW new \in Printer, ~new.archived,
         printers' = [printers EXCEPT ![p] = new]
  PROVE  /\ printers' \in [PrinterIds -> Printer \cup {NoRow}]
         /\ printers'[p] = new /\ Visible(p)'
         /\ \A q \in PrinterIds \ {p} : printers'[q] = printers[q] /\ (Visible(q)' <=> Visible(q))
<1>1. printers \in [PrinterIds -> Printer \cup {NoRow}] /\ new # NoRow
  BY NoRowAssumption DEF TypeOK
<1>2. printers'[p] = new /\ \A q \in PrinterIds \ {p} : printers'[q] = printers[q]
  BY <1>1
<1> QED BY <1>1, <1>2 DEF Visible

LEMMA LinkPrinterInv == ASSUME Inv, LinkPrinter PROVE Inv'
<1>1. /\ op.phase = "link" /\ UNCHANGED <<ssh, nextSsh, vault, available, fresh, saves>>
  BY DEF LinkPrinter
<1>2. /\ op \in Op /\ nextPrinter \in PrinterIds /\ op.ref \in Refs /\ op.host \in Hosts
      /\ Exists(op.row) /\ ssh[op.row].host = op.host /\ ssh[op.row].ref = op.ref
      /\ op.row \in SshIds /\ op.row # 0 /\ op.row \in 0 .. SshBound
  BY <1>1, Linking, Ids
<1> DEFINE new == [Default EXCEPT !.name = op.name, !.ssh = op.row]
\* One fact about each of the three ways to find the printer.
<1> DEFINE Done(p) == /\ printers' \in [PrinterIds -> Printer \cup {NoRow}]
                      /\ nextPrinter' \in 1 .. PrinterBound + 1
                      /\ active' \in 0 .. PrinterBound
                      /\ op' \in Op /\ op'.phase = "connect" /\ op'.printer = p
                      /\ op'.row = op.row /\ op'.host = op.host /\ op'.ref = op.ref
                      /\ op'.secret = op.secret
                      /\ RowsOK'
                      /\ \A q \in PrinterIds : Visible(q)' /\ printers'[q].ssh = op.row => q = p
<1>3. ASSUME NEW p, Done(p) PROVE Inv'
  <2>1. TypeOK'
    BY <1>1, <1>3 DEF Inv, TypeOK, vault
  <2>2. OpOK'
    BY <1>2, <1>3 DEF OpOK, Before
  <2>3. FoundOK'
    BY <1>1, <1>2, <1>3 DEF FoundOK, Before, Exists
  <2>4. SecretsOK'
    BY <1>1, <1>3 DEF Inv, SecretsOK, Before, vault
  <2> QED BY <1>3, <2>1, <2>2, <2>3, <2>4 DEF Inv
<1>4. ASSUME NEW p \in 0 .. PrinterBound, op' = [op EXCEPT !.phase = "connect", !.printer = p]
      PROVE  /\ op' \in Op /\ op'.phase = "connect" /\ op'.printer = p
             /\ op'.row = op.row /\ op'.host = op.host /\ op'.ref = op.ref
             /\ op'.secret = op.secret
  BY <1>2, <1>4, PhasesFact DEF Op
<1>5. nextPrinter \in 1 .. PrinterBound + 1 /\ active \in 0 .. PrinterBound
  BY DEF Inv, TypeOK
<1>6. RowsOK /\ TypeOK
  BY DEF Inv
<1>7. CASE op.printer # 0
  <2>1. /\ Visible(op.printer) /\ printers[op.printer].ssh = op.row
        /\ op.printer \in PrinterIds /\ op.name \in Names
    BY <1>1, <1>2, <1>7, Linking, OpFields DEF Visible
  <2>2. /\ printers' = [printers EXCEPT ![op.printer].name = op.name]
        /\ Goto("connect") /\ UNCHANGED <<nextPrinter, active>>
    BY <1>7, <2>1 DEF LinkPrinter
  <2>3. /\ op' \in Op /\ op'.phase = "connect" /\ SameOp
    BY <1>2, <2>2, GotoFact, PhasesFact
  <2>4. /\ printers' \in [PrinterIds -> Printer \cup {NoRow}]
        /\ \A q \in PrinterIds : Visible(q)' <=> Visible(q)
        /\ \A q \in PrinterIds : Visible(q) => /\ printers'[q].ssh = printers[q].ssh
                                               /\ printers'[q].host = printers[q].host
                                               /\ printers'[q].ref = printers[q].ref
    BY <1>6, <2>1, <2>2, Renamed
  <2>5. RowsOK'
    BY <1>1, <1>6, <2>4 DEF RowsOK, Exists
  <2>6. \A q \in PrinterIds : Visible(q)' /\ printers'[q].ssh = op.row => q = op.printer
    BY <1>2, <1>6, <2>1, <2>4 DEF RowsOK
  <2> QED BY <1>3, <1>5, <2>2, <2>3, <2>4, <2>5, <2>6 DEF SameOp
<1>8. CASE op.printer = 0 /\ Found # 0
  <2>1. /\ Visible(Found) /\ Found \in PrinterIds /\ Found \in 0 .. PrinterBound
        /\ Linked(op.row) # {} => Found \in Linked(op.row)
    BY <1>6, <1>8, FoundFact DEF Visible
  <2>2. /\ op' = [op EXCEPT !.phase = "connect", !.printer = Found]
        /\ active' = IF op.activates THEN Found ELSE active
        /\ UNCHANGED <<printers, nextPrinter>>
    BY <1>8 DEF LinkPrinter
  <2>3. \A q \in PrinterIds : Visible(q)' /\ printers'[q].ssh = op.row => q = Found
    <3> SUFFICES ASSUME NEW q \in PrinterIds, Visible(q), printers[q].ssh = op.row PROVE q = Found
      BY <2>2 DEF Visible
    <3>1. q \in Linked(op.row)
      BY DEF Linked
    <3>2. printers[Found].ssh = op.row
      BY <2>1, <3>1 DEF Linked
    <3> QED BY <1>2, <1>6, <2>1, <3>2 DEF RowsOK
  <2>4. RowsOK'
    BY <1>1, <1>6, <2>2, SameRows
  <2>5. printers' \in [PrinterIds -> Printer \cup {NoRow}] /\ active' \in 0 .. PrinterBound
    BY <1>5, <1>6, <2>1, <2>2 DEF TypeOK
  <2>6. Done(Found)
    BY <1>4, <1>5, <2>1, <2>2, <2>3, <2>4, <2>5
  <2> HIDE DEF Done
  <2> QED BY <1>3, <2>6
<1>9. CASE op.printer = 0 /\ Found = 0
  <2>1. /\ printers' = [printers EXCEPT ![nextPrinter] = new]
        /\ nextPrinter' = nextPrinter + 1
        /\ op' = [op EXCEPT !.phase = "connect", !.printer = nextPrinter]
        /\ active' = IF op.activates THEN nextPrinter ELSE active
    BY <1>9 DEF LinkPrinter
  <2>2. new \in Printer /\ ~new.archived /\ new.host = None /\ new.ssh = op.row
    BY <1>2, OpFields, IdleType DEF Printer, Default
  <2> HIDE DEF new
  <2>3. /\ printers' \in [PrinterIds -> Printer \cup {NoRow}]
        /\ printers'[nextPrinter] = new
        /\ \A q \in PrinterIds \ {nextPrinter} :
             printers'[q] = printers[q] /\ (Visible(q)' <=> Visible(q))
    BY <1>2, <1>6, <2>1, <2>2, Added
  <2>4. \A q \in PrinterIds : Visible(q) => printers[q].ssh # op.row
    <3>1. Linked(op.row) = {}
      <4>1. 0 \notin Linked(op.row)
        BY Ids DEF Linked
      <4> QED BY <1>6, <1>9, <4>1, FoundFact
    <3> QED BY <3>1 DEF Linked
  <2>5. \A q \in PrinterIds : Visible(q)' /\ printers'[q].ssh = op.row => q = nextPrinter
    BY <2>3, <2>4
  <2>6. RowsOK'
    <3>1. \A p \in PrinterIds : (Visible(p) /\ printers[p].ssh # 0 => Exists(printers[p].ssh))'
      BY <1>1, <1>2, <1>6, <2>2, <2>3 DEF RowsOK, Exists
    <3>2. \A p \in PrinterIds : (Visible(p) /\ printers[p].host # None =>
                                   printers[p].ssh # 0 /\ printers[p].ref \in Refs)'
      BY <1>6, <2>2, <2>3 DEF RowsOK
    <3>3. \A p, q \in PrinterIds : (Visible(p) /\ Visible(q) /\ printers[p].ssh # 0
                                      /\ printers[p].ssh = printers[q].ssh => p = q)'
      BY <1>6, <2>2, <2>3, <2>5 DEF RowsOK
    <3> QED BY <3>1, <3>2, <3>3 DEF RowsOK
  <2>7. nextPrinter' \in 1 .. PrinterBound + 1 /\ active' \in 0 .. PrinterBound
        /\ nextPrinter \in 0 .. PrinterBound
    BY <1>2, <1>5, <2>1, BoundsAssumption DEF PrinterIds
  <2>8. Done(nextPrinter)
    BY <1>4, <2>1, <2>3, <2>5, <2>6, <2>7
  <2> HIDE DEF Done
  <2> QED BY <1>3, <2>8
<1> QED BY <1>7, <1>8, <1>9

LEMMA ConnectInv == ASSUME Inv, Connect PROVE Inv'
<1> DEFINE new == [printers[op.printer] EXCEPT !.host = op.host, !.ref = op.ref, !.ssh = op.row]
<1>1. /\ op.phase = "connect"
      /\ UNCHANGED <<nextPrinter, active, ssh, nextSsh, vault, available, fresh, saves>>
  BY DEF Connect
<1>2. /\ op \in Op /\ op.ref \in Refs /\ op.host \in Hosts
      /\ Exists(op.row) /\ op.row # 0 /\ op.row \in 0 .. SshBound
      /\ \A q \in PrinterIds : Visible(q) /\ printers[q].ssh = op.row => q = op.printer
  BY <1>1, OpFields, Ids DEF Inv, TypeOK, OpOK, FoundOK, Before, Exists
<1>3. /\ op' \in Op /\ op'.phase \in {"idle", "activate"} /\ op'.secret \in Secrets \cup {None}
  BY <1>2, IdleType, PhasesFact DEF Connect, Op
<1>4. RowsOK /\ TypeOK
  BY DEF Inv
<1>5. /\ printers' \in [PrinterIds -> Printer \cup {NoRow}] /\ RowsOK'
  <2>1. CASE ~Visible(op.printer)
    <3>1. printers' = printers
      BY <2>1 DEF Connect
    <3> QED BY <1>1, <1>4, <3>1, SameRows DEF TypeOK
  <2>2. CASE Visible(op.printer)
    <3>1. printers' = [printers EXCEPT ![op.printer] = new]
      BY <2>2 DEF Connect
    <3>2. op.printer \in PrinterIds /\ printers[op.printer] \in Printer
          /\ ~printers[op.printer].archived
      BY <1>4, <2>2, PrinterType DEF Visible
    <3>3. new \in Printer /\ ~new.archived /\ new.ssh = op.row /\ new.ref = op.ref
      BY <1>2, <3>2 DEF Printer
    <3> HIDE DEF new
    <3>4. /\ printers' \in [PrinterIds -> Printer \cup {NoRow}]
          /\ printers'[op.printer] = new
          /\ \A q \in PrinterIds \ {op.printer} :
               printers'[q] = printers[q] /\ (Visible(q)' <=> Visible(q))
      BY <1>4, <3>1, <3>2, <3>3, Added
    <3>5. \A p \in PrinterIds : (Visible(p) /\ printers[p].ssh # 0 => Exists(printers[p].ssh))'
      BY <1>1, <1>2, <1>4, <3>3, <3>4 DEF RowsOK, Exists
    <3>6. \A p \in PrinterIds : (Visible(p) /\ printers[p].host # None =>
                                   printers[p].ssh # 0 /\ printers[p].ref \in Refs)'
      BY <1>2, <1>4, <3>3, <3>4 DEF RowsOK
    <3>7. \A p, q \in PrinterIds : (Visible(p) /\ Visible(q) /\ printers[p].ssh # 0
                                      /\ printers[p].ssh = printers[q].ssh => p = q)'
      BY <1>2, <1>4, <3>3, <3>4 DEF RowsOK
    <3> QED BY <3>4, <3>5, <3>6, <3>7 DEF RowsOK
  <2> QED BY <2>1, <2>2
<1>6. TypeOK'
  BY <1>1, <1>3, <1>5 DEF Inv, TypeOK, vault
<1>7. OpOK' /\ FoundOK'
  BY <1>3 DEF OpOK, FoundOK, Before
<1>8. SecretsOK'
  BY <1>1, <1>3 DEF Inv, SecretsOK, Before, vault
<1> QED BY <1>5, <1>6, <1>7, <1>8 DEF Inv

\* The event loop is done, or was interrupted.
LEMMA IdleStep ==
  ASSUME Inv, op' = Idle, TypeOK', RowsOK',
         \A f \in Refs : /\ fallback'[f] \in fresh'[f] \cup {None}
                         /\ recorded'[f] = "keyring" => keyring'[f] \in fresh'[f] \cup {None}
  PROVE  Inv'
<1>1. op'.phase = "idle"
  BY IdleType
<1>2. OpOK' /\ FoundOK' /\ SecretsOK'
  BY <1>1 DEF OpOK, FoundOK, SecretsOK, Before
<1> QED BY <1>2 DEF Inv

LEMMA EndInv == ASSUME Inv, ActivateSaved \/ FailStep \/ Restart PROVE Inv'
<1>1. /\ op' = Idle
      /\ UNCHANGED <<printers, nextPrinter, ssh, nextSsh, vault, fresh, saves>>
  BY DEF ActivateSaved, FailStep, Restart, rows
<1>2. active' \in 0 .. PrinterBound
  BY OpFields DEF ActivateSaved, FailStep, Restart, rows, Inv, TypeOK
<1>3. available' \in BOOLEAN
  BY DEF ActivateSaved, FailStep, Restart, Inv, TypeOK
<1>4. TypeOK' /\ RowsOK'
  BY <1>1, <1>2, <1>3, IdleType, SameRows DEF Inv, TypeOK, vault
<1> QED BY <1>1, <1>4, IdleStep DEF Inv, SecretsOK, vault

-----------------------------------------------------------------------------
(***************************************************************************)
(* Deleting.                                                               *)
(***************************************************************************)
LEMMA StartDeleteInv == ASSUME Inv, NEW sel \in PrinterIds, StartDelete(sel) PROVE Inv'
<1> DEFINE linked == Linked(sel)
           p == IF linked # {} THEN Min(linked) ELSE sel
           phase == IF printers[p].ref = None THEN "archive"
                    ELSE IF available THEN "unkey" ELSE "unfallback"
<1>1. Visible(p)
  <2>1. linked \in SUBSET Nat /\ \A q \in linked : Visible(q)
    BY Ids DEF Linked
  <2>2. linked # {} => Min(linked) \in linked
    <3> HIDE DEF linked
    <3> QED BY <2>1, MinIn
  <2>3. Visible(sel)
    BY DEF StartDelete, Listed
  <2> QED BY <2>1, <2>2, <2>3
<1>2. /\ op' = [Idle EXCEPT !.phase = phase, !.sel = sel, !.printer = p,
                            !.row = printers[p].ssh, !.ref = printers[p].ref]
      /\ UNCHANGED <<rows, vault, available, fresh, saves>>
  BY DEF StartDelete
<1>3. /\ phase \in {"archive", "unkey", "unfallback"} /\ phase \in Phases
      /\ phase # "archive" => printers[p].ref # None
  BY PhasesFact
<1> HIDE DEF linked, p, phase
<1>4. /\ p \in PrinterIds /\ p \in 0 .. PrinterBound /\ sel \in 0 .. PrinterBound
      /\ printers[p].ref \in Refs \cup {None} /\ printers[p].ssh \in 0 .. SshBound
  BY <1>1, PrinterType, Ids DEF Inv
<1>5. /\ op' \in Op /\ op'.phase = phase /\ op'.printer = p /\ op'.row = printers[p].ssh
      /\ op'.ref = printers[p].ref
  BY <1>2, <1>3, <1>4, IdleType DEF Op
<1>6. TypeOK'
  BY <1>2, <1>5 DEF Inv, TypeOK, rows, vault
<1>7. OpOK'
  BY <1>3, <1>4, <1>5 DEF OpOK, Before
<1>8. RowsOK'
  BY <1>2, SameRows DEF Inv, rows
<1>9. FoundOK'
  BY <1>1, <1>2, <1>3, <1>5 DEF FoundOK, Before, Visible, rows
<1>10. SecretsOK'
  BY <1>2, <1>3, <1>5 DEF Inv, SecretsOK, Before, vault
<1> QED BY <1>6, <1>7, <1>8, <1>9, <1>10 DEF Inv

LEMMA DeleteSecretInv == ASSUME Inv, DeleteFromKeyring \/ DeleteFallback PROVE Inv'
<1>1. /\ op.phase \in {"unkey", "unfallback"} /\ op \in Op /\ op.ref \in Refs
      /\ UNCHANGED <<rows, recorded, available, fresh, saves>>
  BY DEF DeleteFromKeyring, DeleteFallback, Inv, TypeOK, OpOK
<1>2. op' \in Op /\ op'.phase \in {"unfallback", "archive"} /\ SameOp
  BY <1>1, GotoFact, PhasesFact DEF DeleteFromKeyring, DeleteFallback
<1>3. /\ keyring' \in [Refs -> Secrets \cup {None}]
      /\ \A f \in Refs : keyring'[f] \in {keyring[f], None}
  BY <1>1 DEF DeleteFromKeyring, DeleteFallback, Inv, TypeOK
<1>4. /\ fallback' \in [Refs -> Secrets \cup {None}]
      /\ \A f \in Refs : fallback'[f] \in {fallback[f], None}
  BY <1>1 DEF DeleteFromKeyring, DeleteFallback, Inv, TypeOK
<1>5. TypeOK'
  BY <1>1, <1>2, <1>3, <1>4 DEF Inv, TypeOK, rows
<1>6. OpOK'
  BY <1>1, <1>2 DEF OpOK, Before, SameOp
<1>7. RowsOK'
  BY <1>1, SameRows DEF Inv, rows
<1>8. FoundOK'
  <2>1. Visible(op.printer) /\ op.row = printers[op.printer].ssh
    BY <1>1 DEF Inv, FoundOK
  <2> QED BY <1>1, <1>2, <2>1 DEF FoundOK, Before, SameOp, Visible, rows
<1>9. SecretsOK'
  BY <1>1, <1>2, <1>3, <1>4 DEF Inv, SecretsOK, Before
<1> QED BY <1>5, <1>6, <1>7, <1>8, <1>9 DEF Inv

\* A row is archived or taken away, and the others stay.
LEMMA Hidden ==
  ASSUME RowsOK, NEW p \in PrinterIds, ssh' = ssh, ~Visible(p)',
         \A q \in PrinterIds \ {p} : printers'[q] = printers[q]
  PROVE  /\ RowsOK'
         /\ \A q \in PrinterIds : Visible(q)' => Visible(q) /\ printers'[q] = printers[q]
<1>1. \A q \in PrinterIds : Visible(q)' => q # p /\ Visible(q) /\ printers'[q] = printers[q]
  BY DEF Visible
<1>2. RowsOK'
  BY <1>1 DEF RowsOK, Exists
<1> QED BY <1>1, <1>2

LEMMA ArchiveInv == ASSUME Inv, Archive PROVE Inv'
<1>1. /\ op.phase = "archive" /\ op \in Op
      /\ UNCHANGED <<nextPrinter, ssh, nextSsh, vault, available, fresh, saves>>
  BY DEF Archive, Inv, TypeOK
<1>p. PICK p \in PrinterIds : p = op.printer
  BY <1>1, PrinterType DEF Inv, FoundOK
<1> DEFINE new == [printers[p] EXCEPT !.archived = TRUE]
<1>2. Visible(p) /\ printers[p] \in Printer /\ op.row = printers[p].ssh
  BY <1>p, <1>1, PrinterType DEF Inv, FoundOK
<1>3. printers' = [printers EXCEPT ![p] = new]
  BY <1>p, <1>2 DEF Archive, Visible
<1>4. new \in Printer /\ new.archived
  BY <1>2 DEF Printer
<1> HIDE DEF new
<1>5. /\ printers' \in [PrinterIds -> Printer \cup {NoRow}]
      /\ printers'[p] = new
      /\ \A q \in PrinterIds \ {p} : printers'[q] = printers[q]
  BY <1>2, <1>3, <1>4 DEF Inv, TypeOK
<1>6. /\ RowsOK'
      /\ \A q \in PrinterIds : Visible(q)' => Visible(q) /\ printers'[q] = printers[q]
  <2>1. ~Visible(p)'
    BY <1>4, <1>5 DEF Visible
  <2> QED BY <1>1, <1>2, <1>5, <2>1, Hidden DEF Inv
<1>7. active' \in 0 .. PrinterBound
  BY Ids DEF Archive, Inv, TypeOK
<1>8. CASE op.row = 0
  <2>1. op' = Idle
    BY <1>8 DEF Archive
  <2>2. TypeOK'
    BY <1>1, <1>5, <1>7, <2>1, IdleType DEF Inv, TypeOK, vault
  <2> QED BY <1>1, <1>6, <2>1, <2>2, IdleStep DEF Inv, SecretsOK, vault
<1>9. CASE op.row # 0
  <2>1. Goto("unlink")
    BY <1>9 DEF Archive, Goto
  <2>2. op' \in Op /\ op'.phase = "unlink" /\ SameOp
    BY <1>1, <2>1, GotoFact, PhasesFact
  <2>3. TypeOK'
    BY <1>1, <1>5, <1>7, <2>2 DEF Inv, TypeOK, vault
  <2>4. op.row \in SshIds
    BY <1>2, <1>9 DEF Inv, RowsOK, Exists
  <2>5. \A q \in PrinterIds : Visible(q)' => printers'[q].ssh # op.row
    <3> SUFFICES ASSUME NEW q \in PrinterIds, Visible(q)', printers'[q].ssh = op.row PROVE FALSE
      OBVIOUS
    <3>1. Visible(q) /\ printers[q].ssh = op.row
      BY <1>6
    <3>2. q = p
      BY <1>2, <1>9, <3>1 DEF Inv, RowsOK
    <3> QED BY <1>4, <1>5, <3>2 DEF Visible
  <2>6. OpOK' /\ FoundOK'
    BY <2>2, <2>4, <2>5 DEF OpOK, FoundOK, Before, SameOp
  <2>7. SecretsOK'
    BY <1>1, <2>2 DEF Inv, SecretsOK, Before, vault
  <2> QED BY <1>6, <2>3, <2>6, <2>7 DEF Inv
<1> QED BY <1>8, <1>9

LEMMA UnlinkSshInv == ASSUME Inv, UnlinkSsh PROVE Inv'
<1>1. /\ op.phase = "unlink" /\ op' = Idle
      /\ ssh' = [ssh EXCEPT ![op.row] = NoRow]
      /\ UNCHANGED <<printers, nextPrinter, active, nextSsh, keyring, fallback, available, fresh,
                     saves>>
  BY DEF UnlinkSsh
<1>2. op.row \in SshIds /\ \A q \in PrinterIds : Visible(q) => printers[q].ssh # op.row
  BY <1>1 DEF Inv, OpOK, FoundOK
<1>3. /\ ssh' \in [SshIds -> Ssh \cup {NoRow}]
      /\ \A r \in SshIds \ {op.row} : ssh'[r] = ssh[r]
  BY <1>1, <1>2 DEF Inv, TypeOK
<1>4. RowsOK'
  BY <1>1, <1>2, <1>3 DEF Inv, RowsOK, Visible, Exists
<1>5. /\ recorded' \in [Refs -> {"keyring", "fallback", "nowhere"}]
      /\ \A f \in Refs : recorded'[f] \in {recorded[f], "nowhere"}
  <2>1. CASE recorded' = recorded
    BY <2>1 DEF Inv, TypeOK
  <2>2. CASE Exists(op.row) /\ recorded' = [recorded EXCEPT ![ssh[op.row].ref] = "nowhere"]
    <3>1. ssh[op.row].ref \in Refs
      BY <2>2, SshType DEF Inv
    <3> QED BY <2>2, <3>1 DEF Inv, TypeOK
  <2> QED BY <2>1, <2>2 DEF UnlinkSsh
<1>6. TypeOK'
  BY <1>1, <1>3, <1>5, IdleType DEF Inv, TypeOK
<1>7. \A f \in Refs : /\ fallback'[f] \in fresh'[f] \cup {None}
                      /\ recorded'[f] = "keyring" => keyring'[f] \in fresh'[f] \cup {None}
  BY <1>1, <1>5 DEF Inv, SecretsOK
<1> QED BY <1>1, <1>4, <1>6, <1>7, IdleStep

-----------------------------------------------------------------------------
(***************************************************************************)
(* Single transactions, while nothing else goes on.                        *)
(***************************************************************************)
LEMMA QuietStep ==
  ASSUME Inv, op.phase = "idle", TypeOK', RowsOK', UNCHANGED <<vault, op, fresh>>
  PROVE  Inv'
<1>1. OpOK' /\ FoundOK'
  BY DEF OpOK, FoundOK, Before
<1>2. SecretsOK'
  BY DEF Inv, SecretsOK, Before, vault
<1> QED BY <1>1, <1>2 DEF Inv

LEMMA DeletePrinterInv == ASSUME Inv, NEW p \in PrinterIds, DeletePrinter(p) PROVE Inv'
<1>1. /\ op.phase = "idle" /\ printers' = [printers EXCEPT ![p] = NoRow]
      /\ UNCHANGED <<nextPrinter, ssh, nextSsh, vault, available, op, fresh, saves>>
  BY DEF DeletePrinter
<1>2. /\ printers' \in [PrinterIds -> Printer \cup {NoRow}]
      /\ printers'[p] = NoRow
      /\ \A q \in PrinterIds \ {p} : printers'[q] = printers[q]
  BY <1>1 DEF Inv, TypeOK
<1>3. active' \in 0 .. PrinterBound
  BY Ids DEF DeletePrinter, Inv, TypeOK
<1>4. TypeOK'
  BY <1>1, <1>2, <1>3 DEF Inv, TypeOK, vault
<1>5. ~Visible(p)'
  BY <1>2 DEF Visible
<1>6. RowsOK'
  BY <1>1, <1>2, <1>5, Hidden DEF Inv
<1> QED BY <1>1, <1>4, <1>6, QuietStep

\* A printer without a connection is added.
LEMMA NewPrinter ==
  ASSUME Inv, op.phase = "idle", NEW new \in Printer, new.host = None, new.ssh = 0, ~new.archived,
         nextPrinter \in PrinterIds,
         printers' = [printers EXCEPT ![nextPrinter] = new],
         nextPrinter' = nextPrinter + 1, active' = nextPrinter,
         UNCHANGED <<ssh, nextSsh, vault, available, op, fresh, saves>>
  PROVE  Inv'
<1>1. RowsOK /\ TypeOK
  BY DEF Inv
<1>2. /\ printers' \in [PrinterIds -> Printer \cup {NoRow}]
      /\ printers'[nextPrinter] = new
      /\ \A q \in PrinterIds \ {nextPrinter} :
           printers'[q] = printers[q] /\ (Visible(q)' <=> Visible(q))
  BY <1>1, Added
<1>3. nextPrinter' \in 1 .. PrinterBound + 1 /\ active' \in 0 .. PrinterBound
  BY BoundsAssumption DEF PrinterIds
<1>4. TypeOK'
  BY <1>1, <1>2, <1>3 DEF TypeOK, vault
<1>5. RowsOK'
  BY <1>1, <1>2 DEF RowsOK, Exists
<1> QED BY <1>4, <1>5, QuietStep

LEMMA CreateVirtualInv == ASSUME Inv, NEW name \in Names, CreateVirtual(name) PROVE Inv'
<1> DEFINE new == [Default EXCEPT !.name = name, !.virtual = TRUE]
<1>1. new \in Printer /\ new.host = None /\ new.ssh = 0 /\ ~new.archived
  BY IdleType DEF Printer, Default
<1>2. /\ op.phase = "idle" /\ nextPrinter \in PrinterIds
      /\ printers' = [printers EXCEPT ![nextPrinter] = new]
      /\ nextPrinter' = nextPrinter + 1 /\ active' = nextPrinter
      /\ UNCHANGED <<ssh, nextSsh, vault, available, op, fresh, saves>>
  BY DEF CreateVirtual
<1> HIDE DEF new
<1> QED BY <1>1, <1>2, NewPrinter

\* Only the active printer changes.
LEMMA OnlyActive ==
  ASSUME Inv, op.phase = "idle", active' \in 0 .. PrinterBound,
         UNCHANGED <<printers, nextPrinter, ssh, nextSsh, vault, available, op, fresh, saves>>
  PROVE  Inv'
<1>1. TypeOK' /\ RowsOK'
  BY SameRows DEF Inv, TypeOK, vault
<1> QED BY <1>1, QuietStep

LEMMA ActivateInv == ASSUME Inv, NEW p \in PrinterIds, Activate(p) PROVE Inv'
BY OnlyActive, Ids DEF Activate

LEMMA OpenTabInv == ASSUME Inv, OpenTab PROVE Inv'
<1> DEFINE visible == {p \in PrinterIds : Visible(p)}
<1>1. op.phase = "idle" /\ UNCHANGED <<ssh, nextSsh, vault, available, op, fresh, saves>>
  BY DEF OpenTab
<1>2. CASE visible # {} /\ active' = Min(visible) /\ UNCHANGED <<printers, nextPrinter>>
  <2>1. visible \in SUBSET Nat /\ visible \subseteq PrinterIds
    BY Ids
  <2> HIDE DEF visible
  <2>2. active' \in visible
    BY <1>2, <2>1, MinIn
  <2>3. active' \in 0 .. PrinterBound
    BY <2>1, <2>2, Ids
  <2> QED BY <1>1, <1>2, <2>3, OnlyActive
<1>3. CASE /\ nextPrinter \in PrinterIds
           /\ printers' = [printers EXCEPT ![nextPrinter] = Default]
           /\ nextPrinter' = nextPrinter + 1 /\ active' = nextPrinter
  <2>1. Default \in Printer /\ Default.host = None /\ Default.ssh = 0 /\ ~Default.archived
    BY IdleType DEF Default
  <2> QED BY <1>1, <1>3, <2>1, NewPrinter
<1> QED BY <1>2, <1>3 DEF OpenTab

-----------------------------------------------------------------------------
LEMMA InitInv == Init => Inv
<1> SUFFICES ASSUME Init PROVE Inv
  OBVIOUS
<1>1. op.phase = "idle" /\ op \in Op
  BY IdleType DEF Init
<1>2. 1 \in 0 .. PrinterBound /\ 2 \in 1 .. PrinterBound + 1 /\ 1 \in 1 .. SshBound + 1
      /\ 0 \in 0 .. SaveBound
  BY BoundsAssumption
<1>3. printers \in [PrinterIds -> Printer \cup {NoRow}]
  BY IdleType DEF Init
<1>4. TypeOK
  BY <1>1, <1>2, <1>3 DEF Init, TypeOK
<1>5. RowsOK
  <2>1. \A p \in PrinterIds : Visible(p) => p = 1 /\ printers[p] = Default
    BY DEF Init, Visible
  <2>2. Default.host = None /\ Default.ssh = 0
    BY DEF Default
  <2> QED BY <2>1, <2>2 DEF RowsOK
<1>6. OpOK /\ FoundOK
  BY <1>1 DEF OpOK, FoundOK, Before
<1>7. SecretsOK
  BY <1>1 DEF Init, SecretsOK, Before
<1> QED BY <1>4, <1>5, <1>6, <1>7 DEF Inv

LEMMA NextInv == Inv /\ [Next]_vars => Inv'
<1> SUFFICES ASSUME Inv, [Next]_vars PROVE Inv'
  OBVIOUS
<1>1. CASE UNCHANGED vars
  <2>1. TypeOK'
    BY <1>1 DEF Inv, TypeOK, vars, rows, vault
  <2>2. OpOK' /\ FoundOK'
    BY <1>1 DEF Inv, OpOK, FoundOK, Visible, Exists, vars, rows, vault
  <2>3. RowsOK' /\ SecretsOK'
    BY <1>1, SameRows DEF Inv, SecretsOK, vars, rows, vault
  <2> QED BY <2>1, <2>2, <2>3 DEF Inv
<1>2. ASSUME NEW sel \in 0 .. PrinterBound, NEW name \in Names, NEW host \in Hosts,
             NEW mode \in Modes, NEW secret \in Secrets \cup {None}, NEW activates \in BOOLEAN,
             StartSave(sel, name, host, mode, secret, activates)
      PROVE  Inv'
  BY <1>2, StartSaveInv
<1>3. CASE WriteKeyring \/ RecordKeyring \/ ClearFallback \/ RecordFallback \/ WriteFallback
  BY <1>3, WriteKeyringInv, RecordKeyringInv, ClearFallbackInv, RecordFallbackInv, WriteFallbackInv
<1>4. CASE UpsertSsh \/ LinkPrinter \/ Connect \/ ActivateSaved \/ FailStep \/ Restart
  BY <1>4, UpsertSshInv, LinkPrinterInv, ConnectInv, EndInv
<1>5. ASSUME NEW p \in PrinterIds, StartDelete(p) \/ DeletePrinter(p) \/ Activate(p)
      PROVE  Inv'
  BY <1>5, StartDeleteInv, DeletePrinterInv, ActivateInv
<1>6. CASE DeleteFromKeyring \/ DeleteFallback \/ Archive \/ UnlinkSsh \/ OpenTab
  BY <1>6, DeleteSecretInv, ArchiveInv, UnlinkSshInv, OpenTabInv
<1>7. ASSUME NEW name \in Names, CreateVirtual(name) PROVE Inv'
  BY <1>7, CreateVirtualInv
<1> QED BY <1>1, <1>2, <1>3, <1>4, <1>5, <1>6, <1>7 DEF Next

LEMMA InvCorrect == Spec => []Inv
BY InitInv, NextInv, PTL DEF Spec

-----------------------------------------------------------------------------
\* Rows, secrets and the operation in progress keep their types; in particular no
\* step uses a row that is not there.
THEOREM TypeCorrect == Spec => []TypeOK
<1>1. Inv => TypeOK
  BY DEF Inv
<1> QED BY <1>1, InvCorrect, PTL

\* Wherever a save or a deletion fails or the process ends, with or without a
\* keyring, a secret that has been replaced is never read again.
THEOREM NothingStale == Spec => []NoStaleSecret
<1>1. Inv => NoStaleSecret
  BY DEF Inv, SecretsOK, NoStaleSecret, GetSecret
<1> QED BY <1>1, InvCorrect, PTL

\* Every printer that is shown with a connection has an SSH profile, and no other
\* shown printer has the same.
THEOREM CopiesBelongTogether == Spec => []LinksExact
<1>1. Inv => LinksExact
  <2> SUFFICES ASSUME Inv, NEW p \in Listed
               PROVE  /\ Exists(printers[p].ssh)
                      /\ \A q \in Listed \ {p} : printers[q].ssh # printers[p].ssh
    BY DEF LinksExact
  <2>1. p \in PrinterIds /\ Visible(p) /\ printers[p].ssh # 0 /\ Exists(printers[p].ssh)
    BY DEF Listed, Inv, RowsOK
  <2>2. \A q \in Listed \ {p} : printers[q].ssh # printers[p].ssh
    BY <2>1 DEF Listed, Inv, RowsOK
  <2> QED BY <2>1, <2>2
<1> QED BY <1>1, InvCorrect, PTL

\* The step that ends a save leaves a printer that can be reached, by both copies of
\* its connection and with the secret just entered.
THEOREM SavesCount == Spec => SaveTakesEffect
<1> DEFINE Takes == (op.phase = "connect" /\ Connect /\ Visible(op.printer)) =>
                      LET row == printers'[op.printer]
                      IN  /\ ssh[row.ssh] # NoRow
                          /\ ssh[row.ssh].host = row.host /\ ssh[row.ssh].ref = row.ref
                          /\ op.secret # None => GetSecret(row.ref, TRUE) = op.secret
<1>1. Inv => Takes
  <2> SUFFICES ASSUME Inv, op.phase = "connect", Connect, Visible(op.printer)
               PROVE  LET row == printers'[op.printer]
                      IN  /\ ssh[row.ssh] # NoRow
                          /\ ssh[row.ssh].host = row.host /\ ssh[row.ssh].ref = row.ref
                          /\ op.secret # None => GetSecret(row.ref, TRUE) = op.secret
    OBVIOUS
  <2> DEFINE new == [printers[op.printer] EXCEPT !.host = op.host, !.ref = op.ref,
                                                 !.ssh = op.row]
  <2>1. printers[op.printer] \in Printer /\ op.printer \in PrinterIds
    BY PrinterType DEF Inv
  <2>2. new.host = op.host /\ new.ref = op.ref /\ new.ssh = op.row
    BY <2>1 DEF Printer
  <2>3. printers' = [printers EXCEPT ![op.printer] = new]
    BY DEF Connect
  <2> HIDE DEF new
  <2>4. printers'[op.printer] = new
    BY <2>1, <2>3 DEF Inv, TypeOK
  <2>5. ssh[op.row] # NoRow /\ ssh[op.row].host = op.host /\ ssh[op.row].ref = op.ref
    BY DEF Inv, FoundOK, Exists
  <2>6. op.secret # None => GetSecret(op.ref, TRUE) = op.secret
    BY DEF Inv, SecretsOK, GetSecret
  <2> QED BY <2>2, <2>4, <2>5, <2>6
<1>2. Inv /\ [Next]_vars => [Takes]_vars
  BY <1>1
<1> QED BY <1>2, InvCorrect, PTL DEF Spec, SaveTakesEffect
=============================================================================
