------------------------- MODULE RemoteSync_proofs --------------------------
(***************************************************************************)
(* Proofs about RemoteSync: its types; that printer.cfg is only written by *)
(* a restore; when checksums can be trusted; and what a save has sent.     *)
(***************************************************************************)
EXTENDS RemoteSync, TLAPS

-----------------------------------------------------------------------------
(***************************************************************************)
(* Types.                                                                  *)
(***************************************************************************)

LEMMA NothingType == Nothing \in Tree
  BY DEF Nothing, Tree

LEMMA LoadedType ==
  ASSUME TypeOK, NEW s \in Sessions
  PROVE  Loaded(s) \in Tree
  BY DEF TypeOK, Loaded, Session

LEMMA IdleTypes ==
  ASSUME NEW p \in Profiles
  PROVE  /\ NewSession(p) \in Session
         /\ IdleSync(p) \in Sync
         /\ IdleSave(p) \in Save
<1>1. NewSession(p) \in Session
  BY NothingType, StatusesAssumption DEF NewSession, Session
<1>2. IdleSync(p) \in Sync
  BY NothingType DEF IdleSync, Sync
<1>3. IdleSave(p) \in Save
  BY DEF IdleSave, Save
<1> QED  BY <1>1, <1>2, <1>3

LEMMA TouchType ==
  ASSUME TypeOK, NEW F \in SUBSET Files, NEW S \in SUBSET Sessions, Touch(F, S)
  PROVE  touched' \subseteq Sessions \X Files
  BY DEF TypeOK, Touch

LEMMA InitType == Init => TypeOK
  BY IdleTypes, NothingType, EditBoundAssumption, StatusesAssumption DEF Init, TypeOK

LEMMA EditType == ASSUME TypeOK, Edit PROVE edits' \in 0 .. EditBound
  BY EditBoundAssumption DEF TypeOK, Edit

LEMMA OutsideType ==
  ASSUME TypeOK, Outside
  PROVE  TypeOK'
<1>1. ASSUME NEW p \in Profiles, ChangeStatus(p) PROVE TypeOK'
  BY <1>1 DEF ChangeStatus, TypeOK
<1>2. ASSUME NEW p \in Profiles, NEW f \in Files, EditRemote(p, f) PROVE TypeOK'
  <2>1. remote' \in [Profiles -> Tree]
    BY <1>2 DEF EditRemote, TypeOK, Tree
  <2>2. touched' \subseteq Sessions \X Files
    BY <1>2, TouchType DEF EditRemote
  <2>3. edits' \in 0 .. EditBound
    BY <1>2, EditType DEF EditRemote
  <2> QED  BY <1>2, <2>1, <2>2, <2>3 DEF EditRemote, TypeOK
<1>3. ASSUME Restart PROVE TypeOK'
  <2>1. ses' \in [Sessions -> Session] /\ syncing' \in [Sessions -> Sync]
          /\ saving' \in [Sessions -> Save]
    BY <1>3, IdleTypes DEF Restart, TypeOK
  <2> QED  BY <1>3, <2>1 DEF Restart, TypeOK, printers
<1> QED  BY <1>1, <1>2, <1>3 DEF Outside

\* What a new download and a new upload of session s leave behind.
LEMMA BeginSyncType ==
  ASSUME TypeOK, NEW s \in Sessions, NEW p \in Profiles, NEW q \in Profiles,
         BeginSync(s, p, q)
  PROVE  syncing' \in [Sessions -> Sync]
<1>1. IdleSync(p) \in Sync
  BY IdleTypes
<1>2. [IdleSync(p) EXCEPT !.phase = "download", !.target = q,
                          !.todo = Listing(remote[p])] \in Sync
  BY <1>1 DEF Sync, Listing
<1> QED  BY <1>2 DEF BeginSync, TypeOK

LEMMA BeginSaveType ==
  ASSUME TypeOK, NEW s \in Sessions, NEW tree \in Tree, NEW forced \in BOOLEAN,
         BeginSave(s, tree, forced)
  PROVE  /\ saving' \in [Sessions -> Save]
         /\ ses' \in [Sessions -> Session]
<1>1. IdleSave(active) \in Save
  BY IdleTypes DEF TypeOK
<1>2. [IdleSave(active) EXCEPT !.phase = "push", !.todo = Listing(tree),
                               !.local = Listing(tree), !.forced = forced] \in Save
  BY <1>1 DEF Save, Listing
<1>3. Loaded(s) \in Tree
  BY LoadedType
<1>4. ses' \in [Sessions -> Session]
  BY ZenonT(30), <1>3 DEF BeginSave, TypeOK, Session
<1> QED  BY <1>2, <1>4 DEF BeginSave, TypeOK

LEMMA UserType ==
  ASSUME TypeOK, NEW s \in Sessions, User(s) \/ Poll(s)
  PROVE  TypeOK'
<1>1. Loaded(s) \in Tree
  BY LoadedType
<1>2. active \in Profiles /\ ses[s].mine \in Profiles
  BY DEF TypeOK, Session
<1>3. CASE StartSync(s)
  <2>1. syncing' \in [Sessions -> Sync]
    BY <1>2, <1>3, BeginSyncType DEF StartSync
  <2>2. ses' \in [Sessions -> Session]
    BY <1>1, <1>3 DEF StartSync, TypeOK, Session
  <2> QED  BY <1>3, <2>1, <2>2 DEF StartSync, TypeOK, printers
<1>4. CASE StartSave(s)
  <2>1. mirror[ses[s].mine] \in Tree
    BY <1>2 DEF TypeOK
  <2>2. saving' \in [Sessions -> Save] /\ ses' \in [Sessions -> Session]
    BY <1>4, <2>1, BeginSaveType DEF StartSave
  <2>3. touched' \subseteq Sessions \X Files
    BY <1>4 DEF StartSave, TypeOK
  <2> QED  BY <1>4, <2>2, <2>3 DEF StartSave, TypeOK, printers
<1>5. CASE RestoreTree(s)
  <2>1. PICK tree \in Tree :
          /\ mirror' = [mirror EXCEPT ![ses[s].mine] = tree]
          /\ \/ BeginSave(s, tree, TRUE)
             \/ /\ ses' = [ses EXCEPT ![s].pending = TRUE]
                /\ UNCHANGED saving
    BY <1>5 DEF RestoreTree
  <2>2. mirror' \in [Profiles -> Tree]
    BY <2>1 DEF TypeOK
  <2>3. saving' \in [Sessions -> Save] /\ ses' \in [Sessions -> Session]
    <3>1. CASE BeginSave(s, tree, TRUE)
      BY <3>1, BeginSaveType
    <3>2. CASE ses' = [ses EXCEPT ![s].pending = TRUE] /\ UNCHANGED saving
      BY <3>2 DEF TypeOK, Session
    <3> QED  BY <2>1, <3>1, <3>2
  <2>4. touched' \subseteq Sessions \X Files
    BY <1>5 DEF RestoreTree, TypeOK
  <2>5. edits' \in 0 .. EditBound
    BY <1>5, EditType DEF RestoreTree
  <2> QED  BY <1>5, <2>2, <2>3, <2>4, <2>5 DEF RestoreTree, TypeOK, printers
<1>6. ASSUME NEW p \in Profiles, Switch(s, p) PROVE TypeOK'
  <2>1. Cleaned(s, p) \in Session /\ [Cleaned(s, p) EXCEPT !.modal = FALSE] \in Session
    BY NothingType DEF Cleaned, TypeOK, Session
  <2>2. ses' \in [Sessions -> Session]
    BY <1>6, <2>1 DEF Switch, TypeOK
  <2>3. syncing' \in [Sessions -> Sync]
    BY <1>6, BeginSyncType DEF Switch, TypeOK
  <2> QED  BY <1>6, <2>2, <2>3 DEF Switch, TypeOK, printers
<1>7. ASSUME NEW f \in Files, EditMirror(s, f) PROVE TypeOK'
  <2>1. PICK t \in Texts, u \in Texts, F \in SUBSET Protected :
          /\ mirror' = [mirror EXCEPT ![ses[s].mine] =
               [g \in Files |-> IF g = f THEN t ELSE IF g \in F THEN u ELSE @[g]]]
          /\ Touch({f} \cup F, Sessions)
    BY <1>7 DEF EditMirror
  <2>2. mirror' \in [Profiles -> Tree]
    BY <1>2, <2>1 DEF TypeOK, Tree
  <2>3. touched' \subseteq Sessions \X Files
    BY <2>1, TouchType, FilesAssumption
  <2>4. ses' \in [Sessions -> Session]
    <3>1. ses' = [ses EXCEPT ![s].pending = TRUE, ![s].expected = Loaded(s)]
      BY <1>7 DEF EditMirror
    <3>2. ses[s] \in Session
      BY DEF TypeOK
    <3>3. [ses[s] EXCEPT !.pending = TRUE, !.expected = Loaded(s)] \in Session
      BY <1>1, <3>2 DEF Session
    <3> QED  BY <3>1, <3>3 DEF TypeOK
  <2>5. edits' \in 0 .. EditBound
    BY <1>7, EditType DEF EditMirror
  <2> QED  BY <1>7, <2>2, <2>3, <2>4, <2>5 DEF EditMirror, TypeOK, printers
<1>8. CASE Poll(s)
  <2>1. ses' \in [Sessions -> Session]
    <3>1. status[active] \in Statuses
      BY <1>2 DEF TypeOK
    <3>2. ses[s] \in Session
      BY DEF TypeOK
    <3> DEFINE now == status[active]
    <3>3. /\ [ses[s] EXCEPT !.polled = now] \in Session
          /\ [ses[s] EXCEPT !.polled = now, !.modal = TRUE,
                            !.expected = Loaded(s)] \in Session
      BY <1>1, <3>1, <3>2 DEF Session
    <3>4. \/ ses' = [ses EXCEPT ![s].polled = now]
          \/ ses' = [ses EXCEPT ![s].polled = now, ![s].modal = TRUE,
                                ![s].expected = Loaded(s)]
      BY <1>8 DEF Poll
    <3> QED  BY <3>3, <3>4 DEF TypeOK
  <2>2. syncing' \in [Sessions -> Sync]
    BY <1>2, <1>8, BeginSyncType DEF Poll, TypeOK
  <2> QED  BY <1>8, <2>1, <2>2 DEF Poll, TypeOK, printers
<1> QED  BY <1>3, <1>4, <1>5, <1>6, <1>7, <1>8 DEF User

LEMMA SyncType ==
  ASSUME TypeOK, NEW s \in Sessions, SyncStep(s) \/ FailSync(s)
  PROVE  TypeOK'
<1>1. syncing[s] \in Sync /\ syncing[s].source \in Profiles
        /\ syncing[s].target \in Profiles /\ syncing[s].got \in Tree
  BY DEF TypeOK, Sync
<1>2. IdleSync(syncing[s].source) \in Sync
  BY <1>1, IdleTypes
<1>3. CASE DownloadNext(s)
  <2> DEFINE p == syncing[s].source
  <2>1. PICK f \in Files :
          /\ remote[p][f] # Absent
          /\ mirror' = [mirror EXCEPT ![syncing[s].target][f] = remote[p][f]]
          /\ syncing' = [syncing EXCEPT ![s].todo = @ \ {f}, ![s].got[f] = remote[p][f]]
          /\ Exchange(p, f, remote[p][f])
          /\ Touch({f}, Sessions)
    BY <1>1, <1>3 DEF DownloadNext, Foremost, Readable, Sync
  <2>2. remote[p][f] \in Texts
    BY <1>1, <2>1 DEF TypeOK, Tree
  <2>3. mirror' \in [Profiles -> Tree]
    BY <1>1, <2>1, <2>2 DEF TypeOK, Tree
  <2>4. syncing' \in [Sessions -> Sync]
    <3>1. [syncing[s].got EXCEPT ![f] = remote[p][f]] \in Tree
      BY <1>1, <2>2 DEF Tree
    <3>2. [syncing[s] EXCEPT !.todo = @ \ {f},
                             !.got = [syncing[s].got EXCEPT ![f] = remote[p][f]]] \in Sync
      BY <1>1, <3>1 DEF Sync
    <3> QED  BY <2>1, <3>2 DEF TypeOK
  <2>5. exchanged' \in [Profiles -> [Files -> SUBSET Texts]]
    BY <1>1, <2>1, <2>2 DEF Exchange, TypeOK
  <2>6. touched' \subseteq Sessions \X Files
    BY <2>1, TouchType
  <2> QED  BY <1>3, <2>3, <2>4, <2>5, <2>6 DEF DownloadNext, TypeOK
<1>4. CASE PruneMirror(s)
  <2>1. mirror' \in [Profiles -> Tree]
    BY <1>1, <1>4 DEF PruneMirror, TypeOK, Tree
  <2>2. syncing' \in [Sessions -> Sync]
    BY <1>1, <1>4 DEF PruneMirror, TypeOK, Sync
  <2>3. touched' \subseteq Sessions \X Files
    BY <1>4, TouchType DEF PruneMirror
  <2> QED  BY <1>4, <2>1, <2>2, <2>3 DEF PruneMirror, TypeOK, printers
<1>5. CASE CommitSync(s)
  <2>1. ses' \in [Sessions -> Session]
    BY <1>1, <1>5 DEF CommitSync, TypeOK, Session
  <2>2. snapshot' \in [Profiles -> Tree]
    BY <1>1, <1>5 DEF CommitSync, Persist, TypeOK
  <2>3. syncing' \in [Sessions -> Sync]
    BY <1>2, <1>5 DEF CommitSync, TypeOK
  <2> QED  BY <1>5, <2>1, <2>2, <2>3 DEF CommitSync, TypeOK, printers
<1>6. CASE FailSync(s)
  <2>1. ses' \in [Sessions -> Session]
    BY <1>6 DEF FailSync, TypeOK, Session
  <2>2. syncing' \in [Sessions -> Sync]
    BY <1>2, <1>6 DEF FailSync, TypeOK
  <2> QED  BY <1>6, <2>1, <2>2 DEF FailSync, TypeOK, printers
<1> QED  BY <1>3, <1>4, <1>5, <1>6 DEF SyncStep

-----------------------------------------------------------------------------
(***************************************************************************)
(* The saves: a text that is about to be written exists and belongs to a   *)
(* file that is not left out, and nothing protected is to be removed.      *)
(***************************************************************************)
SaveOK == \A s \in Sessions :
            /\ saving[s].phase = "write"
                 => /\ saving[s].payload \in Texts
                    /\ \A f \in Foremost(saving[s].todo) : ~Skipped(s, f)
            /\ saving[s].phase \in {"prune", "remove"} => saving[s].todo \cap Protected = {}

LEMMA ForemostIsOne ==
  ASSUME NEW F \in SUBSET Files, NEW f \in Foremost(F), NEW g \in Foremost(F)
  PROVE  f = g
<1>1. /\ f \in Files /\ g \in Files
      /\ Rank[f] <= Rank[g] /\ Rank[g] <= Rank[f]
  BY DEF Foremost
<1>2. Rank[f] \in Nat /\ Rank[g] \in Nat
  BY <1>1, FilesAssumption
<1>3. Rank[f] = Rank[g]
  BY <1>1, <1>2
<1> QED  BY <1>1, <1>3, FilesAssumption

LEMMA SessionFacts ==
  ASSUME TypeOK, NEW s \in Sessions
  PROVE  /\ ses[s] \in Session /\ ses[s].mine \in Profiles /\ ses[s].expected \in Tree
         /\ saving[s] \in Save /\ saving[s].source \in Profiles
         /\ saving[s].dest \in Profiles /\ saving[s].todo \subseteq Files
         /\ active \in Profiles /\ Loaded(s) \in Tree
         /\ IdleSave(saving[s].source) \in Save
<1>1. saving[s] \in Save /\ saving[s].source \in Profiles
        /\ saving[s].dest \in Profiles /\ saving[s].todo \subseteq Files
  BY DEF TypeOK, Save
<1>2. ses[s] \in Session /\ ses[s].mine \in Profiles /\ ses[s].expected \in Tree
  BY DEF TypeOK, Session
<1>3. IdleSave(saving[s].source) \in Save
  BY <1>1, IdleTypes
<1>4. active \in Profiles /\ Loaded(s) \in Tree
  BY LoadedType DEF TypeOK
<1> QED  BY <1>1, <1>2, <1>3, <1>4

LEMMA UploadType ==
  ASSUME TypeOK, SaveOK, NEW s \in Sessions, saving[s].phase = "write",
         NEW f \in Files, Upload(s, f) \/ TornUpload(s, f)
  PROVE  /\ remote' \in [Profiles -> Tree]
         /\ exchanged' \in [Profiles -> [Files -> SUBSET Texts]]
         /\ touched' \subseteq Sessions \X Files
<1>1. saving[s].payload \in Texts /\ saving[s].dest \in Profiles
  BY SessionFacts DEF SaveOK
<1>2. remote' \in [Profiles -> Tree]
  <2>1. PICK t \in Texts : remote' = [remote EXCEPT ![saving[s].dest][f] = t]
    BY <1>1 DEF Upload, TornUpload
  <2>2. [remote[saving[s].dest] EXCEPT ![f] = t] \in Tree
    BY <1>1 DEF TypeOK, Tree
  <2> QED  BY <1>1, <2>1, <2>2 DEF TypeOK
<1>3. exchanged' \in [Profiles -> [Files -> SUBSET Texts]]
  <2>1. CASE Upload(s, f)
    BY <1>1, <2>1 DEF Upload, Exchange, TypeOK
  <2>2. CASE TornUpload(s, f)
    BY <2>2 DEF TornUpload, TypeOK
  <2> QED  BY <2>1, <2>2
<1>4. touched' \subseteq Sessions \X Files
  BY TouchType DEF Upload, TornUpload
<1> QED  BY <1>2, <1>3, <1>4

LEMMA RefusedType ==
  ASSUME TypeOK, NEW s \in Sessions, NEW known \in Tree, NEW p \in Profiles,
         Refused(s, known, p)
  PROVE  saving' \in [Sessions -> Save] /\ ses' \in [Sessions -> Session]
<1>1. saving' \in [Sessions -> Save]
  <2>1. saving[s] \in Save
    BY DEF TypeOK
  <2>2. [saving[s] EXCEPT !.phase = "refused", !.dest = p] \in Save
    BY <2>1 DEF Save
  <2> QED  BY <2>2 DEF Refused, TypeOK
<1>2. ses' \in [Sessions -> Session]
  BY DEF Refused, TypeOK, Session
<1> QED  BY <1>1, <1>2

LEMMA EndedType ==
  ASSUME TypeOK, NEW s \in Sessions, Saved(s) \/ Failed(s)
  PROVE  /\ saving' \in [Sessions -> Save] /\ ses' \in [Sessions -> Session]
         /\ Saved(s) => snapshot' \in [Profiles -> Tree]
<1>1. saving' \in [Sessions -> Save]
  <2>1. saving' = [saving EXCEPT ![s] = IdleSave(saving[s].source)]
    BY DEF Saved, Failed, TypeOK
  <2>2. IdleSave(saving[s].source) \in Save
    BY SessionFacts
  <2> QED  BY <2>1, <2>2 DEF TypeOK
<1>2. ses' \in [Sessions -> Session]
  <2>1. ses[s] \in Session
    BY DEF TypeOK
  <2>2. /\ [ses[s] EXCEPT !.modal = FALSE] \in Session
        /\ [ses[s] EXCEPT !.pending = FALSE, !.modal = FALSE] \in Session
    BY <2>1 DEF Session
  <2>3. \/ ses' = [ses EXCEPT ![s].modal = FALSE]
        \/ ses' = [ses EXCEPT ![s].pending = FALSE, ![s].modal = FALSE]
    BY DEF Saved, Failed
  <2> QED  BY <2>2, <2>3 DEF TypeOK
<1>3. ASSUME Saved(s) PROVE snapshot' \in [Profiles -> Tree]
  BY <1>3, SessionFacts DEF Saved, Persist, TypeOK
<1> QED  BY <1>1, <1>2, <1>3

LEMMA SaveType ==
  ASSUME TypeOK, SaveOK, NEW s \in Sessions, SaveStep(s) \/ FailSave(s) \/ FailWrite(s)
  PROVE  TypeOK'
<1>0. /\ ses[s] \in Session /\ ses[s].mine \in Profiles /\ ses[s].expected \in Tree
      /\ saving[s] \in Save /\ saving[s].source \in Profiles
      /\ saving[s].dest \in Profiles /\ saving[s].todo \subseteq Files
      /\ active \in Profiles /\ Loaded(s) \in Tree
  BY SessionFacts
<1>1. CASE SkipProtected(s)
  <2>1. saving' \in [Sessions -> Save]
    <3>1. PICK f \in Files : saving' = [saving EXCEPT ![s].todo = @ \ {f}]
      BY <1>0, <1>1 DEF SkipProtected, Foremost
    <3>2. [saving[s] EXCEPT !.todo = @ \ {f}] \in Save
      BY <1>0 DEF Save
    <3> QED  BY <3>1, <3>2 DEF TypeOK
  <2> QED  BY <1>1, <2>1 DEF SkipProtected, TypeOK, printers
<1>2. CASE CheckPush(s)
  <2>1. PICK f \in Foremost(saving[s].todo) :
          /\ mirror[ses[s].mine][f] # Absent
          /\ \/ /\ saving' = [saving EXCEPT ![s].phase = "write", ![s].dest = active,
                                ![s].payload = mirror[ses[s].mine][f]]
                /\ ses' = [ses EXCEPT ![s].expected = Loaded(s)]
             \/ Refused(s, Loaded(s), active)
    BY <1>2 DEF CheckPush
  <2>2. mirror[ses[s].mine][f] \in Texts \cup {Absent}
    BY <1>0, <2>1 DEF TypeOK, Tree, Foremost
  <2>3. saving' \in [Sessions -> Save] /\ ses' \in [Sessions -> Session]
    <3>1. CASE Refused(s, Loaded(s), active)
      BY <1>0, <3>1, RefusedType
    <3>2. CASE /\ saving' = [saving EXCEPT ![s].phase = "write", ![s].dest = active,
                               ![s].payload = mirror[ses[s].mine][f]]
               /\ ses' = [ses EXCEPT ![s].expected = Loaded(s)]
      <4>1. saving' \in [Sessions -> Save]
        BY <1>0, <2>2, <3>2 DEF TypeOK, Save
      <4>2. ses' \in [Sessions -> Session]
        BY <1>0, <3>2 DEF TypeOK, Session
      <4> QED  BY <4>1, <4>2
    <3> QED  BY <2>1, <3>1, <3>2
  <2> QED  BY <1>2, <2>3 DEF CheckPush, TypeOK, printers
<1>3. CASE WriteNext(s)
  <2>1. PICK f \in Foremost(saving[s].todo) :
          LET known == [ses[s].expected EXCEPT ![f] = saving[s].payload]
          IN  /\ Upload(s, f)
              /\ ses' = [ses EXCEPT ![s].expected = known]
              /\ Persist(s, known)
              /\ saving' = [saving EXCEPT ![s].phase = "push", ![s].todo = @ \ {f},
                                          ![s].uploaded = TRUE]
    BY <1>3 DEF WriteNext
  <2> DEFINE known == [ses[s].expected EXCEPT ![f] = saving[s].payload]
  <2>2. f \in Files /\ saving[s].phase = "write"
    BY <1>0, <1>3 DEF Foremost, WriteNext
  <2>3. known \in Tree
    BY <1>0, <2>2 DEF SaveOK, Tree
  <2>4. saving' \in [Sessions -> Save]
    BY <1>0, <2>1 DEF TypeOK, Save
  <2>5. ses' \in [Sessions -> Session]
    BY <1>0, <2>1, <2>3 DEF TypeOK, Session
  <2>6. snapshot' \in [Profiles -> Tree]
    BY <1>0, <2>1, <2>3 DEF TypeOK, Persist
  <2>7. /\ remote' \in [Profiles -> Tree]
        /\ exchanged' \in [Profiles -> [Files -> SUBSET Texts]]
        /\ touched' \subseteq Sessions \X Files
    BY <2>1, <2>2, UploadType
  <2> QED  BY <1>3, <2>4, <2>5, <2>6, <2>7 DEF WriteNext, TypeOK
<1>4. CASE StartPrune(s)
  <2>1. Surplus(s) \subseteq Files
    BY DEF Surplus, Listing
  <2>2. saving' \in [Sessions -> Save]
    <3>1. [saving[s] EXCEPT !.phase = "prune", !.todo = Surplus(s)] \in Save
      BY <1>0, <2>1 DEF Save
    <3> QED  BY <1>4, <3>1 DEF StartPrune, TypeOK
  <2> QED  BY <1>4, <2>2 DEF StartPrune, TypeOK, printers
<1>5. CASE CheckRemoval(s)
  <2>1. saving' \in [Sessions -> Save] /\ ses' \in [Sessions -> Session]
    <3>1. CASE Refused(s, ses[s].expected, saving[s].source)
      BY <1>0, <3>1, RefusedType
    <3>2. CASE /\ saving' = [saving EXCEPT ![s].phase = "remove",
                               ![s].dest = saving[s].source]
               /\ UNCHANGED ses
      BY <1>0, <3>2 DEF TypeOK, Save
    <3> QED  BY <1>5, <3>1, <3>2 DEF CheckRemoval
  <2> QED  BY <1>5, <2>1 DEF CheckRemoval, TypeOK, printers
<1>6. CASE RemoveNext(s)
  <2> DEFINE p == saving[s].source
  <2>1. PICK f \in Foremost(saving[s].todo) :
          LET known == [ses[s].expected EXCEPT ![f] = Absent]
          IN  /\ remote' = [remote EXCEPT ![p][f] = Absent]
              /\ ses' = [ses EXCEPT ![s].expected = known]
              /\ Persist(s, known)
              /\ saving' = [saving EXCEPT ![s].phase = "prune", ![s].todo = @ \ {f}]
              /\ Touch({f}, Sessions \ {s})
    BY <1>6 DEF RemoveNext
  <2> DEFINE known == [ses[s].expected EXCEPT ![f] = Absent]
  <2>2. f \in Files
    BY <1>0 DEF Foremost
  <2>3. known \in Tree
    BY <1>0 DEF Tree
  <2>4. saving' \in [Sessions -> Save]
    <3>1. [saving[s] EXCEPT !.phase = "prune", !.todo = @ \ {f}] \in Save
      BY <1>0 DEF Save
    <3> QED  BY <2>1, <3>1 DEF TypeOK
  <2>5. ses' \in [Sessions -> Session]
    <3>1. [ses[s] EXCEPT !.expected = known] \in Session
      BY <1>0, <2>3 DEF Session
    <3> QED  BY <2>1, <3>1 DEF TypeOK
  <2>6. snapshot' \in [Profiles -> Tree]
    BY <1>0, <2>1, <2>3 DEF Persist, TypeOK
  <2>7. remote' \in [Profiles -> Tree]
    <3>1. [remote[p] EXCEPT ![f] = Absent] \in Tree
      BY <1>0 DEF TypeOK, Tree
    <3> QED  BY <1>0, <2>1, <3>1 DEF TypeOK
  <2>8. touched' \subseteq Sessions \X Files
    BY <2>1, <2>2, TouchType
  <2> QED  BY <1>6, <2>4, <2>5, <2>6, <2>7, <2>8 DEF RemoveNext, TypeOK
<1>7. CASE FinishSave(s)
  <2>1. CASE Saved(s)
    BY <1>7, <2>1, EndedType DEF FinishSave, TypeOK, printers
  <2>2. CASE saving' = [saving EXCEPT ![s].phase = "restart"] /\ UNCHANGED <<ses, snapshot>>
    <3>1. saving' \in [Sessions -> Save]
      BY <1>0, <2>2 DEF TypeOK, Save
    <3> QED  BY <1>7, <2>2, <3>1 DEF FinishSave, TypeOK, printers
  <2> QED  BY <1>7, <2>1, <2>2 DEF FinishSave
<1>8. CASE RestartKlipper(s)
  BY <1>8, EndedType DEF RestartKlipper, TypeOK, printers
<1>9. CASE FailSave(s)
  BY <1>9, EndedType DEF FailSave, TypeOK, printers
<1>10. CASE FailWrite(s)
  <2>1. PICK f \in Foremost(saving[s].todo) : Upload(s, f) \/ TornUpload(s, f)
    BY <1>10 DEF FailWrite
  <2>2. f \in Files /\ saving[s].phase = "write"
    BY <1>0, <1>10 DEF Foremost, FailWrite
  <2>3. /\ remote' \in [Profiles -> Tree]
        /\ exchanged' \in [Profiles -> [Files -> SUBSET Texts]]
        /\ touched' \subseteq Sessions \X Files
    BY <2>1, <2>2, UploadType
  <2>4. saving' \in [Sessions -> Save] /\ ses' \in [Sessions -> Session]
    BY <1>10, EndedType DEF FailWrite
  <2> QED  BY <1>10, <2>3, <2>4 DEF FailWrite, TypeOK
<1>11. CASE RefuseRemoval(s)
  <2>1. PICK f \in Files : saving' = [saving EXCEPT ![s].phase = "prune", ![s].todo = @ \ {f},
                                                    ![s].kept = @ \cup {f}]
    BY <1>0, <1>11 DEF RefuseRemoval, Foremost
  <2>2. [saving[s] EXCEPT !.phase = "prune", !.todo = @ \ {f}, !.kept = @ \cup {f}] \in Save
    BY <1>0 DEF Save
  <2>3. saving' \in [Sessions -> Save]
    BY <2>1, <2>2 DEF TypeOK
  <2> QED  BY <1>11, <2>3 DEF RefuseRemoval, TypeOK, printers
<1> QED  BY <1>1, <1>2, <1>3, <1>4, <1>5, <1>6, <1>7, <1>8, <1>9, <1>10, <1>11 DEF SaveStep

\* What a refused removal does to the save.
LEMMA RefusalMoves ==
  ASSUME TypeOK, NEW s \in Sessions, RefuseRemoval(s)
  PROVE  /\ saving[s].phase = "remove" /\ saving'[s].phase = "prune"
         /\ saving'[s].source = saving[s].source /\ saving'[s].local = saving[s].local
         /\ \E g \in saving[s].todo : /\ saving'[s].todo = saving[s].todo \ {g}
                                      /\ saving'[s].kept = saving[s].kept \cup {g}
         /\ \A o \in Sessions \ {s} : saving'[o] = saving[o]
<1>1. PICK g \in Foremost(saving[s].todo) :
        saving' = [saving EXCEPT ![s].phase = "prune", ![s].todo = @ \ {g},
                                 ![s].kept = @ \cup {g}]
  BY DEF RefuseRemoval
<1>2. g \in saving[s].todo /\ saving[s].phase = "remove"
  BY DEF Foremost, RefuseRemoval
<1>3. saving[s] \in Save
  BY SessionFacts
<1>4. saving'[s] = [saving[s] EXCEPT !.phase = "prune", !.todo = @ \ {g},
                                     !.kept = @ \cup {g}]
  BY <1>1 DEF TypeOK
<1>5. /\ saving'[s].phase = "prune" /\ saving'[s].source = saving[s].source
      /\ saving'[s].local = saving[s].local /\ saving'[s].todo = saving[s].todo \ {g}
      /\ saving'[s].kept = saving[s].kept \cup {g}
  BY <1>3, <1>4 DEF Save
<1>6. \A o \in Sessions \ {s} : saving'[o] = saving[o]
  BY <1>1 DEF TypeOK
<1> QED  BY <1>2, <1>5, <1>6

\* A save of session s moves to phase x with files F still to go.
LEMMA SaveOKBy ==
  ASSUME TypeOK, SaveOK, NEW s \in Sessions,
         \A o \in Sessions \ {s} : saving'[o] = saving[o],
         saving'[s].phase \notin {"write", "prune", "remove"}
  PROVE  SaveOK'
  BY DEF SaveOK, Skipped

LEMMA SaveOKStep ==
  ASSUME TypeOK, SaveOK, [Next]_vars
  PROVE  SaveOK'
<1>1. CASE UNCHANGED saving
  BY <1>1 DEF SaveOK, Skipped
<1>2. ASSUME NEW s \in Sessions, NEW tree, NEW forced \in BOOLEAN, BeginSave(s, tree, forced)
      PROVE  SaveOK'
  <2>1. saving'[s].phase = "push" /\ \A o \in Sessions \ {s} : saving'[o] = saving[o]
    BY <1>2 DEF BeginSave, TypeOK, IdleSave
  <2> QED  BY <2>1, SaveOKBy
<1>3. ASSUME NEW s \in Sessions, Saved(s) \/ Failed(s) PROVE SaveOK'
  <2>1. saving'[s].phase = "idle" /\ \A o \in Sessions \ {s} : saving'[o] = saving[o]
    BY <1>3 DEF Saved, Failed, TypeOK, IdleSave
  <2> QED  BY <2>1, SaveOKBy
<1>4. ASSUME NEW s \in Sessions, NEW known, NEW p, Refused(s, known, p) PROVE SaveOK'
  <2>1. saving'[s].phase = "refused" /\ \A o \in Sessions \ {s} : saving'[o] = saving[o]
    BY <1>4 DEF Refused, TypeOK, Save
  <2> QED  BY <2>1, SaveOKBy
<1>5. ASSUME NEW s \in Sessions, SaveStep(s) PROVE SaveOK'
  <2>0. saving[s] \in Save /\ saving[s].todo \subseteq Files
    BY SessionFacts
  <2>1. CASE SkipProtected(s)
    <3>1. saving'[s].phase = "push" /\ \A o \in Sessions \ {s} : saving'[o] = saving[o]
      BY <2>1 DEF SkipProtected, TypeOK, Save
    <3> QED  BY <3>1, SaveOKBy
  <2>2. CASE CheckPush(s)
    <3>1. PICK f \in Foremost(saving[s].todo) :
            /\ ~Skipped(s, f)
            /\ mirror[ses[s].mine][f] # Absent
            /\ \/ saving' = [saving EXCEPT ![s].phase = "write", ![s].dest = active,
                               ![s].payload = mirror[ses[s].mine][f]]
               \/ Refused(s, Loaded(s), active)
      BY <2>2 DEF CheckPush
    <3>2. CASE Refused(s, Loaded(s), active)
      BY <1>4, <3>2
    <3>3. CASE saving' = [saving EXCEPT ![s].phase = "write", ![s].dest = active,
                            ![s].payload = mirror[ses[s].mine][f]]
      <4>1. mirror[ses[s].mine][f] \in Texts
        BY <2>0, <3>1, SessionFacts DEF TypeOK, Tree, Foremost
      <4>2. \A g \in Foremost(saving[s].todo) : ~Skipped(s, g)
        BY <2>0, <3>1, ForemostIsOne
      <4>3. /\ saving'[s].phase = "write" /\ saving'[s].payload \in Texts
            /\ saving'[s].todo = saving[s].todo /\ saving'[s].forced = saving[s].forced
            /\ \A o \in Sessions \ {s} : saving'[o] = saving[o]
        BY <3>3, <4>1 DEF TypeOK, Save
      <4> QED  BY <4>2, <4>3 DEF SaveOK, Skipped
    <3> QED  BY <3>1, <3>2, <3>3
  <2>3. CASE WriteNext(s)
    <3>1. saving'[s].phase = "push" /\ \A o \in Sessions \ {s} : saving'[o] = saving[o]
      BY <2>3 DEF WriteNext, TypeOK, Save
    <3> QED  BY <3>1, SaveOKBy
  <2>4. CASE StartPrune(s)
    <3>1. /\ saving'[s].phase = "prune" /\ saving'[s].todo \cap Protected = {}
          /\ \A o \in Sessions \ {s} : saving'[o] = saving[o]
      BY <2>4 DEF StartPrune, Surplus, TypeOK, Save
    <3> QED  BY <3>1 DEF SaveOK, Skipped
  <2>5. CASE CheckRemoval(s)
    <3>1. CASE Refused(s, ses[s].expected, saving[s].source)
      BY <1>4, <3>1
    <3>2. CASE saving' = [saving EXCEPT ![s].phase = "remove", ![s].dest = saving[s].source]
      <4>1. /\ saving'[s].phase = "remove" /\ saving'[s].todo = saving[s].todo
            /\ \A o \in Sessions \ {s} : saving'[o] = saving[o]
            /\ saving[s].phase = "prune"
        BY <2>5, <3>2 DEF CheckRemoval, TypeOK, Save
      <4> QED  BY <4>1 DEF SaveOK, Skipped
    <3> QED  BY <2>5, <3>1, <3>2 DEF CheckRemoval
  <2>6. CASE RemoveNext(s) \/ RefuseRemoval(s)
    <3>1. /\ saving'[s].phase = "prune" /\ saving'[s].todo \subseteq saving[s].todo
          /\ \A o \in Sessions \ {s} : saving'[o] = saving[o]
          /\ saving[s].phase = "remove"
      <4>1. CASE RemoveNext(s)
        BY <4>1 DEF RemoveNext, TypeOK, Save
      <4>2. CASE RefuseRemoval(s)
        BY <4>2, RefusalMoves
      <4> QED  BY <2>6, <4>1, <4>2
    <3> QED  BY <3>1 DEF SaveOK, Skipped
  <2>7. CASE FinishSave(s)
    <3>1. CASE saving' = [saving EXCEPT ![s].phase = "restart"]
      <4>1. saving'[s].phase = "restart" /\ \A o \in Sessions \ {s} : saving'[o] = saving[o]
        BY <3>1 DEF TypeOK, Save
      <4> QED  BY <4>1, SaveOKBy
    <3> QED  BY <1>3, <2>7, <3>1 DEF FinishSave
  <2>8. CASE RestartKlipper(s)
    BY <1>3, <2>8 DEF RestartKlipper
  <2> QED  BY <1>5, <2>1, <2>2, <2>3, <2>4, <2>5, <2>6, <2>7, <2>8 DEF SaveStep
<1>6. ASSUME NEW s \in Sessions, Failing(s) PROVE SaveOK'
  BY <1>1, <1>3, <1>6 DEF Failing, FailSync, FailSave, FailWrite
<1>7. ASSUME NEW s \in Sessions, User(s) PROVE SaveOK'
  <2>1. CASE StartSave(s)
    BY <1>2, <2>1 DEF StartSave
  <2>2. CASE RestoreTree(s)
    BY <1>1, <1>2, <2>2 DEF RestoreTree
  <2> QED  BY <1>1, <1>7, <2>1, <2>2 DEF User, StartSync, Switch, EditMirror
<1>8. ASSUME Restart PROVE SaveOK'
  <2>1. \A s \in Sessions : saving'[s].phase = "idle"
    BY <1>8 DEF Restart, IdleSave
  <2> QED  BY <2>1 DEF SaveOK
<1>9. ASSUME NEW s \in Sessions, SyncStep(s) \/ Poll(s) PROVE UNCHANGED saving
  BY <1>9 DEF SyncStep, DownloadNext, PruneMirror, CommitSync, Poll
<1>10. CASE UNCHANGED vars
  BY <1>1, <1>10 DEF vars
<1>11. CASE Outside
  BY <1>1, <1>8, <1>11 DEF Outside, ChangeStatus, EditRemote
<1> QED  BY <1>1, <1>5, <1>6, <1>7, <1>9, <1>10, <1>11 DEF Next

LEMMA StepType == TypeOK /\ SaveOK /\ [Next]_vars => TypeOK' /\ SaveOK'
<1> SUFFICES ASSUME TypeOK, SaveOK, [Next]_vars PROVE TypeOK'
  BY SaveOKStep
<1>1. CASE UNCHANGED vars
  BY <1>1 DEF vars, TypeOK
<1>2. CASE Outside
  BY <1>2, OutsideType
<1>3. ASSUME NEW s \in Sessions, SyncStep(s) \/ SaveStep(s) \/ Failing(s) \/ User(s) \/ Poll(s)
      PROVE  TypeOK'
  BY <1>3, SyncType, SaveType, UserType DEF Failing
<1> QED  BY <1>1, <1>2, <1>3 DEF Next

LEMMA InitSaveOK == Init => SaveOK
  BY DEF Init, SaveOK, IdleSave

LEMMA Typed == Spec => [](TypeOK /\ SaveOK)
  BY InitType, InitSaveOK, StepType, PTL DEF Spec

\* Every variable keeps its type, in every step of any number of tabs, threads
\* and printers.
THEOREM TypeCorrect == Spec => []TypeOK
  BY Typed, PTL

-----------------------------------------------------------------------------
(***************************************************************************)
(* printer.cfg.                                                            *)
(***************************************************************************)
LEMMA UploadProtected ==
  ASSUME TypeOK, SaveOK, NEW s \in Sessions, saving[s].phase = "write",
         NEW g \in Foremost(saving[s].todo), Upload(s, g) \/ TornUpload(s, g),
         NEW p \in Profiles, NEW f \in Protected, remote'[p][f] # remote[p][f]
  PROVE  remote'[p][f] # Absent /\ saving[s].forced
<1>1. saving[s].payload \in Texts /\ ~Skipped(s, g)
  BY DEF SaveOK
<1>2. f \in Files /\ remote[p] \in [Files -> Texts \cup {Absent}]
  BY FilesAssumption DEF TypeOK, Tree
<1>3. PICK t \in Texts : remote' = [remote EXCEPT ![saving[s].dest][g] = t]
  BY <1>1 DEF Upload, TornUpload
<1>4. p = saving[s].dest /\ f = g
  BY <1>2, <1>3 DEF TypeOK, Tree
<1>5. remote'[p][f] = t
  BY <1>2, <1>3, <1>4 DEF TypeOK
<1> QED  BY <1>1, <1>4, <1>5, TextsAssumption DEF Skipped

LEMMA ProtectedStep ==
  ASSUME TypeOK, SaveOK, [Next]_vars, NEW p \in Profiles, NEW f \in Protected,
         remote'[p][f] # remote[p][f]
  PROVE  \/ EditRemote(p, f)
         \/ /\ remote'[p][f] # Absent
            /\ \E s \in Sessions : saving[s].forced /\ saving[s].phase = "write"
<1>0. f \in Files /\ remote # remote'
  BY FilesAssumption
<1>1. ASSUME NEW q \in Profiles, NEW g \in Files, EditRemote(q, g)
      PROVE  EditRemote(p, f)
  <2>1. PICK t : remote' = [remote EXCEPT ![q][g] = t]
    BY <1>1 DEF EditRemote
  <2>2. q = p /\ g = f
    BY <1>0, <2>1 DEF TypeOK, Tree
  <2> QED  BY <1>1, <2>2
<1>2. ASSUME NEW s \in Sessions, WriteNext(s) \/ FailWrite(s)
      PROVE  remote'[p][f] # Absent /\ saving[s].forced /\ saving[s].phase = "write"
  <2>1. /\ saving[s].phase = "write"
        /\ \E g \in Foremost(saving[s].todo) : Upload(s, g) \/ TornUpload(s, g)
    BY <1>2 DEF WriteNext, FailWrite
  <2> QED  BY <2>1, UploadProtected
<1>3. ASSUME NEW s \in Sessions, RemoveNext(s) PROVE FALSE
  <2>1. PICK g \in saving[s].todo :
          remote' = [remote EXCEPT ![saving[s].source][g] = Absent]
    BY <1>0, <1>3 DEF RemoveNext, Foremost
  <2>2. g \notin Protected
    BY <1>3 DEF RemoveNext, SaveOK
  <2> QED  BY <1>0, <2>1, <2>2 DEF TypeOK, Tree
<1>4. CASE UNCHANGED vars
  BY <1>0, <1>4 DEF vars
<1>5. ASSUME NEW s \in Sessions, SyncStep(s) \/ User(s) \/ Poll(s) PROVE FALSE
  BY <1>0, <1>5 DEF SyncStep, DownloadNext, PruneMirror, CommitSync, User, StartSync,
     StartSave, RestoreTree, Switch, EditMirror, Poll, printers
<1>6. ASSUME NEW s \in Sessions, SaveStep(s) \/ Failing(s) PROVE WriteNext(s) \/ FailWrite(s)
  BY <1>0, <1>3, <1>6 DEF SaveStep, SkipProtected, CheckPush, StartPrune, CheckRemoval,
     RefuseRemoval, FinishSave, RestartKlipper, Failing, FailSync, FailSave, printers
<1>7. CASE Outside
  BY <1>0, <1>1, <1>7 DEF Outside, ChangeStatus, Restart, printers
<1> QED  BY <1>2, <1>4, <1>5, <1>6, <1>7 DEF Next

\* The user's own saves never write or remove printer.cfg, with any number of tabs
\* that scan, save and switch at once.
THEOREM ProtectedIsKept == Spec => ProtectedOnlyByRestore
<1>1. TypeOK /\ SaveOK /\ [Next]_vars
        => [\A p \in Profiles, f \in Protected :
              remote'[p][f] # remote[p][f]
                => \/ EditRemote(p, f)
                   \/ /\ remote'[p][f] # Absent
                      /\ \E s \in Sessions : saving[s].forced /\ saving[s].phase = "write"]_vars
  BY ProtectedStep
<1> QED  BY <1>1, Typed, PTL DEF Spec, ProtectedOnlyByRestore

-----------------------------------------------------------------------------
(***************************************************************************)
(* When checksums can be trusted.  A checksum of a printer is the one of a *)
(* text exchanged with it as long as downloads and uploads go to the       *)
(* printer their session was switched to.                                  *)
(***************************************************************************)
History(p, checksums) == \A f \in Files : checksums[f] \in exchanged[p][f] \cup {Absent}

Hist == /\ \A p \in Profiles : History(p, snapshot[p])
        /\ \A s \in Sessions : History(ses[s].mine, ses[s].expected)
        /\ \A s \in Sessions :
             syncing[s].phase # "idle" => History(syncing[s].source, syncing[s].got)

Aligned == \A s \in Sessions :
             /\ syncing[s].phase # "idle" => syncing[s].source = ses[s].mine
             /\ Saving(s) => saving[s].source = ses[s].mine /\ active = ses[s].mine
             /\ saving[s].phase = "write" => saving[s].dest = ses[s].mine

LEMMA LoadedHistory ==
  ASSUME TypeOK, Hist, NEW s \in Sessions
  PROVE  History(ses[s].mine, Loaded(s))
  BY SessionFacts DEF Hist, Loaded

LEMMA NothingHistory == ASSUME NEW p PROVE History(p, Nothing)
  BY DEF History, Nothing

\* What a step of session s has to show.
LEMMA HistBy ==
  ASSUME TypeOK, Hist, NEW s \in Sessions,
         \A p \in Profiles, f \in Files : exchanged[p][f] \subseteq exchanged'[p][f],
         \A o \in Sessions \ {s} : /\ ses'[o] = ses[o]
                                   /\ syncing'[o] = syncing[o],
         \A p \in Profiles : snapshot'[p] = snapshot[p] \/ History(p, snapshot[p])',
         History(ses[s].mine, ses[s].expected)',
         (syncing[s].phase # "idle" => History(syncing[s].source, syncing[s].got))'
  PROVE  Hist'
<1>1. ASSUME NEW p \in Profiles PROVE History(p, snapshot[p])'
  BY <1>1 DEF Hist, History
<1>2. ASSUME NEW o \in Sessions PROVE History(ses[o].mine, ses[o].expected)'
  <2>1. ses[o].mine \in Profiles
    BY SessionFacts
  <2> QED  BY <1>2, <2>1 DEF Hist, History
<1>3. ASSUME NEW o \in Sessions, (syncing[o].phase # "idle")'
      PROVE  History(syncing[o].source, syncing[o].got)'
  <2>1. syncing[o].source \in Profiles
    BY DEF TypeOK, Sync
  <2> QED  BY <1>3, <2>1 DEF Hist, History
<1> QED  BY <1>1, <1>2, <1>3 DEF Hist

LEMMA UserHistory ==
  ASSUME TypeOK, Hist, NEW s \in Sessions, User(s) \/ Poll(s)
  PROVE  Hist'
<1>0. /\ ses[s] \in Session /\ ses[s].mine \in Profiles /\ syncing[s] \in Sync
      /\ exchanged' = exchanged /\ snapshot' = snapshot
      /\ \A o \in Sessions \ {s} : ses'[o] = ses[o] /\ syncing'[o] = syncing[o]
  <2>1. exchanged' = exchanged /\ snapshot' = snapshot
    BY DEF User, StartSync, StartSave, RestoreTree, Switch, EditMirror, Poll, printers
  <2>2. \A o \in Sessions \ {s} : ses'[o] = ses[o] /\ syncing'[o] = syncing[o]
    BY DEF User, StartSync, StartSave, RestoreTree, Switch, EditMirror, Poll, BeginSync,
       BeginSave, TypeOK
  <2> QED  BY <2>1, <2>2 DEF TypeOK, Session
\* The mirror's checksums, loaded or not, or none after a switch.
<1>1. \/ ses'[s].mine = ses[s].mine /\ ses'[s].expected \in {ses[s].expected, Loaded(s)}
      \/ ses'[s].mine \in Profiles /\ ses'[s].expected = Nothing
  <2>1. CASE \E p \in Profiles : Switch(s, p)
    <3>1. PICK p \in Profiles : Switch(s, p)
      BY <2>1
    <3>2. /\ Cleaned(s, p).mine = p /\ Cleaned(s, p).expected = Nothing
          /\ [Cleaned(s, p) EXCEPT !.modal = FALSE].mine = p
          /\ [Cleaned(s, p) EXCEPT !.modal = FALSE].expected = Nothing
      BY <1>0 DEF Cleaned, Session
    <3>3. ses'[s] \in {Cleaned(s, p), [Cleaned(s, p) EXCEPT !.modal = FALSE]}
      BY <3>1 DEF Switch, TypeOK
    <3> QED  BY <3>2, <3>3
  <2>2. CASE StartSync(s) \/ Poll(s) \/ StartSave(s)
    BY <1>0, <2>2 DEF StartSync, Poll, StartSave, BeginSave, TypeOK, Session
  <2>3. CASE RestoreTree(s) \/ \E f \in Files : EditMirror(s, f)
    <3>1. \/ ses' = [ses EXCEPT ![s].pending = TRUE]
          \/ ses' = [ses EXCEPT ![s].pending = TRUE, ![s].expected = Loaded(s)]
          \/ ses' = [ses EXCEPT ![s].modal = TRUE, ![s].pending = TRUE, ![s].expected = Loaded(s)]
      BY <2>3 DEF RestoreTree, EditMirror, BeginSave
    <3> QED  BY <1>0, <3>1 DEF TypeOK, Session
  <2> QED  BY <2>1, <2>2, <2>3 DEF User
<1>2. History(ses[s].mine, ses[s].expected)'
  <2>1. History(ses[s].mine, ses[s].expected) /\ History(ses[s].mine, Loaded(s))
    BY LoadedHistory DEF Hist
  <2>2. \A p : History(p, Nothing)
    BY NothingHistory
  <2> QED  BY <1>0, <1>1, <2>1, <2>2 DEF History
\* A download that goes on or one that has nothing yet.
<1>3. syncing'[s] = syncing[s] \/ syncing'[s].got = Nothing
  <2>1. ASSUME NEW p, NEW q, BeginSync(s, p, q) PROVE syncing'[s].got = Nothing
    BY <2>1 DEF BeginSync, IdleSync, TypeOK
  <2> QED  BY <2>1 DEF User, StartSync, StartSave, RestoreTree, Switch, EditMirror, Poll
<1>4. (syncing[s].phase # "idle" => History(syncing[s].source, syncing[s].got))'
  BY <1>0, <1>3, NothingHistory DEF Hist, History
<1> QED  BY <1>0, <1>2, <1>4, HistBy

LEMMA SyncHistory ==
  ASSUME TypeOK, Hist, Aligned, NEW s \in Sessions, SyncStep(s) \/ FailSync(s)
  PROVE  Hist'
<1>0. /\ ses[s] \in Session /\ ses[s].mine \in Profiles /\ syncing[s] \in Sync
      /\ syncing[s].source \in Profiles /\ syncing[s].got \in Tree
  BY DEF TypeOK, Session, Sync
<1>1. CASE DownloadNext(s)
  <2> DEFINE p == syncing[s].source
  <2>1. PICK f \in Files :
          /\ syncing' = [syncing EXCEPT ![s].todo = @ \ {f}, ![s].got[f] = remote[p][f]]
          /\ Exchange(p, f, remote[p][f])
    BY <1>0, <1>1 DEF DownloadNext, Foremost, Sync
  <2>2. /\ syncing'[s].source = p
        /\ syncing'[s].got = [syncing[s].got EXCEPT ![f] = remote[p][f]]
        /\ \A o \in Sessions \ {s} : syncing'[o] = syncing[o]
    BY <1>0, <2>1 DEF TypeOK, Sync
  <2>3. /\ remote[p][f] \in exchanged'[p][f]
        /\ \A q \in Profiles, g \in Files : exchanged[q][g] \subseteq exchanged'[q][g]
    BY <1>0, <2>1 DEF Exchange, TypeOK
  <2>4. History(p, syncing[s].got)
    BY <1>1 DEF Hist, DownloadNext
  <2>5. (syncing[s].phase # "idle" => History(syncing[s].source, syncing[s].got))'
    BY <1>0, <2>2, <2>3, <2>4 DEF History, Tree
  <2>6. UNCHANGED <<ses, snapshot>>
    BY <1>1 DEF DownloadNext
  <2>7. History(ses[s].mine, ses[s].expected)'
    BY <1>0, <2>3, <2>6 DEF Hist, History
  <2> QED  BY <2>2, <2>3, <2>5, <2>6, <2>7, HistBy
<1>2. CASE PruneMirror(s)
  <2>1. UNCHANGED <<ses, snapshot, exchanged>>
    BY <1>2 DEF PruneMirror, printers
  <2>2. /\ syncing'[s].source = syncing[s].source /\ syncing'[s].got = syncing[s].got
        /\ syncing[s].phase # "idle"
        /\ \A o \in Sessions \ {s} : syncing'[o] = syncing[o]
    BY <1>0, <1>2 DEF PruneMirror, TypeOK, Sync
  <2> QED  BY <2>1, <2>2, HistBy DEF Hist, History
<1>3. CASE CommitSync(s)
  <2>1. /\ ses'[s].mine = ses[s].mine /\ ses'[s].expected = syncing[s].got
        /\ \A o \in Sessions \ {s} : ses'[o] = ses[o] /\ syncing'[o] = syncing[o]
        /\ syncing'[s].phase = "idle"
    BY <1>0, <1>3 DEF CommitSync, TypeOK, Session, IdleSync
  <2>2. snapshot' = [snapshot EXCEPT ![ses[s].mine] = syncing[s].got] /\ UNCHANGED exchanged
    BY <1>3 DEF CommitSync, Persist, printers
  <2>3. History(ses[s].mine, syncing[s].got)
    BY <1>3 DEF CommitSync, Hist, Aligned
  <2>4. \A q \in Profiles : snapshot'[q] = snapshot[q] \/ History(q, snapshot[q])'
    BY <1>0, <2>2, <2>3 DEF History, TypeOK
  <2>5. History(ses[s].mine, ses[s].expected)'
    BY <2>1, <2>2, <2>3 DEF History
  <2> QED  BY <2>1, <2>2, <2>4, <2>5, HistBy
<1>4. CASE FailSync(s)
  <2>1. /\ ses'[s].mine = ses[s].mine /\ ses'[s].expected = ses[s].expected
        /\ \A o \in Sessions \ {s} : ses'[o] = ses[o] /\ syncing'[o] = syncing[o]
        /\ syncing'[s].phase = "idle"
    BY <1>0, <1>4 DEF FailSync, TypeOK, Session, IdleSync
  <2>2. UNCHANGED <<snapshot, exchanged>>
    BY <1>4 DEF FailSync, printers
  <2> QED  BY <2>1, <2>2, HistBy DEF Hist, History
<1> QED  BY <1>1, <1>2, <1>3, <1>4 DEF SyncStep

\* A step of a save leaves the session with checksums that are in the history and
\* that the state file has taken over, if it changed.
LEMMA SaveHistoryBy ==
  ASSUME TypeOK, Hist, NEW s \in Sessions, NEW known, History(ses[s].mine, known)',
         ses'[s].mine = ses[s].mine, ses'[s].expected = known,
         \A o \in Sessions \ {s} : ses'[o] = ses[o],
         UNCHANGED syncing,
         \/ UNCHANGED snapshot
         \/ snapshot' = [snapshot EXCEPT ![ses[s].mine] = known],
         \A p \in Profiles, f \in Files : exchanged[p][f] \subseteq exchanged'[p][f]
  PROVE  Hist'
<1>0. ses[s].mine \in Profiles /\ syncing[s].source \in Profiles
  BY DEF TypeOK, Session, Sync
<1>1. \A p \in Profiles : snapshot'[p] = snapshot[p] \/ History(p, snapshot[p])'
  BY <1>0 DEF History, TypeOK
<1>2. History(ses[s].mine, ses[s].expected)'
  BY DEF History
<1>3. (syncing[s].phase # "idle" => History(syncing[s].source, syncing[s].got))'
  BY <1>0 DEF Hist, History
<1> QED  BY <1>1, <1>2, <1>3, HistBy

LEMMA SaveHistory ==
  ASSUME TypeOK, SaveOK, Hist, Aligned, NEW s \in Sessions,
         SaveStep(s) \/ FailSave(s) \/ FailWrite(s)
  PROVE  Hist'
<1>0. /\ ses[s] \in Session /\ ses[s].mine \in Profiles /\ ses[s].expected \in Tree
      /\ saving[s] \in Save /\ saving[s].source \in Profiles
      /\ saving[s].dest \in Profiles /\ saving[s].todo \subseteq Files
      /\ active \in Profiles /\ Loaded(s) \in Tree
  BY SessionFacts
<1>1. History(ses[s].mine, ses[s].expected) /\ History(ses[s].mine, Loaded(s))
  BY LoadedHistory DEF Hist
<1>2. UNCHANGED syncing
  BY DEF SaveStep, SkipProtected, CheckPush, WriteNext, StartPrune, CheckRemoval, RemoveNext,
     RefuseRemoval, FinishSave, RestartKlipper, FailSave, FailWrite
\* The session gets known checksums, and nothing is exchanged.
<1>3. ASSUME NEW known, known \in {ses[s].expected, Loaded(s)}, UNCHANGED exchanged,
             ses'[s].mine = ses[s].mine, ses'[s].expected = known,
             \A o \in Sessions \ {s} : ses'[o] = ses[o],
             UNCHANGED snapshot \/ snapshot' = [snapshot EXCEPT ![ses[s].mine] = known]
      PROVE  Hist'
  <2>1. History(ses[s].mine, known)'
    BY <1>1, <1>3 DEF History
  <2> QED  BY <1>2, <1>3, <2>1, SaveHistoryBy
<1>4. CASE SkipProtected(s) \/ StartPrune(s) \/ RefuseRemoval(s)
  <2>1. UNCHANGED <<ses, snapshot, exchanged>>
    BY <1>4 DEF SkipProtected, StartPrune, RefuseRemoval, printers
  <2> QED  BY <1>3, <2>1
<1>5. CASE CheckPush(s)
  <2>1. \/ ses' = [ses EXCEPT ![s].expected = Loaded(s)]
        \/ ses' = [ses EXCEPT ![s].expected = Loaded(s), ![s].modal = FALSE]
    BY <1>5 DEF CheckPush, Refused
  <2>2. /\ ses'[s].mine = ses[s].mine /\ ses'[s].expected = Loaded(s)
        /\ \A o \in Sessions \ {s} : ses'[o] = ses[o]
    BY <1>0, <2>1 DEF TypeOK, Session
  <2>3. UNCHANGED <<snapshot, exchanged>>
    BY <1>5 DEF CheckPush, printers
  <2> QED  BY <1>3, <2>2, <2>3
<1>6. CASE WriteNext(s)
  <2>1. PICK f \in Foremost(saving[s].todo) :
          LET known == [ses[s].expected EXCEPT ![f] = saving[s].payload]
          IN  /\ Upload(s, f)
              /\ ses' = [ses EXCEPT ![s].expected = known]
              /\ Persist(s, known)
    BY <1>6 DEF WriteNext
  <2> DEFINE known == [ses[s].expected EXCEPT ![f] = saving[s].payload]
  <2>2. f \in Files /\ saving[s].dest = ses[s].mine
    BY <1>0, <1>6 DEF Foremost, WriteNext, Aligned
  <2>3. /\ saving[s].payload \in exchanged'[ses[s].mine][f]
        /\ \A p \in Profiles, g \in Files : exchanged[p][g] \subseteq exchanged'[p][g]
    BY <1>0, <2>1, <2>2 DEF Upload, Exchange, TypeOK
  <2>4. /\ ses'[s].mine = ses[s].mine /\ ses'[s].expected = known
        /\ \A o \in Sessions \ {s} : ses'[o] = ses[o]
    BY <1>0, <2>1 DEF TypeOK, Session
  <2>5. \A g \in Files : known[g] \in exchanged'[ses[s].mine][g] \cup {Absent}
    BY <1>0, <1>1, <2>3 DEF History, Tree
  <2>6. History(ses[s].mine, ses[s].expected)'
    BY <2>4, <2>5 DEF History
  <2>7. snapshot' = [snapshot EXCEPT ![ses[s].mine] = known]
    BY <2>1 DEF Persist
  <2>8. \A p \in Profiles : snapshot'[p] = snapshot[p] \/ History(p, snapshot[p])'
    BY <1>0, <2>5, <2>7 DEF History, TypeOK
  <2>9. (syncing[s].phase # "idle" => History(syncing[s].source, syncing[s].got))'
    BY <1>2, <2>3 DEF Hist, History, TypeOK, Sync
  <2> HIDE DEF known
  <2> QED  BY <1>2, <2>3, <2>4, <2>6, <2>8, <2>9, HistBy
<1>7. CASE CheckRemoval(s)
  <2>1. \/ UNCHANGED ses
        \/ ses' = [ses EXCEPT ![s].expected = ses[s].expected, ![s].modal = FALSE]
    BY <1>7 DEF CheckRemoval, Refused
  <2>2. /\ ses'[s].mine = ses[s].mine /\ ses'[s].expected = ses[s].expected
        /\ \A o \in Sessions \ {s} : ses'[o] = ses[o]
    BY <1>0, <2>1 DEF TypeOK, Session
  <2>3. UNCHANGED <<snapshot, exchanged>>
    BY <1>7 DEF CheckRemoval, printers
  <2> QED  BY <1>3, <2>2, <2>3
<1>8. CASE RemoveNext(s)
  <2>1. PICK f \in Foremost(saving[s].todo) :
          LET known == [ses[s].expected EXCEPT ![f] = Absent]
          IN  ses' = [ses EXCEPT ![s].expected = known] /\ Persist(s, known)
    BY <1>8 DEF RemoveNext
  <2> DEFINE known == [ses[s].expected EXCEPT ![f] = Absent]
  <2>2. UNCHANGED exchanged
    BY <1>8 DEF RemoveNext
  <2>3. /\ ses'[s].mine = ses[s].mine /\ ses'[s].expected = known
        /\ \A o \in Sessions \ {s} : ses'[o] = ses[o]
    BY <1>0, <2>1 DEF TypeOK, Session
  <2>4. \A g \in Files : known[g] \in exchanged'[ses[s].mine][g] \cup {Absent}
    BY <1>0, <1>1, <2>2 DEF History, Tree
  <2>5. History(ses[s].mine, ses[s].expected)'
    BY <2>3, <2>4 DEF History
  <2>6. snapshot' = [snapshot EXCEPT ![ses[s].mine] = known]
    BY <2>1 DEF Persist
  <2>7. \A p \in Profiles : snapshot'[p] = snapshot[p] \/ History(p, snapshot[p])'
    BY <1>0, <2>4, <2>6 DEF History, TypeOK
  <2>8. (syncing[s].phase # "idle" => History(syncing[s].source, syncing[s].got))'
    BY <1>2, <2>2 DEF Hist, History
  <2> HIDE DEF known
  <2> QED  BY <1>2, <2>2, <2>3, <2>5, <2>7, <2>8, HistBy
<1>9. ASSUME Saved(s), UNCHANGED exchanged PROVE Hist'
  <2>1. /\ ses'[s].mine = ses[s].mine /\ ses'[s].expected = ses[s].expected
        /\ \A o \in Sessions \ {s} : ses'[o] = ses[o]
    BY <1>0, <1>9 DEF Saved, TypeOK, Session
  <2>2. snapshot' = [snapshot EXCEPT ![ses[s].mine] = ses[s].expected]
    BY <1>9 DEF Saved, Persist
  <2> QED  BY <1>3, <1>9, <2>1, <2>2
<1>10. CASE FinishSave(s) \/ RestartKlipper(s)
  <2>1. CASE Saved(s)
    BY <1>9, <1>10, <2>1 DEF FinishSave, RestartKlipper, printers
  <2>2. CASE UNCHANGED <<ses, snapshot>>
    BY <1>3, <1>10, <2>2 DEF FinishSave, RestartKlipper, printers
  <2> QED  BY <1>10, <2>1, <2>2 DEF FinishSave, RestartKlipper
<1>11. CASE FailSave(s) \/ FailWrite(s)
  <2>1. /\ ses'[s].mine = ses[s].mine /\ ses'[s].expected = ses[s].expected
        /\ \A o \in Sessions \ {s} : ses'[o] = ses[o]
    BY <1>0, <1>11 DEF FailSave, FailWrite, Failed, TypeOK, Session
  <2>2. UNCHANGED snapshot
    BY <1>11 DEF FailSave, FailWrite
  <2>3. \A p \in Profiles, f \in Files : exchanged[p][f] \subseteq exchanged'[p][f]
    <3>1. CASE FailSave(s)
      BY <3>1 DEF FailSave, printers
    <3>2. CASE FailWrite(s)
      <4>1. PICK f \in Files : Upload(s, f) \/ TornUpload(s, f)
        BY <1>0, <3>2 DEF FailWrite, Foremost
      <4> QED  BY <1>0, <4>1 DEF Upload, TornUpload, Exchange, TypeOK
    <3> QED  BY <1>11, <3>1, <3>2
  <2>4. History(ses[s].mine, ses[s].expected)'
    BY <1>0, <1>1, <2>1, <2>3 DEF History
  <2>5. (syncing[s].phase # "idle" => History(syncing[s].source, syncing[s].got))'
    BY <1>2, <2>3 DEF Hist, History, TypeOK, Sync
  <2> QED  BY <1>2, <2>1, <2>2, <2>3, <2>4, <2>5, HistBy
<1> QED  BY <1>4, <1>5, <1>6, <1>7, <1>8, <1>10, <1>11 DEF SaveStep

LEMMA HistStep ==
  ASSUME TypeOK, SaveOK, Hist, Aligned, [Next]_vars
  PROVE  Hist'
<1>1. CASE UNCHANGED <<ses, syncing, snapshot, exchanged>>
  BY <1>1 DEF Hist, History
<1>2. CASE Restart
  <2>1. /\ \A s \in Sessions : ses'[s].expected = Nothing /\ syncing'[s].phase = "idle"
        /\ UNCHANGED <<snapshot, exchanged>>
    BY <1>2 DEF Restart, NewSession, IdleSync, printers
  <2> QED  BY <2>1, NothingHistory DEF Hist, History
<1>3. CASE Outside
  BY <1>1, <1>2, <1>3 DEF Outside, ChangeStatus, EditRemote
<1>4. ASSUME NEW s \in Sessions, SyncStep(s) \/ SaveStep(s) \/ Failing(s) \/ User(s) \/ Poll(s)
      PROVE  Hist'
  BY <1>4, SyncHistory, SaveHistory, UserHistory DEF Failing
<1>5. CASE UNCHANGED vars
  BY <1>1, <1>5 DEF vars
<1> QED  BY <1>3, <1>4, <1>5 DEF Next

LEMMA InitHist == Init => Hist
  BY NothingHistory DEF Init, Hist, NewSession, IdleSync

LEMMA HistMeans == Hist => SnapshotsAreHistory
  BY DEF Hist, History, SnapshotsAreHistory

\* A file that is found as the checksums have it holds a text that was seen.
LEMMA SeenStep ==
  ASSUME TypeOK, SaveOK, Hist, Aligned, [Next]_vars, NEW s \in Sessions,
         saving'[s].phase \in {"write", "remove"}, saving[s].phase # saving'[s].phase
  PROVE  LET p == saving'[s].dest
         IN  \A f \in Foremost(saving[s].todo) : remote[p][f] \in exchanged[p][f]
<1>0. /\ saving[s] \in Save /\ saving[s].todo \subseteq Files /\ active \in Profiles
      /\ History(ses[s].mine, Loaded(s)) /\ History(ses[s].mine, ses[s].expected)
  BY SessionFacts, LoadedHistory DEF Hist
<1>1. CASE CheckPush(s)
  <2>1. PICK f \in Foremost(saving[s].todo) :
          \/ /\ Unchanged(Loaded(s), active, f)
             /\ saving' = [saving EXCEPT ![s].phase = "write", ![s].dest = active,
                             ![s].payload = mirror[ses[s].mine][f]]
          \/ Refused(s, Loaded(s), active)
    BY <1>1 DEF CheckPush
  <2>2. ~Refused(s, Loaded(s), active)
    BY <1>0 DEF Refused, TypeOK, Save
  <2>3. saving'[s].dest = active /\ active = ses[s].mine
    <3>1. PICK t : saving' = [saving EXCEPT ![s].phase = "write", ![s].dest = active,
                                            ![s].payload = t]
      BY <2>1, <2>2
    <3>2. saving'[s].dest = active
      BY <1>0, <3>1 DEF TypeOK, Save
    <3>3. Saving(s)
      BY <1>1 DEF CheckPush, Saving
    <3> QED  BY <3>2, <3>3 DEF Aligned
  <2>4. f \in Files /\ remote[active][f] \in exchanged[active][f]
    BY <1>0, <2>1, <2>2, <2>3 DEF Unchanged, History, Foremost
  <2> QED  BY <1>0, <2>3, <2>4, ForemostIsOne
<1>2. CASE CheckRemoval(s)
  <2> DEFINE p == saving[s].source
  <2>1. PICK f \in Foremost(saving[s].todo) :
          \/ /\ Unchanged(ses[s].expected, p, f)
             /\ saving' = [saving EXCEPT ![s].phase = "remove", ![s].dest = p]
          \/ Refused(s, ses[s].expected, p)
    BY <1>2 DEF CheckRemoval
  <2>2. ~Refused(s, ses[s].expected, p)
    BY <1>0 DEF Refused, TypeOK, Save
  <2>3. saving'[s].dest = p /\ p = ses[s].mine
    BY <1>0, <1>2, <2>1, <2>2 DEF CheckRemoval, TypeOK, Save, Aligned, Saving
  <2>4. f \in Files /\ remote[p][f] \in exchanged[p][f]
    BY <1>0, <2>1, <2>2, <2>3 DEF Unchanged, History, Foremost
  <2> QED  BY <1>0, <2>3, <2>4, ForemostIsOne
\* No other step checks a file of s.
<1>3. ASSUME NEW o \in Sessions, o # s,
             SyncStep(o) \/ SaveStep(o) \/ Failing(o) \/ User(o) \/ Poll(o)
      PROVE  saving'[s] = saving[s]
  <2>1. CASE SyncStep(o) \/ Poll(o) \/ FailSync(o)
    BY <2>1 DEF SyncStep, DownloadNext, PruneMirror, CommitSync, Poll, FailSync
  <2>2. CASE SaveStep(o) \/ FailSave(o) \/ FailWrite(o)
    BY <1>3, <2>2 DEF SaveStep, SkipProtected, CheckPush, WriteNext, StartPrune, CheckRemoval,
       RemoveNext, RefuseRemoval, FinishSave, RestartKlipper, FailSave, FailWrite, Refused, Saved,
       Failed, TypeOK
  <2>3. CASE User(o)
    BY <1>3, <2>3 DEF User, StartSync, StartSave, RestoreTree, Switch, EditMirror, BeginSave,
       TypeOK
  <2> QED  BY <1>3, <2>1, <2>2, <2>3 DEF Failing
<1>4. CASE SaveStep(s) /\ ~CheckPush(s) /\ ~CheckRemoval(s)
  <2>1. CASE SkipProtected(s)
    BY <1>0, <2>1 DEF SkipProtected, TypeOK, Save
  <2>2. CASE WriteNext(s)
    BY <1>0, <2>2 DEF WriteNext, TypeOK, Save
  <2>3. CASE StartPrune(s)
    BY <1>0, <2>3 DEF StartPrune, TypeOK, Save
  <2>4. CASE RemoveNext(s)
    BY <1>0, <2>4 DEF RemoveNext, TypeOK, Save
  <2>5. CASE FinishSave(s) \/ RestartKlipper(s)
    BY <1>0, <2>5 DEF FinishSave, RestartKlipper, Saved, IdleSave, TypeOK, Save
  <2>6. CASE RefuseRemoval(s)
    BY <1>0, <2>6, RefusalMoves
  <2> QED  BY <1>4, <2>1, <2>2, <2>3, <2>4, <2>5, <2>6 DEF SaveStep
<1>5. CASE SyncStep(s) \/ Failing(s) \/ Poll(s)
  BY <1>0, <1>5 DEF SyncStep, DownloadNext, PruneMirror, CommitSync, Poll, Failing, FailSync,
     FailSave, FailWrite, Failed, IdleSave, TypeOK
<1>6. CASE User(s)
  <2>1. ASSUME NEW tree, NEW forced, BeginSave(s, tree, forced)
        PROVE  saving'[s].phase = "push"
    BY <2>1 DEF BeginSave, IdleSave, TypeOK
  <2> QED  BY <1>6, <2>1 DEF User, StartSync, StartSave, RestoreTree, Switch, EditMirror
<1>7. CASE Outside
  <2>1. CASE Restart
    BY <2>1 DEF Restart, IdleSave
  <2> QED  BY <1>7, <2>1 DEF Outside, ChangeStatus, EditRemote
<1>8. CASE UNCHANGED vars
  BY <1>8 DEF vars
<1> QED  BY <1>1, <1>2, <1>3, <1>4, <1>5, <1>6, <1>7, <1>8 DEF Next

-----------------------------------------------------------------------------
(***************************************************************************)
(* One printer, any number of tabs.                                        *)
(***************************************************************************)
OnePrinter == \A p, q \in Profiles : p = q

LEMMA OnePrinterAligned == OnePrinter /\ TypeOK => Aligned
<1> SUFFICES ASSUME OnePrinter, TypeOK, NEW s \in Sessions
             PROVE  /\ syncing[s].source = ses[s].mine
                    /\ saving[s].source = ses[s].mine /\ active = ses[s].mine
                    /\ saving[s].dest = ses[s].mine
  BY DEF Aligned
<1> QED  BY SessionFacts DEF OnePrinter, TypeOK, Sync

LEMMA OnePrinterHist == Spec /\ OnePrinter => [](TypeOK /\ SaveOK /\ Hist /\ Aligned)
<1>1. Init /\ OnePrinter => OnePrinter /\ Hist
  BY InitHist
<1>2. TypeOK /\ SaveOK /\ OnePrinter /\ Hist /\ [Next]_vars => OnePrinter' /\ Hist'
  BY HistStep, OnePrinterAligned DEF OnePrinter
<1> QED  BY <1>1, <1>2, OnePrinterAligned, Typed, PTL DEF Spec

\* With one printer every checksum is of a text that was read from it or written to
\* it, however the tabs' scans, saves, polls, failures and restarts interleave.
THEOREM OnePrinterSnapshots == Spec /\ OnePrinter => []SnapshotsAreHistory
  BY OnePrinterHist, HistMeans, PTL

\* With one printer no save replaces or removes a text KlipperVault has not seen.
THEOREM OnePrinterSeen == Spec /\ OnePrinter => ReplacesOnlySeenText
<1>1. TypeOK /\ SaveOK /\ Hist /\ Aligned /\ [Next]_vars
        => [\A s \in Sessions :
              saving'[s].phase \in {"write", "remove"} /\ saving[s].phase # saving'[s].phase
                => LET p == saving'[s].dest
                   IN  \A f \in Foremost(saving[s].todo) :
                         remote[p][f] \in exchanged[p][f]]_vars
  BY SeenStep
<1> QED  BY <1>1, OnePrinterHist, PTL DEF Spec, ReplacesOnlySeenText

-----------------------------------------------------------------------------
(***************************************************************************)
(* One tab, any number of printers that the poll never finds missing: its  *)
(* dialog keeps the user from switching while a scan or a save runs.       *)
(***************************************************************************)
OneTab == (\A s, t \in Sessions : s = t) /\ "unknown" \notin Statuses

Alone == \A s \in Sessions :
           /\ ses[s].mine = active
           /\ syncing[s].phase # "idle"
                => ses[s].modal /\ ~Saving(s) /\ syncing[s].source = active
           /\ Saving(s) => ses[s].modal /\ saving[s].source = active
           /\ saving[s].phase = "write" => saving[s].dest = active

LEMMA AloneAligned == Alone => Aligned
  BY DEF Alone, Aligned

\* What a step of the only session has to show.
LEMMA AloneBy ==
  ASSUME OneTab, NEW s \in Sessions,
         (/\ ses[s].mine = active
          /\ syncing[s].phase # "idle"
               => ses[s].modal /\ ~Saving(s) /\ syncing[s].source = active
          /\ Saving(s) => ses[s].modal /\ saving[s].source = active
          /\ saving[s].phase = "write" => saving[s].dest = active)'
  PROVE  Alone'
  BY DEF OneTab, Alone

LEMMA AloneUser ==
  ASSUME TypeOK, OneTab, Alone, NEW s \in Sessions, User(s) \/ Poll(s)
  PROVE  Alone'
<1>0. /\ ses[s] \in Session /\ ses[s].mine = active /\ active \in Profiles
      /\ syncing[s].phase # "idle" => ses[s].modal
      /\ Saving(s) => ses[s].modal
  BY SessionFacts DEF Alone
<1>1. ASSUME NEW p, NEW q, BeginSync(s, p, q)
      PROVE  syncing'[s].source = p
  BY <1>1 DEF BeginSync, TypeOK, IdleSync
<1>2. ASSUME NEW tree, NEW forced, BeginSave(s, tree, forced)
      PROVE  saving'[s].phase = "push" /\ saving'[s].source = active
  BY <1>2 DEF BeginSave, TypeOK, IdleSave
<1>3. CASE StartSync(s)
  <2>1. ~Saving(s) /\ UNCHANGED <<saving, active>>
    BY <1>0, <1>3 DEF StartSync, Idle
  <2>2. ses'[s].mine = active /\ ses'[s].modal
    BY <1>0, <1>3 DEF StartSync, TypeOK, Session
  <2>3. syncing'[s].source = active
    BY <1>1, <1>3 DEF StartSync
  <2> QED  BY <2>1, <2>2, <2>3, AloneBy DEF Saving
<1>4. CASE StartSave(s) \/ RestoreTree(s)
  <2>1. syncing[s].phase = "idle" /\ UNCHANGED <<syncing, active>>
    BY <1>0, <1>4 DEF StartSave, RestoreTree
  <2>2. CASE \E tree, forced : BeginSave(s, tree, forced)
    <3>1. ses'[s].mine = active /\ ses'[s].modal
      BY <1>0, <2>2 DEF BeginSave, TypeOK, Session
    <3>2. saving'[s].phase = "push" /\ saving'[s].source = active
      BY <1>2, <2>2
    <3> QED  BY <2>1, <3>1, <3>2, AloneBy DEF Saving
  <2>3. CASE ses' = [ses EXCEPT ![s].pending = TRUE] /\ UNCHANGED saving
    <3>1. ses'[s].mine = active /\ ses'[s].modal = ses[s].modal
      BY <1>0, <2>3 DEF TypeOK, Session
    <3> QED  BY <2>1, <2>3, <3>1, AloneBy DEF Saving, Alone
  <2> QED  BY <1>4, <2>2, <2>3 DEF StartSave, RestoreTree
<1>5. ASSUME NEW p \in Profiles, Switch(s, p) PROVE Alone'
  <2>1. ~Saving(s) /\ syncing[s].phase = "idle" /\ active' = p /\ UNCHANGED saving
    BY <1>0, <1>5 DEF Switch
  <2>2. syncing'[s].source = p
    BY <1>1, <1>5, <2>1 DEF Switch
  <2>3. ses'[s].mine = p /\ ses'[s].modal
    <3>1. ses' = [ses EXCEPT ![s] = Cleaned(s, p)]
      BY <1>5, <2>1 DEF Switch
    <3>2. Cleaned(s, p).mine = p /\ Cleaned(s, p).modal
      BY <1>0 DEF Cleaned, Session
    <3> QED  BY <3>1, <3>2 DEF TypeOK
  <2> QED  BY <2>1, <2>2, <2>3, AloneBy DEF Saving
<1>6. CASE (\E f \in Files : EditMirror(s, f)) \/ Poll(s)
  <2>1. UNCHANGED <<saving, active>>
    BY <1>6 DEF EditMirror, Poll
  <2>2. ses[s].polled # "unknown"
    BY <1>0 DEF Session, OneTab
  <2>3. UNCHANGED syncing
    BY <1>6, <2>2 DEF EditMirror, Poll
  <2>4. \/ ses' = [ses EXCEPT ![s].pending = TRUE, ![s].expected = Loaded(s)]
        \/ ses' = [ses EXCEPT ![s].polled = status[active]]
    BY <1>6, <2>2 DEF EditMirror, Poll
  <2>5. ses'[s].mine = active /\ ses'[s].modal = ses[s].modal
    BY <1>0, <2>4 DEF TypeOK, Session
  <2> QED  BY <2>1, <2>3, <2>5, AloneBy DEF Saving, Alone
<1> QED  BY <1>3, <1>4, <1>5, <1>6 DEF User

LEMMA AloneThreads ==
  ASSUME TypeOK, OneTab, Alone, NEW s \in Sessions,
         SyncStep(s) \/ SaveStep(s) \/ Failing(s)
  PROVE  Alone'
<1>0. /\ ses[s] \in Session /\ ses[s].mine = active /\ active \in Profiles
      /\ syncing[s] \in Sync /\ saving[s] \in Save
      /\ syncing[s].phase # "idle" => ses[s].modal /\ ~Saving(s) /\ syncing[s].source = active
      /\ Saving(s) => ses[s].modal /\ saving[s].source = active
      /\ saving[s].phase = "write" => saving[s].dest = active
  BY SessionFacts DEF Alone, TypeOK
<1>1. UNCHANGED active
  BY DEF SyncStep, SaveStep, Failing, DownloadNext, PruneMirror, CommitSync, FailSync, FailSave,
     FailWrite, SkipProtected, CheckPush, WriteNext, StartPrune, CheckRemoval, RemoveNext,
     RefuseRemoval, FinishSave, RestartKlipper
<1>2. ses'[s].mine = active
  <2>1. CASE UNCHANGED ses
    BY <1>0, <2>1
  <2>2. ASSUME NEW c, \/ ses' = [ses EXCEPT ![s].expected = c]
                      \/ ses' = [ses EXCEPT ![s].expected = c, ![s].modal = FALSE]
                      \/ ses' = [ses EXCEPT ![s].pending = FALSE, ![s].modal = FALSE]
                      \/ ses' = [ses EXCEPT ![s].modal = FALSE]
        PROVE  ses'[s].mine = active
    BY <1>0, <2>2 DEF TypeOK, Session
  <2>3. CASE SyncStep(s)
    BY <2>1, <2>2, <2>3 DEF SyncStep, DownloadNext, PruneMirror, CommitSync
  <2>4. CASE Failing(s)
    BY <2>2, <2>4 DEF Failing, FailSync, FailSave, FailWrite, Failed
  <2>5. CASE SkipProtected(s) \/ StartPrune(s) \/ RefuseRemoval(s) \/ FinishSave(s)
               \/ RestartKlipper(s)
    BY <2>1, <2>2, <2>5 DEF SkipProtected, StartPrune, RefuseRemoval, FinishSave,
       RestartKlipper, Saved
  <2>6. CASE CheckPush(s) \/ CheckRemoval(s)
    BY <2>1, <2>2, <2>6 DEF CheckPush, CheckRemoval, Refused
  <2>7. CASE WriteNext(s) \/ RemoveNext(s)
    BY <2>1, <2>2, <2>7 DEF WriteNext, RemoveNext
  <2> QED  BY <2>3, <2>4, <2>5, <2>6, <2>7 DEF SaveStep
<1>3. CASE DownloadNext(s) \/ PruneMirror(s)
  <2>1. syncing[s].phase # "idle" /\ UNCHANGED <<ses, saving>>
    BY <1>3 DEF DownloadNext, PruneMirror
  <2>2. syncing'[s].source = active
    <3>1. CASE DownloadNext(s)
      <4>1. PICK f, t : syncing' = [syncing EXCEPT ![s].todo = @ \ {f}, ![s].got[f] = t]
        BY <3>1 DEF DownloadNext
      <4> QED  BY <1>0, <2>1, <4>1 DEF TypeOK, Sync
    <3>2. CASE PruneMirror(s)
      BY <1>0, <2>1, <3>2 DEF PruneMirror, TypeOK, Sync
    <3> QED  BY <1>3, <3>1, <3>2
  <2> QED  BY <1>0, <1>1, <1>2, <2>1, <2>2, AloneBy DEF Saving
<1>4. CASE CommitSync(s) \/ FailSync(s)
  <2>1. syncing[s].phase # "idle" /\ UNCHANGED saving
    BY <1>4 DEF CommitSync, FailSync
  <2>2. syncing'[s].phase = "idle"
    BY <1>4 DEF CommitSync, FailSync, IdleSync, TypeOK
  <2> QED  BY <1>0, <1>1, <1>2, <2>1, <2>2, AloneBy DEF Saving
\* A save that goes on, one that goes on behind its dialog, and one that ends.
<1>5. CASE SaveStep(s) \/ FailSave(s) \/ FailWrite(s)
  <2>1. Saving(s)
    BY <1>5 DEF SaveStep, FailSave, FailWrite, SkipProtected, CheckPush, WriteNext, StartPrune,
       CheckRemoval, RemoveNext, RefuseRemoval, FinishSave, RestartKlipper, Saving
  <2>2. UNCHANGED syncing /\ syncing[s].phase = "idle"
    BY <1>0, <1>5, <2>1 DEF SaveStep, FailSave, FailWrite, SkipProtected, CheckPush, WriteNext,
       StartPrune, CheckRemoval, RemoveNext, RefuseRemoval, FinishSave, RestartKlipper
  <2>3. ASSUME saving'[s].phase \in {"idle", "refused"} PROVE Alone'
    BY <1>1, <1>2, <2>2, <2>3, AloneBy DEF Saving
  <2>4. ASSUME saving'[s].source = active, ses'[s].modal,
               saving'[s].phase = "write" => saving'[s].dest = active
        PROVE  Alone'
    BY <1>1, <1>2, <2>2, <2>4, AloneBy
  <2>5. CASE FailSave(s) \/ FailWrite(s) \/ Saved(s)
    <3>1. saving'[s].phase = "idle"
      BY <2>5 DEF FailSave, FailWrite, Failed, Saved, IdleSave, TypeOK
    <3> QED  BY <2>3, <3>1
  <2>6. CASE SkipProtected(s) \/ StartPrune(s) \/ RemoveNext(s) \/ RefuseRemoval(s)
    <3>1. ASSUME NEW F, NEW K, NEW x \in {"push", "prune"},
                 \/ saving' = [saving EXCEPT ![s].todo = F] /\ saving[s].phase = "push"
                 \/ saving' = [saving EXCEPT ![s].phase = x, ![s].todo = F]
                 \/ saving' = [saving EXCEPT ![s].phase = x, ![s].todo = F, ![s].kept = K]
          PROVE  saving'[s].source = active /\ saving'[s].phase # "write"
      BY <1>0, <2>1, <3>1 DEF TypeOK, Save
    <3>2. saving'[s].source = active /\ saving'[s].phase # "write"
      BY <2>6, <3>1 DEF SkipProtected, StartPrune, RemoveNext, RefuseRemoval
    <3>3. UNCHANGED ses \/ \E c : ses' = [ses EXCEPT ![s].expected = c]
      BY <2>6 DEF SkipProtected, StartPrune, RemoveNext, RefuseRemoval, printers
    <3>4. ses'[s].modal
      BY <1>0, <2>1, <3>3 DEF TypeOK, Session
    <3> QED  BY <2>4, <3>2, <3>4
  <2>7. CASE CheckPush(s) \/ CheckRemoval(s)
    <3>1. CASE \E known, p : Refused(s, known, p)
      <4>1. saving'[s].phase = "refused"
        BY <1>0, <3>1 DEF Refused, TypeOK, Save
      <4> QED  BY <2>3, <4>1
    <3>2. CASE /\ \/ UNCHANGED ses
                  \/ ses' = [ses EXCEPT ![s].expected = Loaded(s)]
               /\ \/ saving' = [saving EXCEPT ![s].phase = "remove", ![s].dest = saving[s].source]
                  \/ \E f : saving' = [saving EXCEPT ![s].phase = "write", ![s].dest = active,
                                         ![s].payload = mirror[ses[s].mine][f]]
      <4>1. saving'[s].source = active /\ saving'[s].dest = active
        BY <1>0, <2>1, <3>2 DEF TypeOK, Save
      <4>2. ses'[s].modal
        BY <1>0, <2>1, <3>2 DEF TypeOK, Session
      <4> QED  BY <2>4, <4>1, <4>2
    <3> QED  BY <2>7, <3>1, <3>2 DEF CheckPush, CheckRemoval
  <2>8. CASE WriteNext(s)
    <3>1. /\ saving'[s].source = active /\ saving'[s].phase # "write"
      BY <1>0, <2>1, <2>8 DEF WriteNext, TypeOK, Save
    <3>2. ses'[s].modal
      BY <1>0, <2>1, <2>8 DEF WriteNext, TypeOK, Session
    <3> QED  BY <2>4, <3>1, <3>2
  <2>9. CASE saving' = [saving EXCEPT ![s].phase = "restart"] /\ UNCHANGED ses
    <3>1. /\ saving'[s].source = active /\ saving'[s].phase # "write"
      BY <1>0, <2>1, <2>9 DEF TypeOK, Save
    <3> QED  BY <1>0, <2>1, <2>4, <2>9, <3>1
  <2> QED  BY <1>5, <2>5, <2>6, <2>7, <2>8, <2>9 DEF SaveStep, FinishSave, RestartKlipper
<1> QED  BY <1>3, <1>4, <1>5 DEF SyncStep, Failing

LEMMA AloneStep ==
  ASSUME TypeOK, OneTab, Alone, [Next]_vars
  PROVE  Alone'
<1>1. CASE UNCHANGED <<ses, syncing, saving, active>>
  BY <1>1 DEF Alone, Saving
<1>2. CASE Restart
  BY <1>2 DEF Restart, Alone, NewSession, IdleSync, IdleSave, Saving
<1>3. CASE Outside
  BY <1>1, <1>2, <1>3 DEF Outside, ChangeStatus, EditRemote
<1>4. CASE UNCHANGED vars
  BY <1>1, <1>4 DEF vars
<1> QED  BY <1>3, <1>4, AloneUser, AloneThreads DEF Next

LEMMA OneTabHist == Spec /\ OneTab => [](TypeOK /\ SaveOK /\ Hist /\ Aligned)
<1>1. Init /\ OneTab => OneTab /\ Alone /\ Hist
  BY InitHist DEF Init, Alone, NewSession, IdleSync, IdleSave, Saving
<1>2. TypeOK /\ SaveOK /\ OneTab /\ Alone /\ Hist /\ [Next]_vars => OneTab' /\ Alone' /\ Hist'
  BY HistStep, AloneStep, AloneAligned DEF OneTab
<1> QED  BY <1>1, <1>2, AloneAligned, Typed, PTL DEF Spec

\* A single tab that switches between any number of reachable printers never takes
\* a checksum of one printer for another's.
THEOREM OneTabSnapshots == Spec /\ OneTab => []SnapshotsAreHistory
  BY OneTabHist, HistMeans, PTL

\* With one session whose poll starts no scan, a save to any of several printers
\* replaces or removes only what KlipperVault has seen on that printer.
THEOREM OneTabSeen == Spec /\ OneTab => ReplacesOnlySeenText
<1>1. TypeOK /\ SaveOK /\ Hist /\ Aligned /\ [Next]_vars
        => [\A s \in Sessions :
              saving'[s].phase \in {"write", "remove"} /\ saving[s].phase # saving'[s].phase
                => LET p == saving'[s].dest
                   IN  \A f \in Foremost(saving[s].todo) :
                         remote[p][f] \in exchanged[p][f]]_vars
  BY SeenStep
<1> QED  BY <1>1, OneTabHist, PTL DEF Spec, ReplacesOnlySeenText

-----------------------------------------------------------------------------
(***************************************************************************)
(* What a finished save has sent.  For a file that nobody else changed     *)
(* since the save began: the save's list is right about it; once gone      *)
(* through it is on the printer as in the mirror; and one that was not on  *)
(* the list is about to be removed, was refused to be, or is not there.    *)
(***************************************************************************)
SentFile(s, f) ==
  LET t == mirror[ses[s].mine][f]
      there == remote[saving[s].source][f]
      listed == f \in saving[s].local
      left == f \in saving[s].todo
      x == saving[s].phase
  IN  Saving(s) /\ <<s, f>> \notin touched =>
        /\ listed <=> t # Absent
        /\ x \in {"push", "write"} /\ listed /\ ~left => there = t
        /\ x = "write" /\ f \in Foremost(saving[s].todo) => saving[s].payload = t
        /\ x \in {"prune", "remove", "restart"} /\ listed => ~left /\ there = t
        /\ x \in {"prune", "remove", "restart"} /\ ~listed
             => left \/ there = Absent \/ f \in saving[s].kept
        /\ x = "restart" => ~left

Sent == \A s \in Sessions : \A f \in Files \ Protected : SentFile(s, f)

\* File f is as it was, for the save of s too.
Untouched(s, f) == /\ <<s, f>> \notin touched
                   /\ \A p \in Profiles : /\ remote'[p][f] = remote[p][f]
                                          /\ mirror'[p][f] = mirror[p][f]

LEMMA TouchMeans ==
  ASSUME NEW s \in Sessions, NEW f, NEW F, NEW S, Touch(F, S), Saving(s), s \in S,
         <<s, f>> \notin touched'
  PROVE  f \notin F /\ <<s, f>> \notin touched
  BY DEF Touch

LEMMA UploadElsewhere ==
  ASSUME TypeOK, NEW o \in Sessions, NEW s \in Sessions \ {o}, NEW g \in Files,
         Upload(o, g) \/ TornUpload(o, g), Saving(s), UNCHANGED mirror, NEW f \in Files,
         <<s, f>> \notin touched'
  PROVE  Untouched(s, f)
<1>1. f # g /\ <<s, f>> \notin touched
  BY TouchMeans DEF Upload, TornUpload
<1>2. saving[o].dest \in Profiles
  BY SessionFacts
<1>3. ASSUME NEW p \in Profiles PROVE remote'[p][f] = remote[p][f]
  <2>1. PICK t : remote' = [remote EXCEPT ![saving[o].dest][g] = t]
    BY DEF Upload, TornUpload
  <2> QED  BY <1>1, <1>2, <2>1 DEF TypeOK, Tree
<1> QED  BY <1>1, <1>3 DEF Untouched

\* The steps of people, printers and downloads change no file of the save of s
\* without its being noticed, and leave the save alone.
LEMMA UntouchedUser ==
  ASSUME TypeOK, NEW s \in Sessions, Saving(s), NEW o \in Sessions, User(o),
         NEW f \in Files, <<s, f>> \notin touched'
  PROVE  Untouched(s, f) /\ saving'[s] = saving[s]
<1>1. CASE StartSync(o) \/ \E p \in Profiles : Switch(o, p)
  BY <1>1 DEF StartSync, Switch, Untouched, printers
<1>2. ASSUME NEW g \in Files, EditMirror(o, g) PROVE Untouched(s, f) /\ saving'[s] = saving[s]
  <2>1. PICK t \in Texts, u \in Texts, F \in SUBSET Protected :
          /\ mirror' = [mirror EXCEPT ![ses[o].mine] =
               [h \in Files |-> IF h = g THEN t ELSE IF h \in F THEN u ELSE @[h]]]
          /\ Touch({g} \cup F, Sessions)
    BY <1>2 DEF EditMirror
  <2>2. f \notin {g} \cup F /\ <<s, f>> \notin touched
    BY <2>1, TouchMeans
  <2>3. ASSUME NEW p \in Profiles PROVE mirror'[p][f] = mirror[p][f]
    BY <2>1, <2>2 DEF TypeOK
  <2> QED  BY <1>2, <2>2, <2>3 DEF EditMirror, Untouched, printers
<1>3. ASSUME NEW tree, NEW forced, BeginSave(o, tree, forced), o # s
      PROVE  saving'[s] = saving[s]
  BY <1>3 DEF BeginSave, TypeOK
<1>4. CASE StartSave(o)
  <2>1. o # s
    BY <1>4 DEF StartSave
  <2>2. <<s, f>> \notin touched
    BY <1>4, <2>1 DEF StartSave
  <2> QED  BY <1>3, <1>4, <2>1, <2>2 DEF StartSave, Untouched, printers
<1>5. CASE RestoreTree(o)
  <2>1. o # s
    BY <1>5 DEF RestoreTree
  <2> QED  BY <1>5, <2>1 DEF RestoreTree
<1> QED  BY <1>1, <1>2, <1>4, <1>5 DEF User

LEMMA UntouchedSync ==
  ASSUME TypeOK, NEW s \in Sessions, Saving(s), NEW o \in Sessions,
         SyncStep(o) \/ FailSync(o) \/ Poll(o), NEW f \in Files, <<s, f>> \notin touched'
  PROVE  Untouched(s, f) /\ saving'[s] = saving[s]
<1>0. syncing[o].target \in Profiles /\ syncing[o].todo \subseteq Files
  BY DEF TypeOK, Sync
<1>1. CASE DownloadNext(o)
  <2>1. PICK g \in Files :
          /\ \E t : mirror' = [mirror EXCEPT ![syncing[o].target][g] = t]
          /\ Touch({g}, Sessions)
    BY <1>0, <1>1 DEF DownloadNext, Foremost
  <2>2. f # g /\ <<s, f>> \notin touched
    BY <2>1, TouchMeans
  <2>3. ASSUME NEW p \in Profiles PROVE mirror'[p][f] = mirror[p][f]
    BY <1>0, <2>1, <2>2 DEF TypeOK, Tree
  <2> QED  BY <1>1, <2>2, <2>3 DEF DownloadNext, Untouched
<1>2. CASE PruneMirror(o)
  <2> DEFINE gone == {g \in Files : /\ syncing[o].got[g] = Absent
                                    /\ mirror[syncing[o].target][g] # Absent}
  <2>1. /\ mirror' = [mirror EXCEPT ![syncing[o].target] =
                        [g \in Files |-> IF g \in gone THEN Absent ELSE @[g]]]
        /\ Touch(gone, Sessions)
    BY <1>2 DEF PruneMirror
  <2>2. f \notin gone /\ <<s, f>> \notin touched
    BY <2>1, TouchMeans
  <2>3. ASSUME NEW p \in Profiles PROVE mirror'[p][f] = mirror[p][f]
    BY <1>0, <2>1, <2>2 DEF TypeOK
  <2> QED  BY <1>2, <2>2, <2>3 DEF PruneMirror, Untouched, printers
<1>3. CASE CommitSync(o) \/ FailSync(o) \/ Poll(o)
  BY <1>3 DEF CommitSync, FailSync, Poll, Untouched, printers
<1> QED  BY <1>1, <1>2, <1>3 DEF SyncStep

LEMMA UntouchedSave ==
  ASSUME TypeOK, NEW o \in Sessions, NEW s \in Sessions \ {o}, Saving(s),
         SaveStep(o) \/ FailSave(o) \/ FailWrite(o), NEW f \in Files, <<s, f>> \notin touched'
  PROVE  Untouched(s, f) /\ saving'[s] = saving[s]
<1>0. saving[o].todo \subseteq Files /\ saving[o].source \in Profiles
  BY SessionFacts
<1>1. saving'[s] = saving[s]
  BY DEF SaveStep, SkipProtected, CheckPush, WriteNext, StartPrune, CheckRemoval,
     RemoveNext, RefuseRemoval, FinishSave, RestartKlipper, FailSave, FailWrite, Refused, Saved,
     Failed, TypeOK
<1>2. UNCHANGED mirror
  BY DEF SaveStep, SkipProtected, CheckPush, WriteNext, StartPrune, CheckRemoval,
     RemoveNext, RefuseRemoval, FinishSave, RestartKlipper, FailSave, FailWrite
<1>3. CASE WriteNext(o) \/ FailWrite(o)
  <2>1. PICK g \in Files : Upload(o, g) \/ TornUpload(o, g)
    BY <1>0, <1>3 DEF WriteNext, FailWrite, Foremost
  <2> QED  BY <1>1, <1>2, <2>1, UploadElsewhere
<1>4. CASE RemoveNext(o)
  <2> DEFINE p == saving[o].source
  <2>1. PICK g \in Files :
          /\ remote' = [remote EXCEPT ![p][g] = Absent]
          /\ Touch({g}, Sessions \ {o})
    BY <1>0, <1>4 DEF RemoveNext, Foremost
  <2>2. f # g /\ <<s, f>> \notin touched
    BY <2>1, TouchMeans
  <2>3. ASSUME NEW q \in Profiles PROVE remote'[q][f] = remote[q][f]
    BY <1>0, <2>1, <2>2 DEF TypeOK, Tree
  <2> QED  BY <1>1, <1>2, <2>2, <2>3 DEF Untouched
<1>5. CASE \/ SkipProtected(o) \/ CheckPush(o) \/ StartPrune(o) \/ CheckRemoval(o)
           \/ RefuseRemoval(o) \/ FinishSave(o) \/ RestartKlipper(o) \/ FailSave(o)
  <2>1. UNCHANGED <<remote, touched>>
    BY <1>5 DEF SkipProtected, CheckPush, StartPrune, CheckRemoval, RefuseRemoval, FinishSave,
       RestartKlipper, FailSave, printers
  <2> QED  BY <1>1, <1>2, <2>1 DEF Untouched
<1> QED  BY <1>3, <1>4, <1>5 DEF SaveStep

LEMMA UntouchedOutside ==
  ASSUME TypeOK, NEW s \in Sessions, Saving(s), Outside, ~Restart,
         NEW f \in Files, <<s, f>> \notin touched'
  PROVE  Untouched(s, f) /\ saving'[s] = saving[s]
<1>1. ASSUME NEW q \in Profiles, ChangeStatus(q)
      PROVE  Untouched(s, f) /\ saving'[s] = saving[s]
  BY <1>1 DEF ChangeStatus, Untouched
<1>2. ASSUME NEW q \in Profiles, NEW g \in Files, EditRemote(q, g)
      PROVE  Untouched(s, f) /\ saving'[s] = saving[s]
  <2>1. PICK t : remote' = [remote EXCEPT ![q][g] = t]
    BY <1>2 DEF EditRemote
  <2>2. f # g /\ <<s, f>> \notin touched
    BY <1>2, TouchMeans DEF EditRemote
  <2>3. ASSUME NEW p \in Profiles PROVE remote'[p][f] = remote[p][f]
    BY <2>1, <2>2 DEF TypeOK, Tree
  <2> QED  BY <1>2, <2>2, <2>3 DEF EditRemote, Untouched
<1> QED  BY <1>1, <1>2 DEF Outside

-----------------------------------------------------------------------------
\* A save that does not move keeps what it has sent: its session is not switched
\* to another printer meanwhile.
LEMMA SentStill ==
  ASSUME TypeOK, TypeOK', Aligned, Aligned', NEW s \in Sessions, NEW f \in Files,
         SentFile(s, f), saving'[s] = saving[s],
         Saving(s) /\ <<s, f>> \notin touched' => Untouched(s, f)
  PROVE  SentFile(s, f)'
<1> SUFFICES ASSUME Saving(s), <<s, f>> \notin touched'
             PROVE  SentFile(s, f)'
  BY DEF SentFile, Saving
<1>1. ses'[s].mine = ses[s].mine /\ saving[s].source = ses[s].mine
  BY DEF Aligned, Saving
<1>2. saving[s].source \in Profiles
  BY SessionFacts
<1>3. /\ remote'[saving[s].source][f] = remote[saving[s].source][f]
      /\ mirror'[ses[s].mine][f] = mirror[ses[s].mine][f]
      /\ <<s, f>> \notin touched
  BY <1>1, <1>2 DEF Untouched
<1> QED  BY <1>1, <1>3 DEF SentFile, Saving

\* A save begins with everything still to send.
LEMMA SentBegins ==
  ASSUME TypeOK, NEW s \in Sessions, NEW tree \in Tree, NEW forced, BeginSave(s, tree, forced),
         mirror'[ses[s].mine] = tree, NEW f \in Files
  PROVE  SentFile(s, f)'
<1>1. /\ saving'[s].phase = "push" /\ saving'[s].todo = Listing(tree)
      /\ saving'[s].local = Listing(tree)
  BY DEF BeginSave, TypeOK, IdleSave
<1>2. ses'[s].mine = ses[s].mine
  BY SessionFacts DEF BeginSave, TypeOK, Session
<1> QED  BY <1>1, <1>2 DEF SentFile, Listing

\* The steps of the save itself.
LEMMA SentOwn ==
  ASSUME TypeOK, SaveOK, Aligned, NEW s \in Sessions, NEW f \in Files \ Protected,
         SentFile(s, f), SaveStep(s) \/ FailSave(s) \/ FailWrite(s)
  PROVE  SentFile(s, f)'
<1>0. /\ saving[s] \in Save /\ saving[s].todo \subseteq Files /\ saving[s].source \in Profiles
      /\ ses[s] \in Session /\ ses[s].mine \in Profiles
  BY SessionFacts
<1>1. ASSUME saving'[s].phase \in {"idle", "refused"} PROVE SentFile(s, f)'
  BY <1>1 DEF SentFile, Saving
<1>2. ASSUME Saved(s) \/ Failed(s) PROVE SentFile(s, f)'
  <2>1. saving'[s].phase = "idle"
    BY <1>2 DEF Saved, Failed, TypeOK, IdleSave
  <2> QED  BY <1>1, <2>1
<1>3. ASSUME NEW known, NEW p, Refused(s, known, p) PROVE SentFile(s, f)'
  <2>1. saving'[s].phase = "refused"
    BY <1>0, <1>3 DEF Refused, TypeOK, Save
  <2> QED  BY <1>1, <2>1
<1>4. CASE SkipProtected(s)
  <2>1. PICK g \in Protected : saving' = [saving EXCEPT ![s].todo = @ \ {g}]
    BY <1>4 DEF SkipProtected, Skipped
  <2>2. /\ saving'[s].todo = saving[s].todo \ {g} /\ saving'[s].local = saving[s].local
        /\ saving'[s].kept = saving[s].kept
        /\ saving'[s].source = saving[s].source /\ saving'[s].phase = saving[s].phase
    BY <1>0, <2>1 DEF TypeOK, Save
  <2>3. saving[s].phase = "push" /\ UNCHANGED <<remote, mirror, ses, touched>>
    BY <1>4 DEF SkipProtected, printers
  <2> QED  BY <2>2, <2>3 DEF SentFile, Saving
<1>5. CASE CheckPush(s)
  <2>1. PICK g \in Foremost(saving[s].todo) :
          \/ /\ saving' = [saving EXCEPT ![s].phase = "write", ![s].dest = active,
                                         ![s].payload = mirror[ses[s].mine][g]]
             /\ ses' = [ses EXCEPT ![s].expected = Loaded(s)]
          \/ Refused(s, Loaded(s), active)
    BY <1>5 DEF CheckPush
  <2>2. CASE saving' = [saving EXCEPT ![s].phase = "write", ![s].dest = active,
                                      ![s].payload = mirror[ses[s].mine][g]]
             /\ ses' = [ses EXCEPT ![s].expected = Loaded(s)]
    <3>1. /\ saving'[s].todo = saving[s].todo /\ saving'[s].local = saving[s].local
          /\ saving'[s].kept = saving[s].kept
          /\ saving'[s].source = saving[s].source /\ saving'[s].phase = "write"
          /\ saving'[s].payload = mirror[ses[s].mine][g]
      BY <1>0, <2>2 DEF TypeOK, Save
    <3>2. ses'[s].mine = ses[s].mine
      BY <1>0, <2>2 DEF TypeOK, Session
    <3>3. saving[s].phase = "push" /\ UNCHANGED <<remote, mirror, touched>>
      BY <1>5 DEF CheckPush, printers
    <3>4. f \in Foremost(saving[s].todo) => f = g
      BY <1>0, ForemostIsOne
    <3> QED  BY <3>1, <3>2, <3>3, <3>4 DEF SentFile, Saving
  <2> QED  BY <1>3, <2>1, <2>2
<1>6. CASE WriteNext(s)
  <2>1. PICK g \in Foremost(saving[s].todo) :
          /\ Upload(s, g)
          /\ \E c : ses' = [ses EXCEPT ![s].expected = c]
          /\ saving' = [saving EXCEPT ![s].phase = "push", ![s].todo = @ \ {g},
                                      ![s].uploaded = TRUE]
    BY <1>6 DEF WriteNext
  <2>2. /\ saving'[s].todo = saving[s].todo \ {g} /\ saving'[s].local = saving[s].local
        /\ saving'[s].kept = saving[s].kept
        /\ saving'[s].source = saving[s].source /\ saving'[s].phase = "push"
    BY <1>0, <2>1 DEF TypeOK, Save
  <2>3. ses'[s].mine = ses[s].mine
    BY <1>0, <2>1 DEF TypeOK, Session
  <2>4. saving[s].phase = "write" /\ UNCHANGED mirror
    BY <1>6 DEF WriteNext
  <2>5. saving[s].dest = saving[s].source
    BY <2>4 DEF Aligned, Saving
  <2>6. remote'[saving[s].source][f] = IF f = g THEN saving[s].payload
                                       ELSE remote[saving[s].source][f]
    BY <1>0, <2>1, <2>5 DEF Upload, TypeOK, Tree
  <2>7. <<s, f>> \notin touched' => <<s, f>> \notin touched
    BY <2>1 DEF Upload, Touch
  <2> QED  BY <2>1, <2>2, <2>3, <2>4, <2>6, <2>7 DEF SentFile, Saving
<1>7. CASE StartPrune(s)
  <2>1. /\ saving'[s].todo = Surplus(s) /\ saving'[s].local = saving[s].local
        /\ saving'[s].kept = saving[s].kept
        /\ saving'[s].source = saving[s].source /\ saving'[s].phase = "prune"
    BY <1>0, <1>7 DEF StartPrune, TypeOK, Save
  <2>2. /\ saving[s].phase = "push" /\ saving[s].todo = {}
        /\ UNCHANGED <<remote, mirror, ses, touched>>
    BY <1>7 DEF StartPrune, printers
  <2> QED  BY <2>1, <2>2 DEF SentFile, Saving, Surplus, Listing
<1>8. CASE CheckRemoval(s)
  <2>1. CASE /\ saving' = [saving EXCEPT ![s].phase = "remove", ![s].dest = saving[s].source]
             /\ UNCHANGED ses
    <3>1. /\ saving'[s].todo = saving[s].todo /\ saving'[s].local = saving[s].local
          /\ saving'[s].kept = saving[s].kept
          /\ saving'[s].source = saving[s].source /\ saving'[s].phase = "remove"
      BY <1>0, <2>1 DEF TypeOK, Save
    <3>2. saving[s].phase = "prune" /\ UNCHANGED <<remote, mirror, touched>>
      BY <1>8 DEF CheckRemoval, printers
    <3> QED  BY <2>1, <3>1, <3>2 DEF SentFile, Saving
  <2> QED  BY <1>3, <1>8, <2>1 DEF CheckRemoval
<1>9. CASE RemoveNext(s)
  <2> DEFINE p == saving[s].source
  <2>1. PICK g \in Foremost(saving[s].todo) :
          /\ remote' = [remote EXCEPT ![p][g] = Absent]
          /\ \E c : ses' = [ses EXCEPT ![s].expected = c]
          /\ saving' = [saving EXCEPT ![s].phase = "prune", ![s].todo = @ \ {g}]
          /\ Touch({g}, Sessions \ {s})
    BY <1>9 DEF RemoveNext
  <2>2. /\ saving'[s].todo = saving[s].todo \ {g} /\ saving'[s].local = saving[s].local
        /\ saving'[s].kept = saving[s].kept
        /\ saving'[s].source = p /\ saving'[s].phase = "prune"
    BY <1>0, <2>1 DEF TypeOK, Save
  <2>3. ses'[s].mine = ses[s].mine
    BY <1>0, <2>1 DEF TypeOK, Session
  <2>4. saving[s].phase = "remove" /\ UNCHANGED mirror
    BY <1>9 DEF RemoveNext
  <2>5. remote'[p][f] = IF f = g THEN Absent ELSE remote[p][f]
    BY <1>0, <2>1 DEF TypeOK, Tree
  <2>6. <<s, f>> \notin touched' => <<s, f>> \notin touched
    BY <2>1 DEF Touch
  <2>7. g \in saving[s].todo
    BY <2>1 DEF Foremost
  <2> QED  BY <2>2, <2>3, <2>4, <2>5, <2>6, <2>7 DEF SentFile, Saving
<1>10. CASE RefuseRemoval(s)
  <2>1. PICK g \in saving[s].todo :
          /\ saving'[s].todo = saving[s].todo \ {g} /\ saving'[s].local = saving[s].local
          /\ saving'[s].kept = saving[s].kept \cup {g}
          /\ saving'[s].source = saving[s].source /\ saving'[s].phase = "prune"
    BY <1>10, RefusalMoves
  <2>2. saving[s].phase = "remove" /\ UNCHANGED <<remote, mirror, ses, touched>>
    BY <1>10 DEF RefuseRemoval, printers
  <2> QED  BY <2>1, <2>2 DEF SentFile, Saving
<1>11. CASE FinishSave(s)
  <2>1. CASE saving' = [saving EXCEPT ![s].phase = "restart"] /\ UNCHANGED ses
    <3>1. /\ saving'[s].todo = saving[s].todo /\ saving'[s].local = saving[s].local
          /\ saving'[s].kept = saving[s].kept
          /\ saving'[s].source = saving[s].source /\ saving'[s].phase = "restart"
      BY <1>0, <2>1 DEF TypeOK, Save
    <3>2. /\ saving[s].phase = "prune" /\ saving[s].todo = {}
          /\ UNCHANGED <<remote, mirror, touched>>
      BY <1>11 DEF FinishSave, printers
    <3> QED  BY <2>1, <3>1, <3>2 DEF SentFile, Saving
  <2> QED  BY <1>2, <1>11, <2>1 DEF FinishSave
<1>12. CASE RestartKlipper(s) \/ FailSave(s) \/ FailWrite(s)
  BY <1>2, <1>12 DEF RestartKlipper, FailSave, FailWrite
<1> QED  BY <1>4, <1>5, <1>6, <1>7, <1>8, <1>9, <1>11, <1>12, <1>10 DEF SaveStep

\* Outside a save, only the two ways to begin one matter.
LEMMA SentIdle ==
  ASSUME TypeOK, NEW s \in Sessions, ~Saving(s), NEW f \in Files, [Next]_vars
  PROVE  SentFile(s, f)'
<1>1. CASE UNCHANGED saving
  BY <1>1 DEF SentFile, Saving
<1>2. CASE StartSave(s)
  <2>1. mirror[ses[s].mine] \in Tree
    BY SessionFacts DEF TypeOK
  <2>2. BeginSave(s, mirror[ses[s].mine], FALSE) /\ UNCHANGED mirror
    BY <1>2 DEF StartSave
  <2> QED  BY <2>1, <2>2, SentBegins
<1>3. CASE RestoreTree(s)
  <2>1. PICK tree \in Tree :
          /\ mirror' = [mirror EXCEPT ![ses[s].mine] = tree]
          /\ BeginSave(s, tree, TRUE) \/ UNCHANGED saving
    BY <1>3 DEF RestoreTree
  <2>2. mirror'[ses[s].mine] = tree
    BY <2>1, SessionFacts DEF TypeOK
  <2> QED  BY <1>1, <2>1, <2>2, SentBegins
<1>4. CASE Restart
  <2>1. saving'[s].phase = "idle"
    BY <1>4 DEF Restart, IdleSave
  <2> QED  BY <2>1 DEF SentFile, Saving
<1>5. ASSUME SaveStep(s) \/ FailSave(s) \/ FailWrite(s) PROVE FALSE
  BY <1>5 DEF SaveStep, SkipProtected, CheckPush, WriteNext, StartPrune, CheckRemoval,
     RemoveNext, RefuseRemoval, FinishSave, RestartKlipper, FailSave, FailWrite, Saving
<1>6. ASSUME saving'[s] = saving[s] PROVE SentFile(s, f)'
  BY <1>6 DEF SentFile, Saving
<1>7. ASSUME NEW o \in Sessions \ {s}, SaveStep(o) \/ FailSave(o) \/ FailWrite(o)
      PROVE  saving'[s] = saving[s]
  BY <1>7 DEF SaveStep, SkipProtected, CheckPush, WriteNext, StartPrune, CheckRemoval,
     RemoveNext, RefuseRemoval, FinishSave, RestartKlipper, FailSave, FailWrite, Refused, Saved,
     Failed, TypeOK
<1>8. ASSUME NEW o \in Sessions \ {s}, StartSave(o) \/ RestoreTree(o)
      PROVE  saving'[s] = saving[s]
  BY <1>8 DEF StartSave, RestoreTree, BeginSave, TypeOK
<1>9. ASSUME NEW o \in Sessions,
             SyncStep(o) \/ FailSync(o) \/ Poll(o) \/ StartSync(o)
               \/ (\E p \in Profiles : Switch(o, p)) \/ (\E g \in Files : EditMirror(o, g))
      PROVE  UNCHANGED saving
  BY <1>9 DEF SyncStep, DownloadNext, PruneMirror, CommitSync, FailSync, Poll, StartSync, Switch,
     EditMirror
<1>10. CASE UNCHANGED vars
  BY <1>1, <1>10 DEF vars
<1>11. CASE Outside
  BY <1>1, <1>4, <1>11 DEF Outside, ChangeStatus, EditRemote
<1> QED  BY <1>1, <1>2, <1>3, <1>5, <1>6, <1>7, <1>8, <1>9, <1>10, <1>11 DEF Next, Failing, User

LEMMA SentStep ==
  ASSUME TypeOK, TypeOK', SaveOK, Aligned, Aligned', Sent, [Next]_vars
  PROVE  Sent'
<1> SUFFICES ASSUME NEW s \in Sessions, NEW f \in Files \ Protected
             PROVE  SentFile(s, f)'
  BY DEF Sent
<1>1. SentFile(s, f)
  BY DEF Sent
<1>2. CASE ~Saving(s)
  BY <1>2, SentIdle
<1>3. CASE SaveStep(s) \/ FailSave(s) \/ FailWrite(s)
  BY <1>1, <1>3, SentOwn
<1>4. CASE Restart
  <2>1. saving'[s].phase = "idle"
    BY <1>4 DEF Restart, IdleSave
  <2> QED  BY <2>1 DEF SentFile, Saving
\* While s saves, the others' steps.
<1>5. ASSUME Saving(s), NEW o \in Sessions, User(o) PROVE SentFile(s, f)'
  <2>1. saving'[s] = saving[s]
    BY <1>5 DEF User, StartSync, StartSave, RestoreTree, Switch, EditMirror, BeginSave, TypeOK
  <2> QED  BY <1>1, <1>5, <2>1, UntouchedUser, SentStill
<1>6. ASSUME Saving(s), NEW o \in Sessions, SyncStep(o) \/ FailSync(o) \/ Poll(o)
      PROVE  SentFile(s, f)'
  <2>1. saving'[s] = saving[s]
    BY <1>6 DEF SyncStep, DownloadNext, PruneMirror, CommitSync, FailSync, Poll
  <2> QED  BY <1>1, <1>6, <2>1, UntouchedSync, SentStill
<1>7. ASSUME Saving(s), NEW o \in Sessions \ {s}, SaveStep(o) \/ FailSave(o) \/ FailWrite(o)
      PROVE  SentFile(s, f)'
  <2>1. saving'[s] = saving[s]
    BY <1>7 DEF SaveStep, SkipProtected, CheckPush, WriteNext, StartPrune, CheckRemoval,
       RemoveNext, RefuseRemoval, FinishSave, RestartKlipper, FailSave, FailWrite, Refused, Saved,
       Failed, TypeOK
  <2> QED  BY <1>1, <1>7, <2>1, UntouchedSave, SentStill
<1>8. ASSUME Saving(s), Outside, ~Restart PROVE SentFile(s, f)'
  <2>1. saving'[s] = saving[s]
    BY <1>8 DEF Outside, ChangeStatus, EditRemote
  <2> QED  BY <1>1, <1>8, <2>1, UntouchedOutside, SentStill
<1>9. CASE UNCHANGED vars
  BY <1>1, <1>9 DEF vars, SentFile, Saving
<1> QED  BY <1>2, <1>3, <1>4, <1>5, <1>6, <1>7, <1>8, <1>9 DEF Next, Failing

LEMMA InitSent == Init => Sent
  BY DEF Init, Sent, SentFile, Saving, IdleSave

\* A save ends with nothing left to send, nor to remove but what was refused.
LEMMA SavedStep ==
  ASSUME TypeOK, Sent, NEW s \in Sessions, FinishSave(s) \/ RestartKlipper(s),
         saving'[s].phase = "idle", NEW f \in Files \ Protected
  PROVE  \/ <<s, f>> \in touched
         \/ remote[saving[s].source][f] = mirror[ses[s].mine][f]
         \/ f \in saving[s].kept /\ mirror[ses[s].mine][f] = Absent
<1>1. saving[s].phase \in {"prune", "restart"}
  BY DEF FinishSave, RestartKlipper
<1>2. saving[s].phase = "prune" => saving[s].todo = {}
  BY DEF FinishSave, RestartKlipper
<1>3. SentFile(s, f)
  BY DEF Sent
<1> QED  BY <1>1, <1>2, <1>3 DEF SentFile, Saving

LEMMA SavedMeans ==
  TypeOK /\ Sent /\ [Next]_vars
    => [\A s \in Sessions :
          (FinishSave(s) \/ RestartKlipper(s)) /\ saving'[s].phase = "idle"
            => \A f \in Files \ Protected :
                 \/ <<s, f>> \in touched
                 \/ remote[saving[s].source][f] = mirror[ses[s].mine][f]
                 \/ f \in saving[s].kept /\ mirror[ses[s].mine][f] = Absent]_vars
  BY SavedStep

\* With one printer a save that reports success has put every file of the mirror
\* that nobody else changed on the printer, and removed the ones the mirror lost but
\* for those whose removal the printer refused in this save, whatever the other tabs
\* do at the same time.
THEOREM OnePrinterSent == Spec /\ OnePrinter => SavedMeansSent
<1>1. Init /\ OnePrinter => Sent
  BY InitSent
<1>2. (TypeOK /\ SaveOK /\ Hist /\ Aligned) /\ (TypeOK /\ SaveOK /\ Hist /\ Aligned)'
        /\ Sent /\ [Next]_vars => Sent'
  BY SentStep
<1>3. Spec /\ OnePrinter => []Sent
  BY <1>1, <1>2, OnePrinterHist, PTL DEF Spec
<1> QED  BY <1>3, SavedMeans, OnePrinterHist, PTL DEF Spec, SavedMeansSent

\* The same of a single tab that switches between reachable printers: what it
\* reports as saved is on the printer whose mirror it saved, refused removals apart.
THEOREM OneTabSent == Spec /\ OneTab => SavedMeansSent
<1>1. Init /\ OneTab => Sent
  BY InitSent
<1>2. (TypeOK /\ SaveOK /\ Hist /\ Aligned) /\ (TypeOK /\ SaveOK /\ Hist /\ Aligned)'
        /\ Sent /\ [Next]_vars => Sent'
  BY SentStep
<1>3. Spec /\ OneTab => []Sent
  BY <1>1, <1>2, OneTabHist, PTL DEF Spec
<1> QED  BY <1>3, SavedMeans, OneTabHist, PTL DEF Spec, SavedMeansSent

=============================================================================
