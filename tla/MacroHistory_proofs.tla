------------------------ MODULE MacroHistory_proofs ------------------------
(***************************************************************************)
(* Proofs about MacroHistory, for every set of printers, files, names,     *)
(* texts, sessions and overlapping runs, and every bound.                  *)
(***************************************************************************)
EXTENDS MacroHistory, TLAPS

-----------------------------------------------------------------------------
(***************************************************************************)
(* Lemmas about the operators on rows.                                     *)
(***************************************************************************)

\* A fresh row is a row.
LEMMA NewRowType ==
  ASSUME NEW p \in Profiles, NEW f \in Files, NEW n \in Names, NEW v \in Nat \ {0},
         NEW t \in Texts, NEW i \in BOOLEAN
  PROVE  NewRow(p, f, n, v, t, i) \in Row
BY DEF NewRow, Row

\* Promoting a version keeps rows rows: no number falls to zero.
LEMMA PromotedType ==
  ASSUME NEW own \in SUBSET Row, NEW m \in own, NEW l \in own, NEW t \in Texts
  PROVE  Promoted(own, m, l, t) \in SUBSET Row
<1>1. SUFFICES ASSUME NEW r \in own
               PROVE  [r EXCEPT !.version = IF r = m THEN l.version
                                  ELSE IF m.version < r.version THEN r.version - 1
                                  ELSE r.version,
                                !.text  = IF r = m THEN t ELSE r.text,
                                !.isNew = r # m /\ r.isNew] \in Row
  BY DEF Promoted
<1> DEFINE v == IF r = m THEN l.version
                ELSE IF m.version < r.version THEN r.version - 1 ELSE r.version
           x == IF r = m THEN t ELSE r.text
           b == r # m /\ r.isNew
<1>2. r \in Row /\ m \in Row /\ l \in Row
  OBVIOUS
<1>3. v \in Nat \ {0}
  BY <1>2 DEF Row
<1>4. x \in Texts /\ b \in BOOLEAN
  BY <1>2 DEF Row
<1>5. ASSUME NEW vv \in Nat \ {0}, NEW xx \in Texts, NEW bb \in BOOLEAN
      PROVE  [r EXCEPT !.version = vv, !.text = xx, !.isNew = bb] \in Row
  BY <1>2 DEF Row
<1> QED
  BY <1>3, <1>4, <1>5

\* What taking a record makes of the versions of its macro are rows.
LEMMA UpsertedType ==
  ASSUME NEW own \in SUBSET Row, NEW p \in Profiles, NEW rec \in Record,
         NEW new \in Upserted(own, p, rec)
  PROVE  new \in SUBSET Row
<1>1. rec.file \in Files /\ rec.name \in Names /\ rec.text \in Texts
  BY DEF Record
<1>2. ASSUME NEW v \in Nat \ {0}
      PROVE  NewRow(p, rec.file, rec.name, v, rec.text, FALSE) \in Row
  BY <1>1, NewRowType
<1>3. CASE own = {}
  <2>1. new = Inserted({}, NewRow(p, rec.file, rec.name, 1, rec.text, FALSE))
    BY <1>3 DEF Upserted
  <2>2. NewRow(p, rec.file, rec.name, 1, rec.text, FALSE) \in Row
    <3>1. 1 \in Nat \ {0}
      OBVIOUS
    <3> QED
      BY <3>1, <1>2
  <2> QED
    BY <2>1, <2>2 DEF Inserted, Pruned
<1>4. CASE own # {}
  <2>1. PICK l \in own :
          \/ new = Inserted(own, NewRow(p, rec.file, rec.name, l.version + 1, rec.text, FALSE))
          \/ \E m \in Matches(own, l, rec.text) : new = Promoted(own, m, l, rec.text)
    BY <1>4 DEF Upserted
  <2>2. l.version + 1 \in Nat \ {0}
    BY DEF Row
  <2>3. Matches(own, l, rec.text) \subseteq own
    BY DEF Matches
  <2>4. CASE new = Inserted(own, NewRow(p, rec.file, rec.name, l.version + 1, rec.text, FALSE))
    BY <2>4, <2>2, <1>2 DEF Inserted, Pruned
  <2>5. CASE \E m \in Matches(own, l, rec.text) : new = Promoted(own, m, l, rec.text)
    BY <2>5, <2>3, <1>1, PromotedType
  <2> QED
    BY <2>1, <2>4, <2>5
<1> QED
  BY <1>3, <1>4

\* Two rows share the key of idx_macros_version_profile.
SameKey(r, s) == /\ r.profile = s.profile /\ r.file = s.file /\ r.name = s.name
                 /\ r.version = s.version

\* All rows of a set belong to one macro of one profile.
OneMacro(R, p, f, n) == \A r \in R : r.profile = p /\ r.file = f /\ r.name = n

LEMMA OwnOneMacro ==
  ASSUME NEW R, NEW p, NEW f, NEW n
  PROVE  Own(R, p, f, n) \subseteq R /\ OneMacro(Own(R, p, f, n), p, f, n)
BY DEF Own, OneMacro

\* Promotion renumbers without a collision: the promoted row takes the highest
\* number, the numbers above its own close the gap it leaves.
LEMMA PromotedUnique ==
  ASSUME NEW p, NEW f, NEW n, NEW own \in SUBSET Row, OneMacro(own, p, f, n), Unique(own),
         NEW m \in own, NEW l \in own, IsLatest(own, l), NEW t \in Texts
  PROVE  Unique(Promoted(own, m, l, t)) /\ OneMacro(Promoted(own, m, l, t), p, f, n)
<1> DEFINE V(r) == IF r = m THEN l.version
                   ELSE IF m.version < r.version THEN r.version - 1 ELSE r.version
           G(r) == [r EXCEPT !.version = V(r), !.text = IF r = m THEN t ELSE r.text,
                             !.isNew = r # m /\ r.isNew]
<1>1. Promoted(own, m, l, t) = {G(r) : r \in own}
  BY DEF Promoted
<1>2. \A r \in own : /\ G(r).profile = p /\ G(r).file = f /\ G(r).name = n
                     /\ G(r).version = V(r)
  BY DEF OneMacro, Row
<1>3. \A r \in own : r.version \in Nat /\ r.version <= l.version
  BY DEF IsLatest, Own, OneMacro, Row
<1>4. \A r, s \in own : r.version = s.version => r = s
  BY DEF Unique, OneMacro
<1>5. ASSUME NEW r \in own, NEW s \in own, V(r) = V(s)
      PROVE  r = s
  <2>1. CASE r = m /\ s # m
    BY <2>1, <1>3, <1>4, <1>5
  <2>2. CASE r # m /\ s = m
    BY <2>2, <1>3, <1>4, <1>5
  <2>3. CASE r # m /\ s # m
    <3>1. r.version # m.version /\ s.version # m.version
      BY <2>3, <1>4
    <3>2. r.version = s.version
      BY <2>3, <3>1, <1>3, <1>5
    <3> QED
      BY <3>2, <1>4
  <2> QED
    BY <2>1, <2>2, <2>3
<1> HIDE DEF V, G
<1> QED
  BY <1>1, <1>2, <1>5 DEF Unique, OneMacro

\* A new version above all others, and pruning after it, keep the numbers apart.
LEMMA InsertedUnique ==
  ASSUME NEW p, NEW f, NEW n, NEW own \in SUBSET Row, OneMacro(own, p, f, n), Unique(own),
         NEW new \in Row, OneMacro({new}, p, f, n),
         \A r \in own : r.version < new.version
  PROVE  Unique(Inserted(own, new)) /\ OneMacro(Inserted(own, new), p, f, n)
<1>1. Inserted(own, new) \subseteq own \cup {new}
  BY DEF Inserted, Pruned
<1>2. \A r \in own : r.version \in Nat /\ r.version # new.version
  BY DEF Row
<1>3. Unique(own \cup {new})
  BY <1>2 DEF Unique
<1> QED
  BY <1>1, <1>3 DEF Unique, OneMacro

\* Whatever taking a record does to the versions of its macro, they stay versions
\* of that macro with distinct numbers.
LEMMA UpsertedUnique ==
  ASSUME NEW own \in SUBSET Row, NEW p \in Profiles, NEW rec \in Record,
         OneMacro(own, p, rec.file, rec.name), Unique(own),
         NEW new \in Upserted(own, p, rec)
  PROVE  Unique(new) /\ OneMacro(new, p, rec.file, rec.name)
<1> DEFINE N(v) == NewRow(p, rec.file, rec.name, v, rec.text, FALSE)
<1>1. rec.file \in Files /\ rec.name \in Names /\ rec.text \in Texts
  BY DEF Record
<1>2. ASSUME NEW v \in Nat \ {0}
      PROVE  N(v) \in Row /\ N(v).version = v /\ OneMacro({N(v)}, p, rec.file, rec.name)
  <2>1. N(v) \in Row
    BY <1>1, <1>2, NewRowType
  <2>2. N(v).version = v /\ OneMacro({N(v)}, p, rec.file, rec.name)
    BY DEF NewRow, OneMacro
  <2> QED
    BY <2>1, <2>2
<1>3. CASE own = {}
  <2>1. new = Inserted({}, N(1))
    BY <1>3 DEF Upserted
  <2>2. N(1) \in Row /\ OneMacro({N(1)}, p, rec.file, rec.name)
    <3>1. 1 \in Nat \ {0}
      OBVIOUS
    <3> QED
      BY <3>1, <1>2
  <2> HIDE DEF N
  <2>3. Unique({}) /\ OneMacro({}, p, rec.file, rec.name) /\ {} \in SUBSET Row
    BY DEF Unique, OneMacro
  <2> QED
    BY <2>1, <2>2, <2>3, InsertedUnique
<1>4. CASE own # {}
  <2>1. PICK l \in own :
          /\ IsLatest(own, l)
          /\ \/ new = Inserted(own, N(l.version + 1))
             \/ \E m \in Matches(own, l, rec.text) : new = Promoted(own, m, l, rec.text)
    BY <1>4 DEF Upserted
  <2>2. l.version \in Nat /\ l.version + 1 \in Nat \ {0}
    BY DEF Row
  <2>3. CASE new = Inserted(own, N(l.version + 1))
    <3>1. \A r \in own : r.version < l.version + 1
      BY <2>1, <2>2 DEF IsLatest, Own, OneMacro, Row
    <3>2. /\ N(l.version + 1) \in Row /\ N(l.version + 1).version = l.version + 1
          /\ OneMacro({N(l.version + 1)}, p, rec.file, rec.name)
      BY <1>2, <2>2
    <3> HIDE DEF N
    <3> QED
      BY <2>3, <3>1, <3>2, InsertedUnique
  <2>4. CASE \E m \in Matches(own, l, rec.text) : new = Promoted(own, m, l, rec.text)
    <3>1. Matches(own, l, rec.text) \subseteq own
      BY DEF Matches
    <3> QED
      BY <2>1, <2>4, <3>1, <1>1, PromotedUnique
  <2> QED
    BY <2>1, <2>3, <2>4
<1> QED
  BY <1>3, <1>4

\* Replacing the versions of one macro by distinct ones keeps the numbers apart.
LEMMA ReplaceUnique ==
  ASSUME NEW R, Unique(R), NEW p, NEW f, NEW n, NEW new, Unique(new), OneMacro(new, p, f, n)
  PROVE  Unique((R \ Own(R, p, f, n)) \cup new)
BY DEF Unique, OneMacro, Own

-----------------------------------------------------------------------------
(***************************************************************************)
(* Type correctness.                                                       *)
(***************************************************************************)

LEMMA IdleJobType == IdleJob \in Job
<1>1. NoTargets \in [Names -> Macro \cup {NoMacro}]
  BY DEF NoTargets
<1>2. << >> \in Seq(Record)
  OBVIOUS
<1> QED
  BY <1>1, <1>2, ProfilesAssumption DEF IdleJob, Job

\* The records of a file are records.
LEMMA FoundType ==
  ASSUME NEW f \in Files, NEW s \in FileContents
  PROVE  [i \in DOMAIN s |-> [file |-> f, name |-> s[i].name, text |-> s[i].text]]
           \in Seq(Record)
<1>1. PICK k \in 0 .. SectionBound : s \in [1 .. k -> Section]
  BY DEF FileContents
<1>2. DOMAIN s = 1 .. k /\ k \in Nat /\ \A i \in 1 .. k : s[i] \in Section
  BY <1>1, BoundsAssumption
<1>3. \A i \in 1 .. k : [file |-> f, name |-> s[i].name, text |-> s[i].text] \in Record
  BY <1>2 DEF Section, Record
<1> QED
  BY <1>2, <1>3

LEMMA OverrideType ==
  ASSUME NEW targets \in [Names -> Macro \cup {NoMacro}], NEW rec \in Record
  PROVE  Override(targets, rec) \in [Names -> Macro \cup {NoMacro}]
<1>1. rec.name \in Names /\ [file |-> rec.file, name |-> rec.name] \in Macro
  BY DEF Record, Macro
<1> QED
  BY <1>1 DEF Override

LEMMA SettledType ==
  ASSUME TypeOK, NEW j \in Jobs, NEW r \in job[j].work
  PROVE  Settled(j, r) \in Row
<1> DEFINE macro   == [file |-> r.file, name |-> r.name]
           latest  == IsLatest(job[j].work, r)
           seen    == macro \in Seen(j)
           calls   == {n \in Names : job[j].targets[n] = macro}
           deleted == job[j].mark /\ IF latest THEN ~seen /\ ~(r.isNew /\ r.imported)
                                     ELSE r.isDeleted
           active  == latest /\ ~deleted /\ calls # {}
           name    == IF active /\ r.name \notin calls THEN CHOOSE n \in calls : TRUE
                      ELSE r.name
           new     == r.isNew /\ ~(latest /\ seen)
<1>1. r \in Row
  BY DEF TypeOK, Job
<1>2. Settled(j, r) = [r EXCEPT !.isDeleted = deleted, !.isNew = new, !.isActive = active,
                                !.runtime = name]
  BY DEF Settled
<1>3. name \in Names
  <2>1. r.name \in Names
    BY <1>1 DEF Row
  <2>2. CASE active /\ r.name \notin calls
    <3>1. calls # {} /\ calls \subseteq Names
      BY <2>2
    <3> HIDE DEF calls
    <3> QED
      BY <2>2, <3>1
  <2> QED
    BY <2>1, <2>2
<1>4. job[j].mark \in BOOLEAN /\ r.isDeleted \in BOOLEAN /\ r.isNew \in BOOLEAN
  BY <1>1 DEF TypeOK, Job, Row
<1>5. latest \in BOOLEAN
  BY DEF IsLatest
<1>6. seen \in BOOLEAN
  OBVIOUS
<1>7. deleted \in BOOLEAN /\ new \in BOOLEAN
  <2> HIDE DEF seen, latest
  <2> QED
    BY <1>4, <1>5, <1>6
<1>8. active \in BOOLEAN
  BY <1>5
<1> HIDE DEF deleted, new, active, name
<1> QED
  BY <1>1, <1>2, <1>3, <1>7, <1>8 DEF Row

\* One job changes, to another job.
LEMMA JobUpdateType ==
  ASSUME NEW J \in [Jobs -> Job], NEW j \in Jobs, NEW x \in Job
  PROVE  [J EXCEPT ![j] = x] \in [Jobs -> Job]
OBVIOUS

LEMMA InitType == Init => TypeOK
<1> SUFFICES ASSUME Init PROVE TypeOK
  OBVIOUS
<1>1. << >> \in FileContents
  <2>1. 0 \in 0 .. SectionBound
    BY BoundsAssumption
  <2>2. << >> \in [1 .. 0 -> Section]
    OBVIOUS
  <2> QED
    BY <2>1, <2>2 DEF FileContents
<1> QED
  BY <1>1, IdleJobType DEF Init, TypeOK

LEMMA WriteFileType ==
  ASSUME TypeOK, NEW p \in Profiles, NEW f \in Files, NEW s, WriteFile(p, f, s)
  PROVE  cfg' \in [Profiles -> [Files -> FileContents]]
BY DEF WriteFile, TypeOK

\* Taking a record, spelled out: a record of the run, the versions of its macro in
\* the run's view, and what becomes of the run.
LEMMA RecordTaken ==
  ASSUME TypeOK, NEW j \in Jobs, IndexRecord(j)
  PROVE  LET p   == job[j].profile
             rec == job[j].records[job[j].pos]
             own == Own(job[j].work, p, rec.file, rec.name)
         IN  /\ rec \in Record /\ p \in Profiles /\ own \in SUBSET Row
             /\ \E new \in Upserted(own, p, rec) :
                  job' = [job EXCEPT ![j] = [job[j] EXCEPT !.work    = (job[j].work \ own) \cup new,
                                                           !.targets = Override(job[j].targets, rec),
                                                           !.pos     = job[j].pos + 1]]
<1> DEFINE p   == job[j].profile
           rec == job[j].records[job[j].pos]
           own == Own(job[j].work, p, rec.file, rec.name)
<1>1. /\ job \in [Jobs -> Job] /\ job[j] \in Job /\ p \in Profiles
      /\ job[j].records \in Seq(Record) /\ job[j].work \in SUBSET Row
  BY DEF TypeOK, Job
<1>2. job[j].pos \in DOMAIN job[j].records
  BY DEF IndexRecord
<1>3. rec \in Record /\ own \in SUBSET Row
  BY <1>1, <1>2 DEF Own
<1>4. PICK new \in Upserted(own, p, rec) :
        job' = [job EXCEPT ![j].work    = (job[j].work \ own) \cup new,
                           ![j].targets = Override(job[j].targets, rec),
                           ![j].pos     = job[j].pos + 1]
  BY DEF IndexRecord
<1>5. job' = [job EXCEPT ![j] = [job[j] EXCEPT !.work    = (job[j].work \ own) \cup new,
                                               !.targets = Override(job[j].targets, rec),
                                               !.pos     = job[j].pos + 1]]
  <2> HIDE DEF own, rec, p
  <2> QED
    BY <1>1, <1>4
<1> QED
  BY <1>1, <1>3, <1>5

LEMMA IndexingType == ASSUME TypeOK, Indexing PROVE TypeOK'
<1> PICK j \in Jobs : \/ \E p \in Profiles, mark \in BOOLEAN : StartIndex(j, p, mark)
                      \/ ReadFile(j) \/ BeginTransaction(j) \/ IndexRecord(j)
                      \/ FinishIndex(j) \/ AbortIndex(j)
  BY DEF Indexing
<1> DEFINE J == job[j]
<1>1. /\ J \in Job /\ job \in [Jobs -> Job] /\ rows \in SUBSET Row
      /\ cfg \in [Profiles -> [Files -> FileContents]]
      /\ restoring \in [Sessions -> Restore \cup {NoRestore}]
  BY DEF TypeOK
<1>f. /\ J.phase \in {"idle", "reading", "indexing"} /\ J.profile \in Profiles
      /\ J.mark \in BOOLEAN /\ J.pos \in Nat \ {0} /\ J.records \in Seq(Record)
      /\ J.work \in SUBSET Row /\ J.targets \in [Names -> Macro \cup {NoMacro}]
  BY <1>1 DEF Job
<1> HIDE DEF J
<1>2. ASSUME NEW x \in Job, job' = [job EXCEPT ![j] = x], UNCHANGED <<cfg, rows, restoring>>
      PROVE  TypeOK'
  BY <1>1, <1>2 DEF TypeOK
<1>3. ASSUME NEW p \in Profiles, NEW mark \in BOOLEAN, StartIndex(j, p, mark)
      PROVE  TypeOK'
  <2>1. [IdleJob EXCEPT !.phase = "reading", !.profile = p, !.mark = mark] \in Job
    BY IdleJobType DEF Job
  <2> QED
    BY <2>1, <1>2, <1>3 DEF StartIndex
<1>4. CASE ReadFile(j)
  <2> DEFINE f == FileSeq[J.pos]
             s == cfg[J.profile][f]
             found == [i \in DOMAIN s |-> [file |-> f, name |-> s[i].name, text |-> s[i].text]]
  <2>1. f \in Files
    <3>1. J.pos \in DOMAIN FileSeq
      BY <1>4 DEF ReadFile, J
    <3> QED
      BY <3>1, FilesAssumption
  <2>2. found \in Seq(Record)
    <3>1. s \in FileContents
      BY <1>1, <1>f, <2>1
    <3> HIDE DEF f, s
    <3> QED
      BY <2>1, <3>1, FoundType
  <2>4. job' = [job EXCEPT ![j] = [J EXCEPT !.records = J.records \o found, !.pos = J.pos + 1]]
    BY <1>1, <1>4 DEF ReadFile, J
  <2> HIDE DEF found
  <2>3. J.records \o found \in Seq(Record) /\ J.pos + 1 \in Nat \ {0}
    BY <1>f, <2>2
  <2>5. [J EXCEPT !.records = J.records \o found, !.pos = J.pos + 1] \in Job
    BY <1>1, <1>f, <2>3 DEF Job
  <2> QED
    BY <1>2, <1>4, <2>4, <2>5 DEF ReadFile
<1>5. CASE BeginTransaction(j)
  <2>1. [J EXCEPT !.phase = "indexing", !.pos = 1, !.work = rows] \in Job
    <3>1. 1 \in Nat \ {0}
      OBVIOUS
    <3> QED
      BY <1>1, <1>f, <3>1 DEF Job
  <2>2. job' = [job EXCEPT ![j] = [J EXCEPT !.phase = "indexing", !.pos = 1, !.work = rows]]
    BY <1>1, <1>5 DEF BeginTransaction, J
  <2> QED
    BY <1>2, <1>5, <2>1, <2>2 DEF BeginTransaction
<1>6. CASE IndexRecord(j)
  <2> DEFINE rec == J.records[J.pos]
             own == Own(J.work, J.profile, rec.file, rec.name)
  <2>1. rec \in Record /\ own \in SUBSET Row
    BY <1>6, RecordTaken DEF J
  <2>2. PICK new \in Upserted(own, J.profile, rec) :
          job' = [job EXCEPT ![j] = [J EXCEPT !.work    = (J.work \ own) \cup new,
                                              !.targets = Override(J.targets, rec),
                                              !.pos     = J.pos + 1]]
    BY <1>6, RecordTaken DEF J
  <2> HIDE DEF own, rec
  <2>3. (J.work \ own) \cup new \in SUBSET Row
    BY <1>f, <2>1, UpsertedType
  <2>4. Override(J.targets, rec) \in [Names -> Macro \cup {NoMacro}] /\ J.pos + 1 \in Nat \ {0}
    BY <1>f, <2>1, OverrideType
  <2>5. [J EXCEPT !.work = (J.work \ own) \cup new, !.targets = Override(J.targets, rec),
                  !.pos = J.pos + 1] \in Job
    BY <1>1, <1>f, <2>3, <2>4 DEF Job
  <2> QED
    BY <1>2, <1>6, <2>2, <2>5 DEF IndexRecord
<1>7. CASE FinishIndex(j)
  <2>2. rows' \in SUBSET Row
    BY <1>f, <1>7, SettledType DEF FinishIndex, J
  <2>3. job' \in [Jobs -> Job] /\ UNCHANGED <<cfg, restoring>>
    BY <1>1, <1>7, IdleJobType DEF FinishIndex
  <2> QED
    BY <1>1, <2>2, <2>3 DEF TypeOK
<1>8. CASE AbortIndex(j)
  BY <1>2, <1>8, IdleJobType DEF AbortIndex
<1> QED
  BY <1>3, <1>4, <1>5, <1>6, <1>7, <1>8

LEMMA EditingType == ASSUME TypeOK, Editing PROVE TypeOK'
<1> PICK p \in Profiles, f \in Files :
      \/ DownloadFile(p, f)
      \/ \E n \in Names : EditSection(p, f, n) \/ DeleteSource(p, f, n)
  BY DEF Editing
<1>1. /\ \E s : WriteFile(p, f, s)
      /\ UNCHANGED <<rows, job, restoring>>
  BY DEF DownloadFile, EditSection, DeleteSource
<1> QED
  BY <1>1, WriteFileType DEF TypeOK

\* A row and a session's choice of it.
LEMMA PickType ==
  ASSUME NEW r \in Row, NEW scoped \in BOOLEAN
  PROVE  Pick(r.profile, r, scoped) \in Restore
BY DEF Pick, Row, Restore

LEMMA RestoringType == ASSUME TypeOK, Restoring PROVE TypeOK'
<1> PICK s \in Sessions : \/ \E r \in rows : SelectVersion(s, r)
                         \/ ReadVersion(s) \/ WriteRestore(s) \/ FailRestore(s)
  BY DEF Restoring
<1>1. ASSUME NEW r \in rows, SelectVersion(s, r)
      PROVE  TypeOK'
  BY <1>1, PickType DEF SelectVersion, TypeOK
<1>2. CASE ReadVersion(s)
  <2>1. restoring[s] \in Restore
    BY <1>2 DEF ReadVersion, TypeOK
  <2>2. PICK r \in Selected(s) :
          /\ rows' = IF r.isNew
                     THEN {[o EXCEPT !.isNew = @ /\ o \notin Selected(s)] : o \in rows}
                     ELSE rows
          /\ restoring' = [restoring EXCEPT ![s].read = TRUE, ![s].text = Canonical[r.text]]
    BY <1>2 DEF ReadVersion, SectionText
  <2>3. \A o \in Row : [o EXCEPT !.isNew = @ /\ o \notin Selected(s)] \in Row
    BY DEF Row
  <2>4. rows' \in SUBSET Row
    BY <2>2, <2>3 DEF TypeOK
  <2>5. Canonical[r.text] \in Texts
    BY TextsAssumption DEF Selected, TypeOK, Row
  <2>6. restoring' \in [Sessions -> Restore \cup {NoRestore}]
    BY <2>1, <2>2, <2>5 DEF TypeOK, Restore
  <2> QED
    BY <1>2, <2>4, <2>6 DEF ReadVersion, TypeOK
<1>3. CASE WriteRestore(s)
  <2>1. restoring[s].profile \in Profiles /\ restoring[s].file \in Files
    BY <1>3 DEF WriteRestore, TypeOK, Restore
  <2>2. cfg' \in [Profiles -> [Files -> FileContents]]
    BY <1>3, <2>1, WriteFileType DEF WriteRestore
  <2> QED
    BY <1>3, <2>2 DEF WriteRestore, TypeOK
<1>4. CASE FailRestore(s)
  BY <1>4 DEF FailRestore, TypeOK
<1> QED
  BY <1>1, <1>2, <1>3, <1>4

LEMMA SourceFilesType ==
  ASSUME TypeOK, NEW p, NEW n
  PROVE  SourceFiles(p, n) \subseteq Files
<1>1. \A r \in rows : r.file \in Files
  BY DEF TypeOK, Row
<1>2. LocalSources(p, n) \subseteq rows
  BY DEF LocalSources, Imports
<1>3. \A f \in SourceFiles(p, n) : f = ImportFile \/ \E r \in rows : f = r.file
  BY <1>2 DEF SourceFiles
<1> QED
  BY <1>1, <1>3, FilesAssumption

\* The row an online import adds.
LEMMA OnlineRowType ==
  ASSUME TypeOK, NEW p \in Profiles, NEW n \in Names, NEW t \in Texts,
         NEW f \in SourceFiles(p, n), NEW v \in 1 .. VersionBound
  PROVE  NewRow(p, f, n, v, t, TRUE) \in Row /\ NewRow(p, f, n, v, t, TRUE).profile = p
<1>1. f \in Files
  BY SourceFilesType
<1>2. v \in Nat \ {0}
  BY BoundsAssumption
<1>3. NewRow(p, f, n, v, t, TRUE) \in Row
  BY <1>1, <1>2, NewRowType
<1> QED
  BY <1>3 DEF NewRow

LEMMA ImportingType == ASSUME TypeOK, Importing PROVE TypeOK'
<1> PICK n \in Names, t \in Offered :
      \/ ImportShare(n, t)
      \/ \E p \in Profiles : \/ ImportOnline(p, n, t)
                            \/ \E s \in Sessions : ImportAndActivate(s, p, n, t)
  BY DEF Importing, AutoImport
<1>0. t \in Texts
  BY TextsAssumption
<1>1. CASE ImportShare(n, t)
  <2>1. PICK v \in 1 .. VersionBound :
          rows' = rows \cup {NewRow(ShareProfile, ImportFile, n, v, t, TRUE)}
    BY <1>1 DEF ImportShare
  <2>2. v \in Nat \ {0}
    BY BoundsAssumption
  <2>3. NewRow(ShareProfile, ImportFile, n, v, t, TRUE) \in Row
    BY <1>0, <2>2, NewRowType, ProfilesAssumption, FilesAssumption
  <2> QED
    BY <1>1, <2>1, <2>3 DEF ImportShare, TypeOK
<1>2. ASSUME NEW p \in Profiles, ImportOnline(p, n, t)
      PROVE  TypeOK'
  <2>1. PICK f \in SourceFiles(p, n), v \in 1 .. VersionBound :
          rows' = rows \cup {NewRow(p, f, n, v, t, TRUE)}
    BY <1>2 DEF ImportOnline
  <2>2. NewRow(p, f, n, v, t, TRUE) \in Row
    BY <1>0, OnlineRowType
  <2> QED
    BY <1>2, <2>1, <2>2 DEF ImportOnline, TypeOK
<1>3. ASSUME NEW p \in Profiles, NEW s \in Sessions, ImportAndActivate(s, p, n, t)
      PROVE  TypeOK'
  <2>1. PICK f \in SourceFiles(p, n), v \in 1 .. VersionBound :
          /\ rows' = rows \cup {NewRow(p, f, n, v, t, TRUE)}
          /\ restoring' = [restoring EXCEPT ![s] = Pick(p, NewRow(p, f, n, v, t, TRUE), FALSE)]
    BY <1>3 DEF ImportAndActivate
  <2> DEFINE new == NewRow(p, f, n, v, t, TRUE)
  <2>2. new \in Row /\ new.profile = p
    BY <1>0, OnlineRowType
  <2> HIDE DEF new
  <2>3. Pick(p, new, FALSE) \in Restore
    BY <2>2, PickType
  <2>4. rows' \in SUBSET Row /\ restoring' \in [Sessions -> Restore \cup {NoRestore}]
    BY <2>1, <2>2, <2>3 DEF TypeOK, new
  <2> QED
    BY <1>3, <2>4 DEF ImportAndActivate, TypeOK
<1> QED
  BY <1>1, <1>2, <1>3

LEMMA RemovingType == ASSUME TypeOK, Removing PROVE TypeOK'
BY DEF Removing, PurgeAllDeleted, RemoveDeleted, RemoveInactive, TypeOK

\* Every variable keeps its type under every operation.
THEOREM TypeCorrect == Spec => []TypeOK
<1>1. Init => TypeOK
  BY InitType
<1>2. TypeOK /\ [Next]_vars => TypeOK'
  <2>1. ASSUME TypeOK, Next PROVE TypeOK'
    BY <2>1, IndexingType, EditingType, RestoringType, ImportingType, RemovingType DEF Next
  <2>2. ASSUME TypeOK, UNCHANGED vars PROVE TypeOK'
    BY <2>2 DEF vars, TypeOK
  <2> QED
    BY <2>1, <2>2
<1> QED
  BY <1>1, <1>2, PTL DEF Spec

-----------------------------------------------------------------------------
(***************************************************************************)
(* Version numbers.                                                        *)
(*                                                                         *)
(* UniqueVersions is inductive together with the types: a run's view       *)
(* starts as the table, every record keeps the numbers of its own macro    *)
(* apart (UpsertedUnique) and touches no other, and what is published only *)
(* differs from the view in its flags.                                     *)
(***************************************************************************)

\* Removing rows keeps the numbers apart.
LEMMA SubsetUnique ==
  ASSUME NEW R, Unique(R), NEW S \in SUBSET R
  PROVE  Unique(S)
BY DEF Unique

\* So does adding a row whose number is above those of its macro.
LEMMA AddUnique ==
  ASSUME NEW R \in SUBSET Row, Unique(R), NEW new \in Row,
         \A r \in Own(R, new.profile, new.file, new.name) : r.version < new.version
  PROVE  Unique(R \cup {new})
<1>1. \A r \in R : ~SameKey(r, new)
  BY DEF SameKey, Own, Row
<1> QED
  BY <1>1 DEF Unique, SameKey

LEMMA ViewUpdateUnique ==
  ASSUME UniqueVersions, NEW j \in Jobs, job \in [Jobs -> Job], NEW x, Unique(x.work),
         job' = [job EXCEPT ![j] = x], UNCHANGED rows
  PROVE  UniqueVersions'
BY DEF UniqueVersions

LEMMA IndexingUnique == ASSUME TypeOK, UniqueVersions, Indexing PROVE UniqueVersions'
<1> PICK j \in Jobs : \/ \E p \in Profiles, mark \in BOOLEAN : StartIndex(j, p, mark)
                      \/ ReadFile(j) \/ BeginTransaction(j) \/ IndexRecord(j)
                      \/ FinishIndex(j) \/ AbortIndex(j)
  BY DEF Indexing
<1>1. job \in [Jobs -> Job] /\ job[j] \in Job /\ rows \in SUBSET Row
  BY DEF TypeOK
<1>2. Unique(rows) /\ Unique(job[j].work) /\ Unique({})
  BY DEF UniqueVersions, Unique
<1>3. ASSUME NEW p \in Profiles, NEW mark \in BOOLEAN, StartIndex(j, p, mark)
      PROVE  UniqueVersions'
  <2> DEFINE x == [IdleJob EXCEPT !.phase = "reading", !.profile = p, !.mark = mark]
  <2>1. x.work = {}
    BY DEF IdleJob
  <2> QED
    BY <1>1, <1>2, <1>3, <2>1, ViewUpdateUnique DEF StartIndex
<1>4. CASE ReadFile(j)
  <2>1. UNCHANGED rows /\ \A i \in Jobs : job'[i].work = job[i].work
    BY <1>1, <1>4 DEF ReadFile, Job
  <2> QED
    BY <2>1 DEF UniqueVersions
<1>5. CASE BeginTransaction(j)
  <2>1. UNCHANGED rows /\ \A i \in Jobs : job'[i].work = IF i = j THEN rows ELSE job[i].work
    BY <1>1, <1>5 DEF BeginTransaction, Job
  <2> QED
    BY <1>2, <2>1 DEF UniqueVersions
<1>6. CASE IndexRecord(j)
  <2> DEFINE p == job[j].profile
             rec == job[j].records[job[j].pos]
             work == job[j].work
             own == Own(work, p, rec.file, rec.name)
  <2>1. rec \in Record /\ p \in Profiles /\ work \in SUBSET Row
    BY <1>1, <1>6, RecordTaken DEF Job
  <2>2. own \in SUBSET Row /\ OneMacro(own, p, rec.file, rec.name) /\ own \subseteq work
    BY <2>1, OwnOneMacro
  <2>3. Unique(own)
    BY <1>2, <2>2, SubsetUnique
  <2>4. PICK new \in Upserted(own, p, rec) :
          job' = [job EXCEPT ![j] = [job[j] EXCEPT !.work    = (work \ own) \cup new,
                                                   !.targets = Override(job[j].targets, rec),
                                                   !.pos     = job[j].pos + 1]]
    BY <1>6, RecordTaken
  <2>5. Unique(new) /\ OneMacro(new, p, rec.file, rec.name)
    <3> HIDE DEF own, rec, p
    <3> QED
      BY <2>1, <2>2, <2>3, UpsertedUnique
  <2>6. Unique((work \ own) \cup new)
    BY <1>2, <2>5, ReplaceUnique
  <2> DEFINE x == [job[j] EXCEPT !.work    = (work \ own) \cup new,
                                 !.targets = Override(job[j].targets, rec),
                                 !.pos     = job[j].pos + 1]
  <2>7. x.work = (work \ own) \cup new
    <3> HIDE DEF own, rec, work
    <3> QED
      BY <1>1 DEF Job
  <2> HIDE DEF own, rec, work, x
  <2>8. job' = [job EXCEPT ![j] = x] /\ UNCHANGED rows
    BY <1>6, <2>4 DEF x, IndexRecord
  <2> QED
    BY <1>1, <2>6, <2>7, <2>8, ViewUpdateUnique
<1>7. CASE FinishIndex(j)
  <2> DEFINE p == job[j].profile
             work == job[j].work
             mine == {r \in work : r.profile = p}
             others == {r \in work : r.profile # p}
  <2>1. rows' = others \cup {Settled(j, r) : r \in mine}
    BY <1>7 DEF FinishIndex
  <2>2. \A r \in mine : SameKey(Settled(j, r), r)
    BY <1>1 DEF Settled, SameKey, Job, Row
  <2> HIDE DEF work
  <2>3. \A r, s \in work : SameKey(r, s) => r = s
    BY <1>2 DEF Unique, SameKey, work
  <2>4. Unique(rows')
    BY <2>1, <2>2, <2>3 DEF Unique, SameKey
  <2>5. \A i \in Jobs : job'[i].work = IF i = j THEN {} ELSE job[i].work
    BY <1>1, <1>7 DEF FinishIndex, IdleJob
  <2> QED
    BY <1>2, <2>4, <2>5 DEF UniqueVersions
<1>8. CASE AbortIndex(j)
  <2>1. IdleJob.work = {}
    BY DEF IdleJob
  <2> QED
    BY <1>1, <1>2, <1>8, <2>1, ViewUpdateUnique DEF AbortIndex
<1> QED
  BY <1>3, <1>4, <1>5, <1>6, <1>7, <1>8

LEMMA RestoringUnique == ASSUME TypeOK, UniqueVersions, Restoring PROVE UniqueVersions'
<1> PICK s \in Sessions : \/ \E r \in rows : SelectVersion(s, r)
                         \/ ReadVersion(s) \/ WriteRestore(s) \/ FailRestore(s)
  BY DEF Restoring
<1>1. CASE ReadVersion(s)
  <2> DEFINE seen(o) == [o EXCEPT !.isNew = @ /\ o \notin Selected(s)]
  <2>1. UNCHANGED job /\ (rows' = rows \/ rows' = {seen(o) : o \in rows})
    BY <1>1 DEF ReadVersion
  <2>2. \A o \in rows : SameKey(seen(o), o)
    BY DEF TypeOK, Row, SameKey
  <2> HIDE DEF seen
  <2>3. Unique({seen(o) : o \in rows})
    BY <2>2 DEF UniqueVersions, Unique, SameKey
  <2> QED
    BY <2>1, <2>3 DEF UniqueVersions
<1>2. CASE ~ReadVersion(s)
  BY <1>2 DEF SelectVersion, WriteRestore, FailRestore, UniqueVersions
<1> QED
  BY <1>1, <1>2

LEMMA ImportingUnique == ASSUME TypeOK, UniqueVersions, Importing PROVE UniqueVersions'
<1> PICK n \in Names, t \in Offered :
      \/ ImportShare(n, t)
      \/ \E p \in Profiles : \/ ImportOnline(p, n, t)
                            \/ \E s \in Sessions : ImportAndActivate(s, p, n, t)
  BY DEF Importing, AutoImport
<1>1. t \in Texts /\ rows \in SUBSET Row /\ Unique(rows)
  BY TextsAssumption DEF TypeOK, UniqueVersions
<1>2. \E p \in Profiles, f \in Files, v \in Nat \ {0} :
        /\ \A r \in Own(rows, p, f, n) : r.version < v
        /\ rows' = rows \cup {NewRow(p, f, n, v, t, TRUE)}
        /\ UNCHANGED job
  <2>1. 1 .. VersionBound \subseteq Nat \ {0}
    BY BoundsAssumption
  <2>2. CASE ImportShare(n, t)
    <3>1. PICK v \in 1 .. VersionBound :
            /\ \A r \in rows : r.file = ImportFile /\ r.name = n => r.version < v
            /\ rows' = rows \cup {NewRow(ShareProfile, ImportFile, n, v, t, TRUE)}
            /\ UNCHANGED job
      BY <2>2 DEF ImportShare
    <3>2. \A r \in Own(rows, ShareProfile, ImportFile, n) : r.version < v
      BY <3>1 DEF Own
    <3> QED
      BY <2>1, <3>1, <3>2, ProfilesAssumption, FilesAssumption
  <2>3. ASSUME NEW p \in Profiles,
               ImportOnline(p, n, t) \/ \E s \in Sessions : ImportAndActivate(s, p, n, t)
        PROVE  \E f \in SourceFiles(p, n), v \in 1 .. VersionBound :
                 /\ \A r \in Own(rows, p, f, n) : r.version < v
                 /\ rows' = rows \cup {NewRow(p, f, n, v, t, TRUE)}
                 /\ UNCHANGED job
    BY <2>3 DEF ImportOnline, ImportAndActivate, IsNextOnline
  <2>4. \A p \in Profiles : SourceFiles(p, n) \subseteq Files
    BY SourceFilesType
  <2> QED
    BY <2>1, <2>2, <2>3, <2>4
<1>3. PICK p \in Profiles, f \in Files, v \in Nat \ {0} :
        /\ \A r \in Own(rows, p, f, n) : r.version < v
        /\ rows' = rows \cup {NewRow(p, f, n, v, t, TRUE)}
        /\ UNCHANGED job
  BY <1>2
<1> DEFINE new == NewRow(p, f, n, v, t, TRUE)
<1>4. new \in Row
  BY <1>1, NewRowType
<1>5. new.profile = p /\ new.file = f /\ new.name = n /\ new.version = v
  BY DEF NewRow
<1> HIDE DEF new
<1>6. Unique(rows \cup {new})
  BY <1>1, <1>3, <1>4, <1>5, AddUnique
<1> QED
  BY <1>3, <1>6 DEF UniqueVersions, new

LEMMA OtherUnique ==
  ASSUME UniqueVersions, Editing \/ Removing
  PROVE  UniqueVersions'
<1>1. UNCHANGED job /\ rows' \subseteq rows
  BY DEF Editing, DownloadFile, EditSection, DeleteSource,
         Removing, PurgeAllDeleted, RemoveDeleted, RemoveInactive
<1> QED
  BY <1>1, SubsetUnique DEF UniqueVersions

\* No two rows of a macro of a printer ever share a version number, whatever the
\* interleaving of runs, imports, restores and removals: no statement can fail on
\* the unique index.
THEOREM VersionsAreUnique == Spec => []UniqueVersions
<1>1. Init => UniqueVersions
  BY DEF Init, UniqueVersions, Unique, IdleJob
<1>2. TypeOK /\ UniqueVersions /\ [Next]_vars => UniqueVersions'
  <2>1. ASSUME TypeOK, UniqueVersions, Next PROVE UniqueVersions'
    BY <2>1, IndexingUnique, RestoringUnique, ImportingUnique, OtherUnique DEF Next
  <2>2. ASSUME UniqueVersions, UNCHANGED vars PROVE UniqueVersions'
    BY <2>2 DEF vars, UniqueVersions
  <2> QED
    BY <2>1, <2>2
<1> QED
  BY <1>1, <1>2, TypeCorrect, PTL DEF Spec

-----------------------------------------------------------------------------
(***************************************************************************)
(* What a run changes outside its own printer: nothing.                    *)
(*                                                                         *)
(* With one write transaction at a time, the rows of the other printers in *)
(* a run's view are those of the table until it publishes.                 *)
(***************************************************************************)

OneWriter == \A i, j \in Jobs :
               job[i].phase = "indexing" /\ job[j].phase = "indexing" => i = j

Foreign(R, p) == {r \in R : r.profile # p}

ViewCurrent == \A j \in Jobs : job[j].phase = "indexing" =>
                 Foreign(job[j].work, job[j].profile) = Foreign(rows, job[j].profile)

LockInv == OneWriter /\ ViewCurrent

\* Indexing the records of one printer's macro changes that printer's rows only.
LEMMA ReplaceForeign ==
  ASSUME NEW R, NEW p, NEW f, NEW n, NEW new, OneMacro(new, p, f, n)
  PROVE  Foreign((R \ Own(R, p, f, n)) \cup new, p) = Foreign(R, p)
BY DEF Foreign, Own, OneMacro

LEMMA IndexingLock == ASSUME TypeOK, UniqueVersions, LockInv, Indexing PROVE LockInv'
<1> PICK j \in Jobs : \/ \E p \in Profiles, mark \in BOOLEAN : StartIndex(j, p, mark)
                      \/ ReadFile(j) \/ BeginTransaction(j) \/ IndexRecord(j)
                      \/ FinishIndex(j) \/ AbortIndex(j)
  BY DEF Indexing
<1>1. job \in [Jobs -> Job] /\ job[j] \in Job /\ IdleJob \in Job
  BY IdleJobType DEF TypeOK
<1>2. ASSUME NEW x, job' = [job EXCEPT ![j] = x], x.phase # "indexing", UNCHANGED rows
      PROVE  LockInv'
  BY <1>1, <1>2 DEF LockInv, OneWriter, ViewCurrent
<1>3. ASSUME NEW p \in Profiles, NEW mark \in BOOLEAN, StartIndex(j, p, mark)
      PROVE  LockInv'
  <2> DEFINE x == [IdleJob EXCEPT !.phase = "reading", !.profile = p, !.mark = mark]
  <2>1. x.phase = "reading"
    BY DEF IdleJob
  <2> HIDE DEF x
  <2> QED
    BY <1>2, <1>3, <2>1 DEF StartIndex, x
<1>4. CASE ReadFile(j)
  <2>1. /\ \A i \in Jobs : /\ job'[i].phase = job[i].phase
                           /\ job'[i].work = job[i].work /\ job'[i].profile = job[i].profile
        /\ UNCHANGED rows
    BY <1>1, <1>4 DEF ReadFile, Job
  <2> QED
    BY <2>1 DEF LockInv, OneWriter, ViewCurrent
<1>5. CASE BeginTransaction(j)
  <2>1. /\ \A i \in Jobs : job[i].phase # "indexing"
        /\ \A i \in Jobs \ {j} : job'[i] = job[i]
        /\ job'[j].work = rows
        /\ UNCHANGED rows
    BY <1>1, <1>5 DEF BeginTransaction, Unlocked, Job
  <2> QED
    BY <2>1 DEF LockInv, OneWriter, ViewCurrent
<1>6. CASE IndexRecord(j)
  <2> DEFINE p == job[j].profile
             rec == job[j].records[job[j].pos]
             work == job[j].work
             own == Own(work, p, rec.file, rec.name)
  <2>1. rec \in Record /\ p \in Profiles /\ own \in SUBSET Row
    BY <1>6, RecordTaken
  <2>2. PICK new \in Upserted(own, p, rec) :
          job' = [job EXCEPT ![j] = [job[j] EXCEPT !.work    = (work \ own) \cup new,
                                                   !.targets = Override(job[j].targets, rec),
                                                   !.pos     = job[j].pos + 1]]
    BY <1>6, RecordTaken
  <2>3. Unique(own) /\ OneMacro(own, p, rec.file, rec.name)
    BY OwnOneMacro, SubsetUnique DEF UniqueVersions
  <2>4. OneMacro(new, p, rec.file, rec.name)
    <3> HIDE DEF own, rec, p
    <3> QED
      BY <2>1, <2>2, <2>3, UpsertedUnique
  <2>5. Foreign((work \ own) \cup new, p) = Foreign(work, p)
    BY <2>4, ReplaceForeign
  <2>6. /\ \A i \in Jobs \ {j} : job'[i] = job[i]
        /\ job'[j].work = (work \ own) \cup new
        /\ job'[j].phase = job[j].phase /\ job'[j].profile = p
        /\ UNCHANGED rows
    <3> HIDE DEF own, rec
    <3> QED
      BY <1>1, <1>6, <2>2 DEF Job, IndexRecord
  <2> HIDE DEF own, rec
  <2>7. \A i \in Jobs : job'[i].phase = job[i].phase
    BY <2>6
  <2>8. \A i \in Jobs : /\ Foreign(job'[i].work, job'[i].profile) = Foreign(job[i].work, job[i].profile)
                       /\ job'[i].profile = job[i].profile
    BY <2>5, <2>6
  <2> QED
    BY <2>6, <2>7, <2>8 DEF LockInv, OneWriter, ViewCurrent
<1>7. CASE FinishIndex(j)
  <2>1. /\ job[j].phase = "indexing"
        /\ \A i \in Jobs \ {j} : job'[i] = job[i]
        /\ job'[j].phase = "idle"
    BY <1>1, <1>7 DEF FinishIndex, IdleJob
  <2>2. \A i \in Jobs : job'[i].phase # "indexing"
    BY <2>1 DEF LockInv, OneWriter
  <2> QED
    BY <2>2 DEF LockInv, OneWriter, ViewCurrent
<1>8. CASE AbortIndex(j)
  <2>1. IdleJob.phase = "idle"
    BY DEF IdleJob
  <2> QED
    BY <1>2, <1>8, <2>1 DEF AbortIndex
<1> QED
  BY <1>3, <1>4, <1>5, <1>6, <1>7, <1>8

\* Every other operation waits for the lock or leaves the table alone.
LEMMA OtherLock ==
  ASSUME LockInv, Editing \/ Restoring \/ Importing \/ Removing
  PROVE  LockInv'
<1>1. UNCHANGED job
  BY DEF Editing, DownloadFile, EditSection, DeleteSource,
         Restoring, SelectVersion, ReadVersion, WriteRestore, FailRestore,
         Importing, ImportShare, ImportOnline, AutoImport, ImportAndActivate,
         Removing, PurgeAllDeleted, RemoveDeleted, RemoveInactive
<1>2. Unlocked \/ UNCHANGED rows
  BY ZenonT(30) DEF Editing, DownloadFile, EditSection, DeleteSource,
         Restoring, SelectVersion, ReadVersion, WriteRestore, FailRestore,
         Importing, ImportShare, ImportOnline, AutoImport, ImportAndActivate,
         Removing, PurgeAllDeleted, RemoveDeleted, RemoveInactive
<1> QED
  BY <1>1, <1>2 DEF LockInv, OneWriter, ViewCurrent, Unlocked

LEMMA LockInvariant == Spec => []LockInv
<1>1. Init => LockInv
  BY DEF Init, LockInv, OneWriter, ViewCurrent, IdleJob
<1>2. TypeOK /\ UniqueVersions /\ LockInv /\ [Next]_vars => LockInv'
  <2>1. ASSUME TypeOK, UniqueVersions, LockInv, Next PROVE LockInv'
    BY <2>1, IndexingLock, OtherLock DEF Next
  <2>2. ASSUME LockInv, UNCHANGED vars PROVE LockInv'
    BY <2>2 DEF vars, LockInv, OneWriter, ViewCurrent
  <2> QED
    BY <2>1, <2>2
<1> QED
  BY <1>1, <1>2, TypeCorrect, VersionsAreUnique, PTL DEF Spec

\* A run of one printer, however many others overlap it, publishes the rows of the
\* other printers exactly as the table has them at that moment.
THEOREM OtherProfilesAreKept == Spec => OtherProfilesKept
<1> DEFINE Kept1(j) == \A r \in rows \cup rows' :
                         r.profile # job[j].profile => r \in rows /\ r \in rows'
<1>1. ASSUME TypeOK, LockInv, NEW j \in Jobs, FinishIndex(j)
      PROVE  Kept1(j)
  <2>1. /\ rows' = {r \in job[j].work : r.profile # job[j].profile}
                     \cup {Settled(j, r) : r \in {r \in job[j].work : r.profile = job[j].profile}}
        /\ job[j].phase = "indexing"
    BY <1>1 DEF FinishIndex
  <2>2. {r \in job[j].work : r.profile # job[j].profile} = {r \in rows : r.profile # job[j].profile}
    BY <1>1, <2>1 DEF LockInv, ViewCurrent, Foreign
  <2>3. \A r \in job[j].work : Settled(j, r).profile = r.profile
    BY <1>1 DEF Settled, TypeOK, Job, Row
  <2> QED
    BY <2>1, <2>2, <2>3
<1>2. TypeOK /\ LockInv => [\A j \in Jobs : FinishIndex(j) => Kept1(j)]_vars
  BY <1>1
<1> QED
  BY <1>2, TypeCorrect, LockInvariant, PTL DEF OtherProfilesKept

-----------------------------------------------------------------------------
(***************************************************************************)
(* Imports that wait for their review.                                     *)
(*                                                                         *)
(* PendingImports needs two more facts to be inductive: a run's view has   *)
(* the property too, and a command only ever calls a macro the run saw, so *)
(* that a row that becomes active loses its mark.                          *)
(***************************************************************************)

Pending(R) == \A r \in R : r.isNew => r.imported /\ ~r.isDeleted /\ ~r.isActive

TargetsSeen(j) == IF job[j].phase = "indexing"
                  THEN \A n \in Names : job[j].targets[n] \in Seen(j) \cup {NoMacro}
                  ELSE job[j].targets = NoTargets

PendingInv == /\ Pending(rows)
              /\ \A j \in Jobs : Pending(job[j].work) /\ TargetsSeen(j)

\* Taking a record makes no row pending that was not.
LEMMA UpsertedPending ==
  ASSUME NEW own \in SUBSET Row, NEW p \in Profiles, NEW rec \in Record, Pending(own),
         NEW new \in Upserted(own, p, rec)
  PROVE  Pending(new)
<1> DEFINE N(v) == NewRow(p, rec.file, rec.name, v, rec.text, FALSE)
<1>1. \A v : N(v).isNew = FALSE
  BY DEF NewRow
<1>2. \/ \E v : new \subseteq own \cup {N(v)}
      \/ \E m \in own, l \in own : new = Promoted(own, m, l, rec.text)
  <2>1. CASE own = {}
    <3>1. new = Inserted({}, N(1))
      BY <2>1 DEF Upserted
    <3> QED
      BY <3>1 DEF Inserted, Pruned
  <2>2. CASE own # {}
    <3>1. PICK l \in own : \/ new = Inserted(own, N(l.version + 1))
                          \/ \E m \in Matches(own, l, rec.text) : new = Promoted(own, m, l, rec.text)
      BY <2>2 DEF Upserted
    <3>2. Matches(own, l, rec.text) \subseteq own
      BY DEF Matches
    <3> HIDE DEF N
    <3> QED
      BY <3>1, <3>2 DEF Inserted, Pruned
  <2> QED
    BY <2>1, <2>2
<1>3. CASE \E v : new \subseteq own \cup {N(v)}
  <2> HIDE DEF N
  <2> QED
    BY <1>1, <1>3 DEF Pending
<1>4. CASE \E m \in own, l \in own : new = Promoted(own, m, l, rec.text)
  <2>1. PICK m \in own, l \in own : new = Promoted(own, m, l, rec.text)
    BY <1>4
  <2>2. \A x \in new : \E r \in own : /\ x.isNew = (r # m /\ r.isNew)
                                     /\ x.imported = r.imported
                                     /\ x.isDeleted = r.isDeleted
                                     /\ x.isActive = r.isActive
    BY <2>1 DEF Promoted, Row
  <2>3. ASSUME NEW x \in new, x.isNew
        PROVE  x.imported /\ ~x.isDeleted /\ ~x.isActive
    <3>1. PICK r \in own : /\ x.isNew = (r # m /\ r.isNew)
                          /\ x.imported = r.imported
                          /\ x.isDeleted = r.isDeleted
                          /\ x.isActive = r.isActive
      BY <2>2
    <3>2. r.isNew
      BY <2>3, <3>1
    <3>3. r.imported /\ ~r.isDeleted /\ ~r.isActive
      BY <3>2 DEF Pending
    <3> QED
      BY <3>1, <3>3
  <2> QED
    BY <2>3 DEF Pending
<1> QED
  BY <1>2, <1>3, <1>4

\* Publishing leaves no pending row active or deleted.
LEMMA SettledPending ==
  ASSUME TypeOK, PendingInv, NEW j \in Jobs, job[j].phase = "indexing", NEW r \in job[j].work
  PROVE  LET x == Settled(j, r) IN x.isNew => x.imported /\ ~x.isDeleted /\ ~x.isActive
<1> DEFINE macro   == [file |-> r.file, name |-> r.name]
           latest  == IsLatest(job[j].work, r)
           seen    == macro \in Seen(j)
           calls   == {n \in Names : job[j].targets[n] = macro}
           deleted == job[j].mark /\ IF latest THEN ~seen /\ ~(r.isNew /\ r.imported)
                                     ELSE r.isDeleted
           active  == latest /\ ~deleted /\ calls # {}
<1>1. r \in Row
  BY DEF TypeOK, Job
<1>2. /\ Settled(j, r).isNew = (r.isNew /\ ~(latest /\ seen))
      /\ Settled(j, r).isDeleted = deleted
      /\ Settled(j, r).isActive = active
      /\ Settled(j, r).imported = r.imported
  BY <1>1 DEF Settled, Row
<1>3. macro # NoMacro
  BY <1>1, NamesAssumption DEF NoMacro, Row
<1>4. calls # {} => seen
  BY <1>3 DEF PendingInv, TargetsSeen
<1>5. r.isNew => r.imported /\ ~r.isDeleted
  BY DEF PendingInv, Pending
<1> HIDE DEF macro, latest, seen, calls
<1> QED
  BY <1>2, <1>4, <1>5

LEMMA PendingUpdate ==
  ASSUME PendingInv, NEW j \in Jobs, job \in [Jobs -> Job], NEW x,
         job' = [job EXCEPT ![j] = x], Pending(x.work), UNCHANGED rows, TargetsSeen(j)'
  PROVE  PendingInv'
<1>1. \A i \in Jobs \ {j} : job'[i] = job[i]
  OBVIOUS
<1>2. \A i \in Jobs \ {j} : TargetsSeen(i)'
  BY <1>1 DEF PendingInv, TargetsSeen, Seen
<1>3. job'[j] = x
  OBVIOUS
<1> QED
  BY <1>1, <1>2, <1>3 DEF PendingInv

LEMMA IndexingPending == ASSUME TypeOK, PendingInv, Indexing PROVE PendingInv'
<1> PICK j \in Jobs : \/ \E p \in Profiles, mark \in BOOLEAN : StartIndex(j, p, mark)
                      \/ ReadFile(j) \/ BeginTransaction(j) \/ IndexRecord(j)
                      \/ FinishIndex(j) \/ AbortIndex(j)
  BY DEF Indexing
<1>1. job \in [Jobs -> Job] /\ job[j] \in Job /\ IdleJob \in Job
  BY IdleJobType DEF TypeOK
<1>2. Pending({}) /\ Pending(rows) /\ Pending(job[j].work) /\ TargetsSeen(j)
  BY DEF PendingInv, Pending
<1>3. IdleJob.phase = "idle" /\ IdleJob.work = {} /\ IdleJob.targets = NoTargets
  BY DEF IdleJob
<1>4. ASSUME NEW p \in Profiles, NEW mark \in BOOLEAN, StartIndex(j, p, mark)
      PROVE  PendingInv'
  <2> DEFINE x == [IdleJob EXCEPT !.phase = "reading", !.profile = p, !.mark = mark]
  <2>1. x.phase = "reading" /\ x.work = {} /\ x.targets = NoTargets
    BY DEF IdleJob
  <2> HIDE DEF x
  <2>2. job' = [job EXCEPT ![j] = x] /\ UNCHANGED rows
    BY <1>4 DEF StartIndex, x
  <2>3. TargetsSeen(j)'
    BY <1>1, <2>1, <2>2 DEF TargetsSeen
  <2> QED
    BY <1>1, <1>2, <2>1, <2>2, <2>3, PendingUpdate
<1>5. CASE ReadFile(j)
  <2>1. /\ \A i \in Jobs \ {j} : job'[i] = job[i]
        /\ job'[j].phase = "reading" /\ job[j].phase = "reading"
        /\ job'[j].work = job[j].work /\ job'[j].targets = job[j].targets
        /\ UNCHANGED rows
    BY <1>1, <1>5 DEF ReadFile, Job
  <2> QED
    BY <2>1 DEF PendingInv, TargetsSeen, Seen
<1>6. CASE BeginTransaction(j)
  <2>1. /\ \A i \in Jobs \ {j} : job'[i] = job[i]
        /\ job[j].phase = "reading" /\ job'[j].work = rows
        /\ job'[j].targets = job[j].targets
        /\ UNCHANGED rows
    BY <1>1, <1>6 DEF BeginTransaction, Job
  <2>2. TargetsSeen(j)'
    BY <1>2, <2>1 DEF TargetsSeen, NoTargets
  <2> QED
    BY <1>2, <2>1, <2>2 DEF PendingInv, TargetsSeen, Seen
<1>7. CASE IndexRecord(j)
  <2> DEFINE p == job[j].profile
             rec == job[j].records[job[j].pos]
             work == job[j].work
             own == Own(work, p, rec.file, rec.name)
  <2>1. rec \in Record /\ p \in Profiles /\ own \in SUBSET Row
    BY <1>7, RecordTaken
  <2>2. PICK new \in Upserted(own, p, rec) :
          job' = [job EXCEPT ![j] = [job[j] EXCEPT !.work    = (work \ own) \cup new,
                                                   !.targets = Override(job[j].targets, rec),
                                                   !.pos     = job[j].pos + 1]]
    BY <1>7, RecordTaken
  <2>3. Pending(own)
    BY <1>2 DEF Pending, Own
  <2>4. Pending(new)
    <3> HIDE DEF own, rec, p
    <3> QED
      BY <2>1, <2>2, <2>3, UpsertedPending
  <2>5. Pending((work \ own) \cup new)
    BY <1>2, <2>4 DEF Pending
  <2>6. [file |-> rec.file, name |-> rec.name] \in Seen(j)
    BY <1>7 DEF IndexRecord, Seen
  <2>7. \A n \in Names : Override(job[j].targets, rec)[n] \in Seen(j) \cup {NoMacro}
    <3>1. job[j].phase = "indexing" /\ rec.name \in Names
      BY <1>7, <2>1 DEF IndexRecord, Record
    <3>2. \A n \in Names : job[j].targets[n] \in Seen(j) \cup {NoMacro}
      BY <1>2, <3>1 DEF TargetsSeen
    <3> HIDE DEF rec
    <3> QED
      BY <2>6, <3>1, <3>2 DEF Override
  <2>8. /\ \A i \in Jobs \ {j} : job'[i] = job[i]
        /\ job'[j].work = (work \ own) \cup new
        /\ job'[j].targets = Override(job[j].targets, rec)
        /\ job'[j].records = job[j].records
        /\ UNCHANGED rows
        /\ job'[j].phase = "indexing"
    <3> HIDE DEF own, rec
    <3> QED
      BY <1>1, <1>7, <2>2 DEF Job, IndexRecord
  <2> HIDE DEF own, rec
  <2>9. TargetsSeen(j)'
    BY <2>7, <2>8 DEF TargetsSeen, Seen
  <2>10. \A i \in Jobs \ {j} : Pending(job'[i].work) /\ TargetsSeen(i)'
    BY <2>8 DEF PendingInv, TargetsSeen, Seen
  <2>11. Pending(job'[j].work) /\ Pending(rows')
    BY <1>2, <2>5, <2>8
  <2> QED
    BY <2>9, <2>10, <2>11 DEF PendingInv
<1>8. CASE FinishIndex(j)
  <2>1. /\ job[j].phase = "indexing"
        /\ rows' = {r \in job[j].work : r.profile # job[j].profile}
                     \cup {Settled(j, r) : r \in {r \in job[j].work : r.profile = job[j].profile}}
        /\ job' = [job EXCEPT ![j] = IdleJob]
    BY <1>8 DEF FinishIndex
  <2>2. Pending(rows')
    BY <1>2, <2>1, SettledPending DEF Pending
  <2>3. \A i \in Jobs \ {j} : job'[i] = job[i]
    BY <1>1, <2>1
  <2>4. job'[j] = IdleJob
    BY <1>1, <2>1
  <2>5. TargetsSeen(j)' /\ Pending(job'[j].work)
    BY <1>2, <1>3, <2>4 DEF TargetsSeen
  <2> QED
    BY <2>2, <2>3, <2>5 DEF PendingInv, TargetsSeen, Seen
<1>9. CASE AbortIndex(j)
  <2>1. job' = [job EXCEPT ![j] = IdleJob] /\ UNCHANGED rows
    BY <1>9 DEF AbortIndex
  <2>2. TargetsSeen(j)'
    BY <1>1, <1>3, <2>1 DEF TargetsSeen
  <2> QED
    BY <1>1, <1>2, <1>3, <2>1, <2>2, PendingUpdate
<1> QED
  BY <1>4, <1>5, <1>6, <1>7, <1>8, <1>9

LEMMA OtherPending ==
  ASSUME TypeOK, PendingInv, Editing \/ Restoring \/ Importing \/ Removing
  PROVE  PendingInv'
<1>1. UNCHANGED job
  BY DEF Editing, DownloadFile, EditSection, DeleteSource,
         Restoring, SelectVersion, ReadVersion, WriteRestore, FailRestore,
         Importing, ImportShare, ImportOnline, AutoImport, ImportAndActivate,
         Removing, PurgeAllDeleted, RemoveDeleted, RemoveInactive
<1>2. Pending(rows')
  <2>1. CASE Editing \/ Removing
    <3>1. rows' \subseteq rows
      BY <2>1 DEF Editing, DownloadFile, EditSection, DeleteSource,
                  Removing, PurgeAllDeleted, RemoveDeleted, RemoveInactive
    <3> QED
      BY <3>1 DEF PendingInv, Pending
  <2>2. CASE Importing
    <3>1. ASSUME NEW new, rows' = rows \cup {new}, new.imported, ~new.isDeleted, ~new.isActive
          PROVE  Pending(rows')
      BY <3>1 DEF PendingInv, Pending
    <3>2. ASSUME NEW p, NEW f, NEW n, NEW v, NEW t, rows' = rows \cup {NewRow(p, f, n, v, t, TRUE)}
          PROVE  Pending(rows')
      <4> DEFINE new == NewRow(p, f, n, v, t, TRUE)
      <4>1. new.imported /\ ~new.isDeleted /\ ~new.isActive
        BY DEF NewRow
      <4> HIDE DEF new
      <4> QED
        BY <3>1, <3>2, <4>1 DEF new
    <3>3. PICK n \in Names, t \in Offered :
            \/ ImportShare(n, t)
            \/ \E p \in Profiles : \/ ImportOnline(p, n, t)
                                  \/ \E s \in Sessions : ImportAndActivate(s, p, n, t)
      BY <2>2 DEF Importing, AutoImport
    <3>4. CASE ImportShare(n, t)
      BY <3>2, <3>4 DEF ImportShare
    <3>5. ASSUME NEW p \in Profiles, ImportOnline(p, n, t)
          PROVE  Pending(rows')
      BY <3>2, <3>5 DEF ImportOnline
    <3>6. ASSUME NEW p \in Profiles, NEW s \in Sessions, ImportAndActivate(s, p, n, t)
          PROVE  Pending(rows')
      BY <3>2, <3>6 DEF ImportAndActivate
    <3> QED
      BY <3>3, <3>4, <3>5, <3>6
  <2>3. CASE Restoring
    <3>1. ASSUME NEW s \in Sessions, NEW o \in rows
          PROVE  LET x == [o EXCEPT !.isNew = @ /\ o \notin Selected(s)]
                 IN  x.isNew => x.imported /\ ~x.isDeleted /\ ~x.isActive
      <4>1. o \in Row
        BY DEF TypeOK
      <4>2. o.isNew => o.imported /\ ~o.isDeleted /\ ~o.isActive
        BY DEF PendingInv, Pending
      <4> QED
        BY <4>1, <4>2 DEF Row
    <3>2. PICK s \in Sessions :
            \/ rows' = rows
            \/ rows' = {[o EXCEPT !.isNew = @ /\ o \notin Selected(s)] : o \in rows}
      BY <2>3 DEF Restoring, SelectVersion, ReadVersion, WriteRestore, FailRestore
    <3>3. CASE rows' = rows
      BY <3>3 DEF PendingInv
    <3>4. CASE rows' = {[o EXCEPT !.isNew = @ /\ o \notin Selected(s)] : o \in rows}
      BY <3>1, <3>4 DEF Pending
    <3> QED
      BY <3>2, <3>3, <3>4
  <2> QED
    BY <2>1, <2>2, <2>3
<1> QED
  BY <1>1, <1>2 DEF PendingInv, TargetsSeen, Seen

LEMMA PendingInvariant == Spec => []PendingInv
<1>1. Init => PendingInv
  BY DEF Init, PendingInv, Pending, TargetsSeen, IdleJob
<1>2. TypeOK /\ PendingInv /\ [Next]_vars => PendingInv'
  <2>1. ASSUME TypeOK, PendingInv, Next PROVE PendingInv'
    BY <2>1, IndexingPending, OtherPending DEF Next
  <2>2. ASSUME PendingInv, UNCHANGED vars PROVE PendingInv'
    BY <2>2 DEF vars, PendingInv, TargetsSeen, Seen
  <2> QED
    BY <2>1, <2>2
<1> QED
  BY <1>1, <1>2, TypeCorrect, PTL DEF Spec

\* A row marked new is an import that is neither active nor deleted, under every
\* interleaving of scans, promotions, imports, activations and removals.
THEOREM ImportsStayPending == Spec => []PendingImports
<1>1. PendingInv => PendingImports
  BY DEF PendingInv, Pending, PendingImports
<1> QED
  BY <1>1, PendingInvariant, PTL

-----------------------------------------------------------------------------
(***************************************************************************)
(* One active row per command.                                             *)
(*                                                                         *)
(* A run publishes as active only rows whose runtime name calls their      *)
(* macro, and one name calls one macro, whose latest version is unique.    *)
(* The rows of the other printers are those of the table (LockInv).        *)
(***************************************************************************)

OneActive(R) == \A r, s \in R :
                  (/\ r.isActive /\ s.isActive
                   /\ r.profile = s.profile /\ r.runtime = s.runtime) => r = s

\* What publishing makes of a row that it leaves active.
LEMMA SettledActive ==
  ASSUME TypeOK, NEW j \in Jobs, NEW r \in job[j].work, Settled(j, r).isActive
  PROVE  /\ IsLatest(job[j].work, r)
         /\ Settled(j, r).runtime \in Names
         /\ job[j].targets[Settled(j, r).runtime] = [file |-> r.file, name |-> r.name]
<1> DEFINE macro   == [file |-> r.file, name |-> r.name]
           latest  == IsLatest(job[j].work, r)
           seen    == macro \in Seen(j)
           calls   == {n \in Names : job[j].targets[n] = macro}
           deleted == job[j].mark /\ IF latest THEN ~seen /\ ~(r.isNew /\ r.imported)
                                     ELSE r.isDeleted
           active  == latest /\ ~deleted /\ calls # {}
           run     == IF active /\ r.name \notin calls
                      THEN CHOOSE n \in calls : TRUE ELSE r.name
<1>1. r \in Row
  BY DEF TypeOK, Job
<1>2. Settled(j, r).isActive = active /\ Settled(j, r).runtime = run
  BY <1>1 DEF Settled, Row
<1>3. active
  BY <1>2
<1>4. latest /\ calls # {}
  BY <1>3
<1>5. run \in calls
  <2> HIDE DEF calls, active
  <2> QED
    BY <1>3, <1>4
<1>6. \A n \in calls : n \in Names /\ job[j].targets[n] = macro
  OBVIOUS
<1> HIDE DEF run, calls
<1> QED
  BY <1>2, <1>4, <1>5, <1>6

\* Reading a file is not a change of the table.
LEMMA ReadFileRows == ASSUME NEW j \in Jobs, ReadFile(j) PROVE rows' = rows
BY Zenon DEF ReadFile

LEMMA FinishOneActive ==
  ASSUME TypeOK, UniqueVersions, LockInv, OneActive(rows), NEW j \in Jobs, FinishIndex(j)
  PROVE  OneActive(rows')
<1> DEFINE p      == job[j].profile
           work   == job[j].work
           mine   == {r \in work : r.profile = p}
           others == {r \in work : r.profile # p}
<1>1. rows' = others \cup {Settled(j, r) : r \in mine} /\ job[j].phase = "indexing"
  BY DEF FinishIndex
<1>2. others \subseteq rows
  BY <1>1 DEF LockInv, ViewCurrent, Foreign
<1>3. \A r \in mine : Settled(j, r).profile = p
  BY DEF Settled, TypeOK, Job, Row
<1>4. ASSUME NEW r \in mine, NEW s \in mine, Settled(j, r).isActive, Settled(j, s).isActive,
             Settled(j, r).runtime = Settled(j, s).runtime
      PROVE  r = s
  <2>1. r \in Row /\ s \in Row /\ r \in work /\ s \in work /\ r.profile = s.profile
    BY DEF TypeOK, Job
  <2>2. /\ IsLatest(work, r)
        /\ job[j].targets[Settled(j, r).runtime] = [file |-> r.file, name |-> r.name]
    BY <1>4, SettledActive
  <2>3. /\ IsLatest(work, s)
        /\ job[j].targets[Settled(j, s).runtime] = [file |-> s.file, name |-> s.name]
    BY <1>4, SettledActive
  <2>4. [file |-> r.file, name |-> r.name] = [file |-> s.file, name |-> s.name]
    BY <1>4, <2>2, <2>3
  <2>5. r.file = s.file /\ r.name = s.name
    BY <2>4
  <2>6. r.version <= s.version /\ s.version <= r.version
    BY <2>1, <2>2, <2>3, <2>5 DEF IsLatest, Own
  <2>7. r.version = s.version
    BY <2>1, <2>6 DEF Row
  <2>8. Unique(work)
    BY DEF UniqueVersions
  <2> HIDE DEF work
  <2> QED
    BY <2>1, <2>5, <2>7, <2>8 DEF Unique
<1> HIDE DEF mine, others
<1>5. ASSUME NEW x \in rows', NEW y \in rows', x.isActive, y.isActive,
             x.profile = y.profile, x.runtime = y.runtime
      PROVE  x = y
  <2>1. \A z \in others : z.profile # p
    BY DEF others
  <2>2. CASE x \in others /\ y \in others
    BY <1>2, <1>5, <2>2 DEF OneActive
  <2>3. CASE x \notin others /\ y \notin others
    <3>1. PICK r \in mine : x = Settled(j, r)
      BY <1>1, <2>3
    <3>2. PICK s \in mine : y = Settled(j, s)
      BY <1>1, <2>3
    <3> QED
      BY <1>4, <1>5, <3>1, <3>2
  <2>4. CASE x \in others /\ y \notin others
    <3>1. PICK s \in mine : y = Settled(j, s)
      BY <1>1, <2>4
    <3> QED
      BY <1>3, <1>5, <2>1, <2>4, <3>1
  <2>5. CASE x \notin others /\ y \in others
    <3>1. PICK r \in mine : x = Settled(j, r)
      BY <1>1, <2>5
    <3> QED
      BY <1>3, <1>5, <2>1, <2>5, <3>1
  <2> QED
    BY <2>2, <2>3, <2>4, <2>5
<1> QED
  BY <1>5 DEF OneActive

\* Every other operation adds inactive rows, takes rows away or clears a mark.
LEMMA OtherOneActive ==
  ASSUME TypeOK, OneActive(rows), Editing \/ Restoring \/ Importing \/ Removing
  PROVE  OneActive(rows')
<1>1. CASE Editing \/ Removing
  <2>1. rows' \subseteq rows
    BY <1>1 DEF Editing, DownloadFile, EditSection, DeleteSource,
                Removing, PurgeAllDeleted, RemoveDeleted, RemoveInactive
  <2> QED
    BY <2>1 DEF OneActive
<1>2. CASE Importing
  <2>1. PICK new : rows' = rows \cup {new} /\ ~new.isActive
    <3>1. \A p, f, n, v, t : ~NewRow(p, f, n, v, t, TRUE).isActive
      BY DEF NewRow
    <3>2. PICK n \in Names, t \in Offered :
            \/ ImportShare(n, t)
            \/ \E p \in Profiles : \/ ImportOnline(p, n, t)
                                  \/ \E s \in Sessions : ImportAndActivate(s, p, n, t)
      BY <1>2 DEF Importing, AutoImport
    <3>3. \E p, f, v : rows' = rows \cup {NewRow(p, f, n, v, t, TRUE)}
      <4>1. CASE ImportShare(n, t)
        BY <4>1 DEF ImportShare
      <4>2. ASSUME NEW p \in Profiles, ImportOnline(p, n, t)
            PROVE  \E f, v : rows' = rows \cup {NewRow(p, f, n, v, t, TRUE)}
        BY <4>2 DEF ImportOnline
      <4>3. ASSUME NEW p \in Profiles, NEW s \in Sessions, ImportAndActivate(s, p, n, t)
            PROVE  \E f, v : rows' = rows \cup {NewRow(p, f, n, v, t, TRUE)}
        BY <4>3 DEF ImportAndActivate
      <4> QED
        BY <3>2, <4>1, <4>2, <4>3
    <3> QED
      BY <3>1, <3>3
  <2> QED
    BY <2>1 DEF OneActive
<1>3. CASE Restoring
  <2>1. PICK s \in Sessions :
          \/ rows' = rows
          \/ rows' = {[o EXCEPT !.isNew = @ /\ o \notin Selected(s)] : o \in rows}
    BY <1>3 DEF Restoring, SelectVersion, ReadVersion, WriteRestore, FailRestore
  <2> DEFINE read(o) == [o EXCEPT !.isNew = @ /\ o \notin Selected(s)]
  <2>2. \A o \in rows : /\ read(o).isActive = o.isActive
                       /\ read(o).profile = o.profile
                       /\ read(o).runtime = o.runtime
    BY DEF TypeOK, Row
  <2>3. rows' = rows \/ rows' = {read(o) : o \in rows}
    BY <2>1
  <2> HIDE DEF read
  <2> QED
    BY <2>2, <2>3 DEF OneActive
<1> QED
  BY <1>1, <1>2, <1>3

\* A command of a printer is the active name of at most one row, for any number of
\* files, macros, overlapping runs and rename_existing chains.
THEOREM OneRowPerCommand == Spec => []OneActivePerName
<1>1. Init => OneActive(rows)
  BY DEF Init, OneActive
<1>2. TypeOK /\ UniqueVersions /\ LockInv /\ OneActive(rows) /\ [Next]_vars => OneActive(rows)'
  <2>1. ASSUME TypeOK, UniqueVersions, LockInv, OneActive(rows), Indexing
        PROVE  OneActive(rows')
    <3>1. PICK j \in Jobs : \/ \E p \in Profiles, mark \in BOOLEAN : StartIndex(j, p, mark)
                            \/ ReadFile(j) \/ BeginTransaction(j) \/ IndexRecord(j)
                            \/ FinishIndex(j) \/ AbortIndex(j)
      BY <2>1 DEF Indexing
    <3>2. CASE ~FinishIndex(j)
      <4>1. ASSUME NEW p, NEW mark, StartIndex(j, p, mark) PROVE rows' = rows
        BY <4>1 DEF StartIndex
      <4>2. ASSUME ReadFile(j) PROVE rows' = rows
        BY <4>2, ReadFileRows
      <4>3. ASSUME IndexRecord(j) PROVE rows' = rows
        BY <4>3 DEF IndexRecord
      <4>4. ASSUME BeginTransaction(j) \/ AbortIndex(j) PROVE rows' = rows
        BY <4>4 DEF BeginTransaction, AbortIndex
      <4> QED
        BY <2>1, <3>1, <3>2, <4>1, <4>2, <4>3, <4>4
    <3> QED
      BY <2>1, <3>2, FinishOneActive
  <2>2. ASSUME OneActive(rows), UNCHANGED vars PROVE OneActive(rows')
    BY <2>2 DEF vars
  <2> QED
    BY <2>1, <2>2, OtherOneActive DEF Next
<1>3. OneActive(rows) <=> OneActivePerName
  BY DEF OneActive, OneActivePerName
<1> QED
  BY <1>1, <1>2, <1>3, TypeCorrect, VersionsAreUnique, LockInvariant, PTL DEF Spec

\* An automatic update is not offered again by the next check, whatever versions of
\* the macro the printer has in whatever files.
THEOREM UpdatesSettle == Spec => UpdateSettles
<1>1. ASSUME TypeOK, NEW p \in Virtual, NEW n \in Names, NEW t \in Offered, AutoImport(p, n, t)
      PROVE  ~UpdateOffered(p, n, t)'
  <2>1. PICK f \in SourceFiles(p, n), v \in 1 .. VersionBound :
          /\ \A r \in Own(rows, p, f, n) : r.version < v
          /\ rows' = rows \cup {NewRow(p, f, n, v, t, TRUE)}
    BY <1>1 DEF AutoImport, ImportOnline, IsNextOnline
  <2> DEFINE new == NewRow(p, f, n, v, t, TRUE)
  <2>2. /\ new.profile = p /\ new.file = f /\ new.name = n /\ new.version = v
        /\ new.text = t /\ new.imported
    BY DEF NewRow
  <2>3. v \in Nat /\ \A r \in rows : r.version \in Nat
    BY <1>1, BoundsAssumption DEF TypeOK, Row
  <2> HIDE DEF new
  <2>4. rows' = rows \cup {new}
    BY <2>1 DEF new
  <2>5. \A o \in Own(rows', p, f, n) : o.version <= v
    <3>1. ASSUME NEW o \in Own(rows', p, f, n) PROVE o.version <= v
      <4>1. (o \in rows /\ o \in Own(rows, p, f, n)) \/ o = new
        BY <2>4 DEF Own
      <4>2. CASE o = new
        BY <2>2, <2>3, <4>2
      <4>3. CASE o \in rows /\ o \in Own(rows, p, f, n)
        <5>1. o.version < v
          BY <2>1, <4>3
        <5> QED
          BY <2>3, <4>3, <5>1
      <4> QED
        BY <4>1, <4>2, <4>3
    <3> QED
      BY <3>1
  <2>6. new \in Imports(p, n)'
    BY <2>2, <2>4, <2>5 DEF Imports
  <2>7. new \in LocalSources(p, n)'
    BY <2>6 DEF LocalSources
  <2> QED
    BY <2>2, <2>7 DEF UpdateOffered
<1>2. TypeOK => [\A p \in Virtual, n \in Names, t \in Offered :
                   AutoImport(p, n, t) => ~UpdateOffered(p, n, t)']_vars
  BY <1>1
<1> QED
  BY <1>2, TypeCorrect, PTL DEF UpdateSettles

=============================================================================
