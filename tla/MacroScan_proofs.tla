-------------------------- MODULE MacroScan_proofs --------------------------
(***************************************************************************)
(* Proofs about what an indexing run makes of the macros it reads: what it *)
(* captures, what it leaves alone and which command runs which definition. *)
(***************************************************************************)
EXTENDS MacroHistory_proofs, FiniteSetTheorems, FunctionTheorems

-----------------------------------------------------------------------------
(***************************************************************************)
(* The versions of one macro, and taking a record for it.                  *)
(***************************************************************************)

\* r is the latest of the versions of one macro.
Top(own, r) == r \in own /\ \A o \in own : o.version <= r.version

LEMMA LatestIsTop ==
  ASSUME NEW R, NEW p, NEW f, NEW n, NEW r \in Own(R, p, f, n)
  PROVE  IsLatest(R, r) <=> Top(Own(R, p, f, n), r)
<1>1. r \in R /\ r.profile = p /\ r.file = f /\ r.name = n
  BY DEF Own
<1> QED
  BY <1>1 DEF IsLatest, Top

\* What promotion makes of one row.
Number(m, l, r) == IF r = m THEN l.version
                   ELSE IF m.version < r.version THEN r.version - 1 ELSE r.version

PromotedRow(m, l, t, r) == [r EXCEPT !.version = Number(m, l, r),
                                     !.text    = IF r = m THEN t ELSE r.text,
                                     !.isNew   = r # m /\ r.isNew]

LEMMA PromotedRows ==
  ASSUME NEW own, NEW m, NEW l, NEW t
  PROVE  Promoted(own, m, l, t) = {PromotedRow(m, l, t, r) : r \in own}
BY DEF Promoted, PromotedRow, Number

LEMMA PromotedFields ==
  ASSUME NEW r \in Row, NEW m, NEW l, NEW t
  PROVE  LET x == PromotedRow(m, l, t, r)
         IN  /\ x.version = Number(m, l, r)
             /\ x.text = (IF r = m THEN t ELSE r.text)
             /\ x.isNew = (r # m /\ r.isNew)
             /\ x.profile = r.profile /\ x.file = r.file /\ x.name = r.name
             /\ x.isDeleted = r.isDeleted /\ x.isActive = r.isActive
             /\ x.imported = r.imported /\ x.runtime = r.runtime
BY DEF PromotedRow, Row

\* The new numbers are as many as the rows: no two rows share one.
LEMMA NumbersApart ==
  ASSUME NEW own \in SUBSET Row, \A r, s \in own : r.version = s.version => r = s,
         NEW m \in own, NEW l, Top(own, l), NEW r \in own, NEW s \in own,
         Number(m, l, r) = Number(m, l, s)
  PROVE  r = s
<1>1. \A x \in own : x.version \in Nat /\ x.version <= l.version
  BY DEF Top, Row
<1>2. l.version \in Nat
  BY DEF Top, Row
<1>3. CASE r = m /\ s # m
  BY <1>1, <1>2, <1>3 DEF Number
<1>4. CASE r # m /\ s = m
  BY <1>1, <1>2, <1>4 DEF Number
<1>5. CASE r # m /\ s # m
  <2>1. r.version # m.version /\ s.version # m.version
    BY <1>5
  <2>2. r.version = s.version
    BY <1>1, <1>5, <2>1 DEF Number
  <2> QED
    BY <2>2
<1> QED
  BY <1>3, <1>4, <1>5

\* Taking a record adds a first version, adds a version and prunes, or promotes
\* a version of the same meaning.
LEMMA UpsertedCases ==
  ASSUME NEW own \in SUBSET Row, NEW p \in Profiles, NEW rec \in Record,
         OneMacro(own, p, rec.file, rec.name), NEW new \in Upserted(own, p, rec)
  PROVE  LET N(v) == NewRow(p, rec.file, rec.name, v, rec.text, FALSE)
         IN  \/ own = {} /\ new = {N(1)}
             \/ \E l \in own : /\ Top(own, l)
                               /\ \A r \in own : Meaning[r.text] # Meaning[rec.text]
                               /\ new = {r \in own : r.version + MaxVersions > l.version + 1}
                                          \cup {N(l.version + 1)}
             \/ \E l \in own, m \in own : /\ Top(own, l)
                                          /\ Meaning[m.text] = Meaning[rec.text]
                                          /\ new = Promoted(own, m, l, rec.text)
<1> DEFINE N(v) == NewRow(p, rec.file, rec.name, v, rec.text, FALSE)
<1>1. \A v : N(v).version = v
  BY DEF NewRow
<1>2. MaxVersions \in Nat /\ MaxVersions > 0
  BY BoundsAssumption
<1>3. CASE own = {}
  <2>1. new = Inserted({}, N(1))
    BY <1>3 DEF Upserted
  <2> HIDE DEF N
  <2>2. new = {N(1)}
    BY <1>1, <1>2, <2>1 DEF Inserted, Pruned
  <2> QED
    BY <1>3, <2>2 DEF N
<1>4. CASE own # {}
  <2>1. PICK l \in own :
          /\ IsLatest(own, l)
          /\ \/ Matches(own, l, rec.text) = {} /\ new = Inserted(own, N(l.version + 1))
             \/ \E m \in Matches(own, l, rec.text) : new = Promoted(own, m, l, rec.text)
    BY <1>4 DEF Upserted
  <2>2. Top(own, l)
    <3>1. own = Own(own, p, rec.file, rec.name)
      BY DEF OneMacro, Own
    <3> QED
      BY <2>1, <3>1, LatestIsTop
  <2>3. CASE Matches(own, l, rec.text) = {} /\ new = Inserted(own, N(l.version + 1))
    <3>1. \A r \in own : Meaning[r.text] # Meaning[rec.text]
      BY <2>3 DEF Matches
    <3>2. l.version \in Nat /\ l.version + 1 + MaxVersions > l.version + 1
      BY <1>2 DEF Row
    <3> HIDE DEF N
    <3>3. new = {r \in own : r.version + MaxVersions > l.version + 1} \cup {N(l.version + 1)}
      BY <1>1, <2>3, <3>2 DEF Inserted, Pruned
    <3> QED
      BY <2>2, <3>1, <3>3 DEF N
  <2>4. CASE \E m \in Matches(own, l, rec.text) : new = Promoted(own, m, l, rec.text)
    <3>1. \A m \in Matches(own, l, rec.text) : m \in own /\ Meaning[m.text] = Meaning[rec.text]
      BY DEF Matches
    <3> QED
      BY <2>2, <2>4, <3>1
  <2> QED
    BY <2>1, <2>3, <2>4
<1> QED
  BY <1>3, <1>4

\* The promoted row is on top, with the highest number there was.
LEMMA PromotedTop ==
  ASSUME NEW own \in SUBSET Row, NEW m \in own, NEW l, Top(own, l), NEW t
  PROVE  \E r \in Promoted(own, m, l, t) :
           Top(Promoted(own, m, l, t), r) /\ r.version = l.version /\ r.text = t
<1> DEFINE G(r) == PromotedRow(m, l, t, r)
           new == Promoted(own, m, l, t)
<1>1. new = {G(r) : r \in own}
  BY PromotedRows
<1>2. \A r \in own : G(r).version = Number(m, l, r)
  BY PromotedFields
<1>3. G(m).text = t
  BY PromotedFields
<1>4. \A r \in own : Number(m, l, r) <= Number(m, l, m)
  <2>1. l \in own /\ \A r \in own : r.version \in Nat /\ r.version <= l.version
    BY DEF Top, Row
  <2> QED
    BY <2>1 DEF Number
<1>5. Number(m, l, m) = l.version
  BY DEF Number
<1> HIDE DEF G, new
<1>6. \A o \in new : o.version <= G(m).version
  BY <1>1, <1>2, <1>4
<1>7. G(m) \in new /\ Top(new, G(m)) /\ G(m).version = l.version /\ G(m).text = t
  BY <1>1, <1>2, <1>3, <1>5, <1>6 DEF Top
<1> QED
  BY <1>7 DEF new

\* A taken record's text is the latest version of its macro.
LEMMA UpsertedCaptures ==
  ASSUME NEW own \in SUBSET Row, NEW p \in Profiles, NEW rec \in Record,
         OneMacro(own, p, rec.file, rec.name), NEW new \in Upserted(own, p, rec)
  PROVE  \E r \in new : Top(new, r) /\ r.text = rec.text
<1> DEFINE N(v) == NewRow(p, rec.file, rec.name, v, rec.text, FALSE)
<1>1. \A v : N(v).version = v /\ N(v).text = rec.text
  BY DEF NewRow
<1>2. \A r \in own : r.version \in Nat
  BY DEF Row
<1>3. \/ own = {} /\ new = {N(1)}
      \/ \E l \in own : /\ Top(own, l)
                        /\ \A r \in own : Meaning[r.text] # Meaning[rec.text]
                        /\ new = {r \in own : r.version + MaxVersions > l.version + 1}
                                   \cup {N(l.version + 1)}
      \/ \E l \in own, m \in own : /\ Top(own, l)
                                   /\ Meaning[m.text] = Meaning[rec.text]
                                   /\ new = Promoted(own, m, l, rec.text)
  BY UpsertedCases, Zenon
<1> HIDE DEF N
<1>4. CASE own = {} /\ new = {N(1)}
  <2>1. \A o \in new : o.version <= N(1).version
    BY <1>1, <1>4
  <2> QED
    BY <1>1, <1>4, <2>1 DEF Top
<1>5. ASSUME NEW l \in own, Top(own, l),
             new = {r \in own : r.version + MaxVersions > l.version + 1} \cup {N(l.version + 1)}
      PROVE  \E r \in new : Top(new, r) /\ r.text = rec.text
  <2>1. \A o \in new : o.version <= N(l.version + 1).version
    BY <1>1, <1>2, <1>5 DEF Top
  <2> QED
    BY <1>1, <1>5, <2>1 DEF Top
<1>6. ASSUME NEW l \in own, NEW m \in own, Top(own, l), new = Promoted(own, m, l, rec.text)
      PROVE  \E r \in new : Top(new, r) /\ r.text = rec.text
  BY <1>6, PromotedTop
<1> QED
  BY <1>4, <1>5, <1>6, <1>3

-----------------------------------------------------------------------------
(***************************************************************************)
(* How many versions there are: always finitely many, and promotion and    *)
(* publishing keep their number.                                           *)
(***************************************************************************)

\* The image of a finite set under a renaming that keeps its elements apart.
LEMMA FiniteImage ==
  ASSUME NEW S, IsFiniteSet(S), NEW T, NEW F, F \in [S -> T], T = {F[x] : x \in S}
  PROVE  /\ IsFiniteSet(T)
         /\ (\A x, y \in S : F[x] = F[y] => x = y) => Cardinality(T) = Cardinality(S)
<1>1. F \in Surjection(S, T)
  BY Fun_IsSurj
<1>2. IsFiniteSet(T)
  BY <1>1, FS_Surjection
<1>3. ASSUME \A x, y \in S : F[x] = F[y] => x = y
      PROVE  Cardinality(T) = Cardinality(S)
  <2>1. F \in Injection(S, T)
    BY <1>3, Fun_IsInj
  <2>2. F \in Bijection(S, T)
    BY <1>1, <2>1 DEF Bijection
  <2>3. ExistsBijection(S, T)
    BY <2>2 DEF ExistsBijection
  <2> QED
    BY <2>3, FS_Bijection
<1> QED
  BY <1>2, <1>3

LEMMA PromotedFinite ==
  ASSUME NEW own \in SUBSET Row, IsFiniteSet(own), NEW m \in own, NEW l, Top(own, l), NEW t
  PROVE  /\ IsFiniteSet(Promoted(own, m, l, t))
         /\ (\A r, s \in own : r.version = s.version => r = s)
              => Cardinality(Promoted(own, m, l, t)) = Cardinality(own)
<1> DEFINE G(r) == PromotedRow(m, l, t, r)
           new == Promoted(own, m, l, t)
           F == [r \in own |-> G(r)]
<1>1. new = {G(r) : r \in own}
  BY PromotedRows
<1>2. \A r \in own : G(r).version = Number(m, l, r)
  BY PromotedFields
<1> HIDE DEF G, new
<1>3. F \in [own -> new] /\ new = {F[r] : r \in own}
  BY <1>1
<1>4. (\A r, s \in own : r.version = s.version => r = s) => \A r, s \in own : F[r] = F[s] => r = s
  BY <1>2, NumbersApart
<1> HIDE DEF F
<1>5. IsFiniteSet(new) /\ ((\A r, s \in own : F[r] = F[s] => r = s) => Cardinality(new) = Cardinality(own))
  BY <1>3, FiniteImage
<1> QED
  BY <1>4, <1>5 DEF new

LEMMA UpsertedFinite ==
  ASSUME NEW own \in SUBSET Row, NEW p \in Profiles, NEW rec \in Record,
         OneMacro(own, p, rec.file, rec.name), NEW new \in Upserted(own, p, rec),
         IsFiniteSet(own)
  PROVE  IsFiniteSet(new)
<1> DEFINE N(v) == NewRow(p, rec.file, rec.name, v, rec.text, FALSE)
<1>1. \/ own = {} /\ new = {N(1)}
      \/ \E l \in own : /\ Top(own, l)
                        /\ \A r \in own : Meaning[r.text] # Meaning[rec.text]
                        /\ new = {r \in own : r.version + MaxVersions > l.version + 1}
                                   \cup {N(l.version + 1)}
      \/ \E l \in own, m \in own : /\ Top(own, l)
                                   /\ Meaning[m.text] = Meaning[rec.text]
                                   /\ new = Promoted(own, m, l, rec.text)
  BY UpsertedCases, Zenon
<1> HIDE DEF N
<1>2. CASE own = {} /\ new = {N(1)}
  BY <1>2, FS_Singleton
<1>3. ASSUME NEW l \in own,
             new = {r \in own : r.version + MaxVersions > l.version + 1} \cup {N(l.version + 1)}
      PROVE  IsFiniteSet(new)
  <2> DEFINE S == {r \in own : r.version + MaxVersions > l.version + 1}
  <2>1. S \in SUBSET own
    OBVIOUS
  <2> HIDE DEF S
  <2>2. IsFiniteSet(S)
    BY <2>1, FS_Subset
  <2>3. IsFiniteSet(S \cup {N(l.version + 1)})
    BY <2>2, FS_AddElement
  <2> QED
    BY <1>3, <2>3 DEF S
<1>4. ASSUME NEW l \in own, NEW m \in own, Top(own, l), new = Promoted(own, m, l, rec.text)
      PROVE  IsFiniteSet(new)
  BY <1>4, PromotedFinite
<1> QED
  BY <1>1, <1>2, <1>3, <1>4

\* The versions of a macro after its record, and after that of another one.
LEMMA ReplacedOwn ==
  ASSUME NEW R, NEW p, NEW f, NEW n, NEW new, OneMacro(new, p, f, n), NEW g, NEW k
  PROVE  Own((R \ Own(R, p, f, n)) \cup new, p, g, k)
           = IF g = f /\ k = n THEN new ELSE Own(R, p, g, k)
BY DEF Own, OneMacro

-----------------------------------------------------------------------------
(***************************************************************************)
(* While a run writes, nobody else does: its view and the table stay what  *)
(* they were, except for the run's own steps.                              *)
(***************************************************************************)

LEMMA SteadyWhileIndexing ==
  ASSUME TypeOK, LockInv, Next, NEW i \in Jobs, job'[i].phase = "indexing"
  PROVE  \/ job'[i] = job[i] /\ rows' = rows
         \/ BeginTransaction(i) \/ IndexRecord(i)
<1>1. job \in [Jobs -> Job]
  BY DEF TypeOK
<1>2. CASE Indexing
  <2>1. PICK j \in Jobs : \/ \E p \in Profiles, mark \in BOOLEAN : StartIndex(j, p, mark)
                          \/ ReadFile(j) \/ BeginTransaction(j) \/ IndexRecord(j)
                          \/ FinishIndex(j) \/ AbortIndex(j)
    BY <1>2 DEF Indexing
  <2>2. CASE \E p \in Profiles, mark \in BOOLEAN : StartIndex(j, p, mark)
    <3>1. PICK p, mark : StartIndex(j, p, mark)
      BY <2>2
    <3> DEFINE x == [IdleJob EXCEPT !.phase = "reading", !.profile = p, !.mark = mark]
    <3>2. x.phase = "reading"
      BY DEF IdleJob
    <3> HIDE DEF x
    <3>3. job' = [job EXCEPT ![j] = x] /\ rows' = rows
      BY <3>1 DEF StartIndex, x
    <3> QED
      BY <1>1, <3>2, <3>3
  <2>3. CASE ReadFile(j)
    <3>1. job'[j].phase = "reading" /\ \A k \in Jobs \ {j} : job'[k] = job[k]
      BY <1>1, <2>3 DEF ReadFile, Job
    <3> QED
      BY <2>3, <3>1, ReadFileRows
  <2>4. CASE BeginTransaction(j)
    <3>1. (\A k \in Jobs \ {j} : job'[k] = job[k]) /\ rows' = rows
      BY <1>1, <2>4 DEF BeginTransaction
    <3> QED
      BY <2>4, <3>1
  <2>5. CASE IndexRecord(j)
    <3>1. rows' = rows
      BY <2>5 DEF IndexRecord
    <3>2. \A k \in Jobs \ {j} : job'[k] = job[k]
      BY <1>1, <2>5, RecordTaken, Zenon
    <3> QED
      BY <2>5, <3>1, <3>2
  <2>6. CASE FinishIndex(j)
    <3>1. job' = [job EXCEPT ![j] = IdleJob] /\ job[j].phase = "indexing"
      BY <2>6 DEF FinishIndex
    <3>2. IdleJob.phase = "idle"
      BY DEF IdleJob
    <3>3. i # j /\ job'[i] = job[i]
      BY <1>1, <3>1, <3>2
    <3> QED
      BY <3>1, <3>3 DEF LockInv, OneWriter
  <2>7. CASE AbortIndex(j)
    <3>1. job' = [job EXCEPT ![j] = IdleJob] /\ rows' = rows
      BY <2>7 DEF AbortIndex
    <3>2. IdleJob.phase = "idle"
      BY DEF IdleJob
    <3> QED
      BY <1>1, <3>1, <3>2
  <2> QED
    BY <2>1, <2>2, <2>3, <2>4, <2>5, <2>6, <2>7
<1>3. CASE Editing \/ Restoring \/ Importing \/ Removing
  <2>1. UNCHANGED job
    BY ZenonT(30), <1>3 DEF Editing, DownloadFile, EditSection, DeleteSource,
         Restoring, SelectVersion, ReadVersion, WriteRestore, FailRestore,
         Importing, ImportShare, ImportOnline, AutoImport, ImportAndActivate,
         Removing, PurgeAllDeleted, RemoveDeleted, RemoveInactive
  <2>2. Unlocked \/ UNCHANGED rows
    BY <1>3 DEF Editing, DownloadFile, EditSection, DeleteSource,
         Restoring, SelectVersion, ReadVersion, WriteRestore, FailRestore,
         Importing, ImportShare, ImportOnline, AutoImport, ImportAndActivate,
         Removing, PurgeAllDeleted, RemoveDeleted, RemoveInactive
  <2> QED
    BY <2>1, <2>2 DEF Unlocked
<1> QED
  BY <1>2, <1>3 DEF Next

\* The view of a run starts as the table, changes by the run's records and ends
\* empty.
LEMMA ViewSteps ==
  ASSUME TypeOK, Next, NEW i \in Jobs
  PROVE  \/ job'[i].work \in {job[i].work, rows, {}}
         \/ IndexRecord(i)
<1>1. job \in [Jobs -> Job] /\ IdleJob.work = {}
  BY DEF TypeOK, IdleJob
<1>2. CASE Indexing
  <2>1. PICK j \in Jobs : \/ \E p \in Profiles, mark \in BOOLEAN : StartIndex(j, p, mark)
                          \/ ReadFile(j) \/ BeginTransaction(j) \/ IndexRecord(j)
                          \/ FinishIndex(j) \/ AbortIndex(j)
    BY <1>2 DEF Indexing
  <2>2. CASE \E p \in Profiles, mark \in BOOLEAN : StartIndex(j, p, mark)
    <3>1. PICK p, mark : StartIndex(j, p, mark)
      BY <2>2
    <3> DEFINE x == [IdleJob EXCEPT !.phase = "reading", !.profile = p, !.mark = mark]
    <3>2. x.work = {}
      BY DEF IdleJob
    <3> HIDE DEF x
    <3>3. job' = [job EXCEPT ![j] = x]
      BY <3>1 DEF StartIndex, x
    <3> QED
      BY <1>1, <3>2, <3>3
  <2>3. CASE ReadFile(j)
    BY <1>1, <2>3 DEF ReadFile, Job
  <2>4. CASE BeginTransaction(j)
    <3>1. (\A k \in Jobs \ {j} : job'[k] = job[k]) /\ job'[j].work = rows
      BY <1>1, <2>4 DEF BeginTransaction, Job
    <3> QED
      BY <3>1
  <2>5. CASE IndexRecord(j)
    <3>1. \A k \in Jobs \ {j} : job'[k] = job[k]
      BY <1>1, <2>5, RecordTaken, Zenon
    <3> QED
      BY <2>5, <3>1
  <2>6. CASE FinishIndex(j) \/ AbortIndex(j)
    <3>1. job' = [job EXCEPT ![j] = IdleJob]
      BY <2>6 DEF FinishIndex, AbortIndex
    <3> QED
      BY <1>1, <3>1
  <2> QED
    BY <2>1, <2>2, <2>3, <2>4, <2>5, <2>6
<1>3. CASE Editing \/ Restoring \/ Importing \/ Removing
  <2>1. UNCHANGED job
    BY <1>3 DEF Editing, DownloadFile, EditSection, DeleteSource,
         Restoring, SelectVersion, ReadVersion, WriteRestore, FailRestore,
         Importing, ImportShare, ImportOnline, AutoImport, ImportAndActivate,
         Removing, PurgeAllDeleted, RemoveDeleted, RemoveInactive
  <2> QED
    BY <2>1
<1> QED
  BY <1>2, <1>3 DEF Next

\* A record of run i is taken: its macro, the versions of it, what becomes of them.
Takes(i, p, rec, new) ==
  /\ rec = job[i].records[job[i].pos] /\ rec \in Record
  /\ p = job[i].profile /\ p \in Profiles
  /\ job[i].pos \in DOMAIN job[i].records
  /\ Own(job[i].work, p, rec.file, rec.name) \in SUBSET Row
  /\ OneMacro(Own(job[i].work, p, rec.file, rec.name), p, rec.file, rec.name)
  /\ new \in Upserted(Own(job[i].work, p, rec.file, rec.name), p, rec)
  /\ new \in SUBSET Row /\ OneMacro(new, p, rec.file, rec.name)
  /\ job'[i].work = (job[i].work \ Own(job[i].work, p, rec.file, rec.name)) \cup new
  /\ job'[i].targets = Override(job[i].targets, rec)
  /\ job'[i].pos = job[i].pos + 1
  /\ job'[i].records = job[i].records /\ job'[i].profile = p
  /\ job'[i].phase = "indexing" /\ job[i].phase = "indexing" /\ rows' = rows
  /\ \A k \in Jobs \ {i} : job'[k] = job[k]

LEMMA Taking ==
  ASSUME TypeOK, UniqueVersions, NEW i \in Jobs, IndexRecord(i)
  PROVE  \E p, rec, new : Takes(i, p, rec, new)
<1> DEFINE p == job[i].profile
           rec == job[i].records[job[i].pos]
           own == Own(job[i].work, p, rec.file, rec.name)
<1>1. rec \in Record /\ p \in Profiles /\ own \in SUBSET Row
  BY RecordTaken
<1>2. PICK new \in Upserted(own, p, rec) :
        job' = [job EXCEPT ![i] = [job[i] EXCEPT !.work    = (job[i].work \ own) \cup new,
                                                 !.targets = Override(job[i].targets, rec),
                                                 !.pos     = job[i].pos + 1]]
  BY RecordTaken
<1>3. OneMacro(own, p, rec.file, rec.name) /\ Unique(own)
  BY OwnOneMacro, SubsetUnique DEF UniqueVersions
<1>4. rec = job[i].records[job[i].pos] /\ p = job[i].profile
      /\ own = Own(job[i].work, p, rec.file, rec.name)
  OBVIOUS
<1>5. /\ job[i].pos \in DOMAIN job[i].records /\ job[i].phase = "indexing" /\ rows' = rows
      /\ job \in [Jobs -> Job]
  BY DEF IndexRecord, TypeOK
<1> HIDE DEF p, rec, own
<1>6. new \in SUBSET Row /\ OneMacro(new, p, rec.file, rec.name)
  BY <1>1, <1>2, <1>3, UpsertedType, UpsertedUnique
<1>7. /\ job'[i].work = (job[i].work \ own) \cup new
      /\ job'[i].targets = Override(job[i].targets, rec)
      /\ job'[i].pos = job[i].pos + 1
      /\ job'[i].records = job[i].records /\ job'[i].profile = job[i].profile
      /\ job'[i].phase = job[i].phase
      /\ \A k \in Jobs \ {i} : job'[k] = job[k]
  BY <1>2, <1>5 DEF Job
<1>8. Takes(i, p, rec, new)
  BY <1>1, <1>2, <1>3, <1>4, <1>5, <1>6, <1>7, Zenon DEF Takes
<1> QED
  BY <1>8

\* An import adds a row on top of its macro, while no run holds the lock.
LEMMA ImportedRow ==
  ASSUME TypeOK, Importing
  PROVE  \E p \in Profiles, f \in Files, n \in Names, v \in Nat \ {0}, t \in Texts :
           /\ Unlocked /\ UNCHANGED job
           /\ \A r \in Own(rows, p, f, n) : r.version < v
           /\ rows' = rows \cup {NewRow(p, f, n, v, t, TRUE)}
<1>1. PICK n \in Names, t \in Offered :
        \/ ImportShare(n, t)
        \/ \E p \in Profiles : \/ ImportOnline(p, n, t)
                              \/ \E s \in Sessions : ImportAndActivate(s, p, n, t)
  BY DEF Importing, AutoImport
<1>2. 1 .. VersionBound \subseteq Nat \ {0} /\ t \in Texts
  BY BoundsAssumption, TextsAssumption
<1>3. CASE ImportShare(n, t)
  <2>1. PICK v \in 1 .. VersionBound :
          /\ \A r \in rows : r.file = ImportFile /\ r.name = n => r.version < v
          /\ rows' = rows \cup {NewRow(ShareProfile, ImportFile, n, v, t, TRUE)}
          /\ UNCHANGED job /\ Unlocked
    BY <1>3 DEF ImportShare
  <2>2. \A r \in Own(rows, ShareProfile, ImportFile, n) : r.version < v
    BY <2>1 DEF Own
  <2> QED
    BY <1>2, <2>1, <2>2, ProfilesAssumption, FilesAssumption
<1>4. ASSUME NEW p \in Profiles,
             ImportOnline(p, n, t) \/ \E s \in Sessions : ImportAndActivate(s, p, n, t)
      PROVE  \E f \in SourceFiles(p, n), v \in 1 .. VersionBound :
               /\ \A r \in Own(rows, p, f, n) : r.version < v
               /\ rows' = rows \cup {NewRow(p, f, n, v, t, TRUE)}
               /\ UNCHANGED job /\ Unlocked
  BY <1>4 DEF ImportOnline, ImportAndActivate, IsNextOnline
<1>5. \A p \in Profiles : SourceFiles(p, n) \subseteq Files
  BY SourceFilesType
<1> QED
  BY <1>1, <1>2, <1>3, <1>4, <1>5

\* What a step can make of the table.
LEMMA TableSteps ==
  ASSUME TypeOK, Next
  PROVE  \/ rows' \subseteq rows
         \/ \E p \in Profiles, f \in Files, n \in Names, v \in Nat \ {0}, t \in Texts :
              /\ Unlocked /\ UNCHANGED job
              /\ \A r \in Own(rows, p, f, n) : r.version < v
              /\ rows' = rows \cup {NewRow(p, f, n, v, t, TRUE)}
         \/ \E s \in Sessions : /\ UNCHANGED job
                               /\ rows' = {[o EXCEPT !.isNew = @ /\ o \notin Selected(s)] : o \in rows}
         \/ \E j \in Jobs : FinishIndex(j)
<1>1. CASE Indexing
  <2>1. PICK j \in Jobs : \/ \E p \in Profiles, mark \in BOOLEAN : StartIndex(j, p, mark)
                          \/ ReadFile(j) \/ BeginTransaction(j) \/ IndexRecord(j)
                          \/ FinishIndex(j) \/ AbortIndex(j)
    BY <1>1 DEF Indexing
  <2>2. ReadFile(j) => rows' = rows
    BY ReadFileRows
  <2> QED
    BY <2>1, <2>2 DEF StartIndex, BeginTransaction, IndexRecord, AbortIndex
<1>2. CASE Editing \/ Removing
  BY <1>2 DEF Editing, DownloadFile, EditSection, DeleteSource,
         Removing, PurgeAllDeleted, RemoveDeleted, RemoveInactive
<1>3. CASE Restoring
  BY <1>3 DEF Restoring, SelectVersion, ReadVersion, WriteRestore, FailRestore
<1>4. CASE Importing
  BY <1>4, ImportedRow
<1> QED
  BY <1>1, <1>2, <1>3, <1>4 DEF Next

-----------------------------------------------------------------------------
(***************************************************************************)
(* The table and every run's view of it are finite, and a row that is not  *)
(* active has its own name as its runtime name.                            *)
(***************************************************************************)

Tidy(R) == IsFiniteSet(R) /\ \A r \in R : ~r.isActive => r.runtime = r.name

TidyInv == Tidy(rows) /\ \A j \in Jobs : Tidy(job[j].work)

LEMMA SubsetTidy ==
  ASSUME NEW R, Tidy(R), NEW S, S \subseteq R
  PROVE  Tidy(S)
BY FS_Subset DEF Tidy

LEMMA UnionTidy ==
  ASSUME NEW R, Tidy(R), NEW S, Tidy(S)
  PROVE  Tidy(R \cup S)
BY FS_Union DEF Tidy

\* Flags of rows are rewritten one row at a time.
LEMMA RewriteTidy ==
  ASSUME NEW R, Tidy(R), NEW F, DOMAIN F = R,
         \A r \in R : ~F[r].isActive => F[r].runtime = F[r].name
  PROVE  Tidy({F[r] : r \in R})
<1> DEFINE T == {F[r] : r \in R}
           G == [r \in R |-> F[r]]
<1>1. G \in [R -> T] /\ T = {G[r] : r \in R} /\ IsFiniteSet(R)
  BY DEF Tidy
<1> HIDE DEF T, G
<1>2. IsFiniteSet(T)
  BY <1>1, FiniteImage
<1> QED
  BY <1>2 DEF T, Tidy

LEMMA NewRowTidy ==
  ASSUME NEW p, NEW f, NEW n, NEW v, NEW t, NEW i
  PROVE  Tidy({NewRow(p, f, n, v, t, i)})
<1>1. NewRow(p, f, n, v, t, i).runtime = NewRow(p, f, n, v, t, i).name
  BY DEF NewRow
<1> QED
  BY <1>1, FS_Singleton DEF Tidy

LEMMA UpsertedTidy ==
  ASSUME NEW own \in SUBSET Row, NEW p \in Profiles, NEW rec \in Record,
         OneMacro(own, p, rec.file, rec.name), NEW new \in Upserted(own, p, rec), Tidy(own)
  PROVE  Tidy(new)
<1> DEFINE N(v) == NewRow(p, rec.file, rec.name, v, rec.text, FALSE)
<1>1. IsFiniteSet(new)
  BY UpsertedFinite DEF Tidy
<1>2. \A v : N(v).runtime = N(v).name
  BY DEF NewRow
<1>3. \/ own = {} /\ new = {N(1)}
      \/ \E l \in own : /\ Top(own, l)
                        /\ \A r \in own : Meaning[r.text] # Meaning[rec.text]
                        /\ new = {r \in own : r.version + MaxVersions > l.version + 1}
                                   \cup {N(l.version + 1)}
      \/ \E l \in own, m \in own : /\ Top(own, l)
                                   /\ Meaning[m.text] = Meaning[rec.text]
                                   /\ new = Promoted(own, m, l, rec.text)
  BY UpsertedCases, Zenon
<1> HIDE DEF N
<1>4. CASE ~\E l \in own, m \in own : new = Promoted(own, m, l, rec.text)
  BY <1>1, <1>2, <1>3, <1>4 DEF Tidy
<1>5. ASSUME NEW l \in own, NEW m \in own, new = Promoted(own, m, l, rec.text)
      PROVE  Tidy(new)
  <2> DEFINE G(r) == PromotedRow(m, l, rec.text, r)
  <2>1. new = {G(r) : r \in own}
    BY <1>5, PromotedRows
  <2>2. \A r \in own : G(r).isActive = r.isActive /\ G(r).runtime = r.runtime /\ G(r).name = r.name
    BY PromotedFields
  <2> HIDE DEF G
  <2> QED
    BY <1>1, <2>1, <2>2 DEF Tidy
<1> QED
  BY <1>4, <1>5

\* What publishing keeps of a row, and what it sets.
LEMMA SettledFields ==
  ASSUME TypeOK, NEW j \in Jobs, NEW r \in job[j].work
  PROVE  LET x     == Settled(j, r)
             macro == [file |-> r.file, name |-> r.name]
             calls == {n \in Names : job[j].targets[n] = macro}
             latest == IsLatest(job[j].work, r)
         IN  /\ x.profile = r.profile /\ x.file = r.file /\ x.name = r.name
             /\ x.version = r.version /\ x.text = r.text /\ x.imported = r.imported
             /\ x.isNew = (r.isNew /\ ~(latest /\ macro \in Seen(j)))
             /\ x.isDeleted = (job[j].mark /\ IF latest
                                              THEN macro \notin Seen(j) /\ ~(r.isNew /\ r.imported)
                                              ELSE r.isDeleted)
             /\ x.isActive = (latest /\ ~x.isDeleted /\ calls # {})
             /\ ~x.isActive \/ r.name \in calls => x.runtime = r.name
<1>1. r \in Row
  BY DEF TypeOK, Job
<1> QED
  BY <1>1 DEF Settled, Row

\* The latest version of a macro that the scan saw is neither new nor deleted, and
\* is active under its own name when that name calls its macro.
LEMMA SettledSeen ==
  ASSUME TypeOK, NEW j \in Jobs, NEW r \in job[j].work, IsLatest(job[j].work, r),
         [file |-> r.file, name |-> r.name] \in Seen(j)
  PROVE  LET x == Settled(j, r)
         IN  /\ x.text = r.text /\ ~x.isNew /\ ~x.isDeleted
             /\ (/\ r.name \in Names
                 /\ job[j].targets[r.name] = [file |-> r.file, name |-> r.name])
                => x.isActive /\ x.runtime = r.name
<1>1. r \in Row
  BY DEF TypeOK, Job
<1> QED
  BY <1>1 DEF Settled, Row

LEMMA FinishTidy ==
  ASSUME TypeOK, TidyInv, NEW j \in Jobs, FinishIndex(j)
  PROVE  Tidy(rows')
<1> DEFINE work == job[j].work
           mine == {r \in work : r.profile = job[j].profile}
           others == {r \in work : r.profile # job[j].profile}
           F == [r \in mine |-> Settled(j, r)]
<1>1. rows' = others \cup {F[r] : r \in mine}
  BY DEF FinishIndex
<1>2. Tidy(work)
  BY DEF TidyInv
<1>3. mine \subseteq work /\ others \subseteq work /\ DOMAIN F = mine
  OBVIOUS
<1>4. ASSUME NEW r \in mine PROVE ~F[r].isActive => F[r].runtime = F[r].name
  <2>1. F[r] = Settled(j, r) /\ r \in job[j].work
    OBVIOUS
  <2> HIDE DEF F
  <2>2. Settled(j, r).name = r.name
        /\ (~Settled(j, r).isActive => Settled(j, r).runtime = r.name)
    BY <2>1, SettledFields, Zenon
  <2> QED
    BY <2>1, <2>2
<1> HIDE DEF work, mine, others, F
<1>5. Tidy(mine) /\ Tidy(others)
  BY <1>2, <1>3, SubsetTidy
<1>6. Tidy({F[r] : r \in mine})
  BY <1>3, <1>4, <1>5, RewriteTidy
<1>7. Tidy(others \cup {F[r] : r \in mine})
  BY <1>5, <1>6, UnionTidy
<1> QED
  BY <1>1, <1>7

LEMMA TidyStep == ASSUME TypeOK, UniqueVersions, TidyInv, Next PROVE TidyInv'
<1>1. Tidy({})
  BY FS_EmptySet DEF Tidy
<1>2. ASSUME NEW i \in Jobs PROVE Tidy(job'[i].work)
  <2>1. CASE job'[i].work \in {job[i].work, rows, {}}
    BY <1>1, <2>1 DEF TidyInv
  <2>2. CASE IndexRecord(i)
    <3>1. PICK p, rec, new : Takes(i, p, rec, new)
      BY <2>2, Taking
    <3> DEFINE work == job[i].work
               own == Own(work, p, rec.file, rec.name)
    <3>2. /\ rec \in Record /\ p \in Profiles /\ own \in SUBSET Row
          /\ OneMacro(own, p, rec.file, rec.name) /\ new \in Upserted(own, p, rec)
          /\ job'[i].work = (work \ own) \cup new
      BY <3>1 DEF Takes
    <3>3. own \subseteq work /\ work \ own \subseteq work /\ Tidy(work)
      BY DEF TidyInv, Own
    <3> HIDE DEF own, work
    <3>4. Tidy(own) /\ Tidy(work \ own)
      BY <3>3, SubsetTidy
    <3>5. Tidy(new)
      BY <3>2, <3>4, UpsertedTidy
    <3> QED
      BY <3>2, <3>4, <3>5, UnionTidy
  <2> QED
    BY <2>1, <2>2, ViewSteps
<1>3. Tidy(rows')
  <2>1. CASE rows' \subseteq rows
    BY <2>1, SubsetTidy DEF TidyInv
  <2>2. ASSUME NEW p, NEW f, NEW n, NEW v, NEW t, rows' = rows \cup {NewRow(p, f, n, v, t, TRUE)}
        PROVE  Tidy(rows')
    BY <2>2, NewRowTidy, UnionTidy DEF TidyInv
  <2>3. ASSUME NEW s, rows' = {[o EXCEPT !.isNew = @ /\ o \notin Selected(s)] : o \in rows}
        PROVE  Tidy(rows')
    <3> DEFINE F == [o \in rows |-> [o EXCEPT !.isNew = @ /\ o \notin Selected(s)]]
    <3>1. rows' = {F[o] : o \in rows} /\ DOMAIN F = rows /\ Tidy(rows)
      BY <2>3 DEF TidyInv
    <3>2. \A o \in rows : F[o].isActive = o.isActive /\ F[o].runtime = o.runtime /\ F[o].name = o.name
      BY DEF TypeOK, Row
    <3> HIDE DEF F
    <3>3. \A o \in rows : ~F[o].isActive => F[o].runtime = F[o].name
      BY <3>1, <3>2 DEF Tidy
    <3> QED
      BY <3>1, <3>3, RewriteTidy
  <2>4. ASSUME NEW j \in Jobs, FinishIndex(j) PROVE Tidy(rows')
    BY <2>4, FinishTidy
  <2> QED
    BY <2>1, <2>2, <2>3, <2>4, TableSteps
<1> QED
  BY <1>2, <1>3 DEF TidyInv

LEMMA TidyInvariant == Spec => []TidyInv
<1>1. Init => TidyInv
  <2>1. Tidy({})
    BY FS_EmptySet DEF Tidy
  <2>2. IdleJob.work = {}
    BY DEF IdleJob
  <2>3. ASSUME Init PROVE rows = {} /\ \A j \in Jobs : job[j].work = {}
    BY <2>2, <2>3 DEF Init
  <2> QED
    BY <2>1, <2>3 DEF TidyInv
<1>2. TypeOK /\ UniqueVersions /\ TidyInv /\ [Next]_vars => TidyInv'
  <2>1. ASSUME TidyInv, UNCHANGED vars PROVE TidyInv'
    BY <2>1 DEF vars, TidyInv
  <2> QED
    BY <2>1, TidyStep
<1> QED
  BY <1>1, <1>2, TypeCorrect, VersionsAreUnique, PTL DEF Spec

-----------------------------------------------------------------------------
(***************************************************************************)
(* The invariant of a run that writes, over the records it has taken:      *)
(* a macro with none of them has the versions of the table; the last one   *)
(* of a macro is its latest version; the last definition of a command that *)
(* no later record renames something to is what the command calls; and a   *)
(* macro with one record, of the meaning of its latest version, has as     *)
(* many versions as before and the same highest number.                    *)
(***************************************************************************)

Taken(j) == {i \in DOMAIN job[j].records : i < job[j].pos}

Of(rec, f, n) == rec.file = f /\ rec.name = n

Untouched(j) ==
  \A f \in Files, n \in Names :
    (\A i \in Taken(j) : ~Of(job[j].records[i], f, n))
    => Own(job[j].work, job[j].profile, f, n) = Own(rows, job[j].profile, f, n)

Captured(j) ==
  \A i \in Taken(j) :
    LET rec == job[j].records[i]
        own == Own(job[j].work, job[j].profile, rec.file, rec.name)
    IN  (\A k \in Taken(j) : k > i => ~Of(job[j].records[k], rec.file, rec.name))
        => \E r \in own : Top(own, r) /\ r.text = rec.text

Called(j) ==
  \A i \in Taken(j) :
    LET rec == job[j].records[i]
    IN  (\A k \in Taken(j) : k > i => /\ job[j].records[k].name # rec.name
                                      /\ RenameOf[job[j].records[k].text] # rec.name)
        => job[j].targets[rec.name] = [file |-> rec.file, name |-> rec.name]

Counted(j) ==
  \A i \in Taken(j) :
    LET rec == job[j].records[i]
        old == Own(rows, job[j].profile, rec.file, rec.name)
        own == Own(job[j].work, job[j].profile, rec.file, rec.name)
    IN  \A l \in old :
          (/\ Top(old, l) /\ Meaning[l.text] = Meaning[rec.text]
           /\ \A k \in Taken(j) \ {i} : ~Of(job[j].records[k], rec.file, rec.name))
          => /\ Cardinality(own) = Cardinality(old)
             /\ \E r \in own : Top(own, r) /\ r.version = l.version

ScanInv == \A j \in Jobs : job[j].phase = "indexing" =>
             Untouched(j) /\ Captured(j) /\ Called(j) /\ Counted(j)

\* One more record is taken, and it comes after the others.
LEMMA TakenGrows ==
  ASSUME TypeOK, NEW j \in Jobs, NEW p, NEW rec, NEW new, Takes(j, p, rec, new)
  PROVE  /\ Taken(j)' = Taken(j) \cup {job[j].pos}
         /\ job[j].pos \notin Taken(j)
         /\ \A i \in Taken(j) : i \in Nat /\ job[j].pos > i /\ ~(i > job[j].pos)
         /\ \A i \in Taken(j)' : job[j].records[i] \in Record
<1>1. job[j].records \in Seq(Record) /\ job[j].pos \in Nat
  BY DEF TypeOK, Job
<1>2. DOMAIN job[j].records \subseteq Nat
  BY <1>1
<1>3. /\ job'[j].records = job[j].records /\ job'[j].pos = job[j].pos + 1
      /\ job[j].pos \in DOMAIN job[j].records
  BY DEF Takes
<1> QED
  BY <1>1, <1>2, <1>3 DEF Taken

LEMMA UntouchedStep ==
  ASSUME TypeOK, NEW j \in Jobs, NEW p, NEW rec, NEW new, Takes(j, p, rec, new), Untouched(j)
  PROVE  Untouched(j)'
<1> SUFFICES ASSUME NEW f \in Files, NEW n \in Names,
                    \A i \in Taken(j)' : ~Of(job'[j].records[i], f, n)
             PROVE  Own(job'[j].work, job'[j].profile, f, n) = Own(rows', job'[j].profile, f, n)
  BY DEF Untouched, Of
<1>1. /\ rec = job[j].records[job[j].pos] /\ p = job[j].profile
      /\ job'[j].work = (job[j].work \ Own(job[j].work, p, rec.file, rec.name)) \cup new
      /\ OneMacro(new, p, rec.file, rec.name) /\ job'[j].profile = p
      /\ job'[j].records = job[j].records /\ rows' = rows
  BY DEF Takes
<1>2. ~Of(rec, f, n) /\ \A i \in Taken(j) : ~Of(job[j].records[i], f, n)
  BY <1>1, TakenGrows
<1>3. Own(job'[j].work, p, f, n) = Own(job[j].work, p, f, n)
  BY <1>1, <1>2, ReplacedOwn DEF Of
<1> QED
  BY <1>1, <1>2, <1>3 DEF Untouched

LEMMA CapturedStep ==
  ASSUME TypeOK, NEW j \in Jobs, NEW p, NEW rec, NEW new, Takes(j, p, rec, new), Captured(j)
  PROVE  Captured(j)'
<1> DEFINE own(x) == Own(job'[j].work, p, x.file, x.name)
<1>1. /\ rec = job[j].records[job[j].pos] /\ p = job[j].profile
      /\ job'[j].work = (job[j].work \ Own(job[j].work, p, rec.file, rec.name)) \cup new
      /\ OneMacro(new, p, rec.file, rec.name) /\ job'[j].profile = p
      /\ job'[j].records = job[j].records
      /\ \E r \in new : Top(new, r) /\ r.text = rec.text
  <2>1. PICK before : before = Own(job[j].work, p, rec.file, rec.name)
    OBVIOUS
  <2>2. /\ before \in SUBSET Row /\ p \in Profiles /\ rec \in Record
        /\ OneMacro(before, p, rec.file, rec.name) /\ new \in Upserted(before, p, rec)
    BY <2>1 DEF Takes
  <2>3. \E r \in new : Top(new, r) /\ r.text = rec.text
    BY <2>2, UpsertedCaptures
  <2> QED
    BY <2>3 DEF Takes
<1>2. ASSUME NEW i \in Taken(j)',
             \A k \in Taken(j)' : k > i => ~Of(job[j].records[k], job[j].records[i].file,
                                               job[j].records[i].name)
      PROVE  \E r \in own(job[j].records[i]) :
               Top(own(job[j].records[i]), r) /\ r.text = job[j].records[i].text
  <2>1. CASE i = job[j].pos
    <3>1. own(rec) = new
      BY <1>1, ReplacedOwn
    <3> QED
      BY <1>1, <2>1, <3>1
  <2>2. CASE i \in Taken(j)
    <3> DEFINE x == job[j].records[i]
    <3>1. ~Of(rec, x.file, x.name)
      BY <1>1, <1>2, <2>2, TakenGrows
    <3>2. own(x) = Own(job[j].work, p, x.file, x.name)
      <4>1. PICK f, n, g, k, R : /\ f = rec.file /\ n = rec.name
                                 /\ g = x.file /\ k = x.name /\ R = job[j].work
        OBVIOUS
      <4>2. ~(g = f /\ k = n)
        BY <3>1, <4>1 DEF Of
      <4>3. OneMacro(new, p, f, n)
        BY <1>1, <4>1
      <4>4. Own((R \ Own(R, p, f, n)) \cup new, p, g, k) = Own(R, p, g, k)
        BY <4>2, <4>3, ReplacedOwn
      <4> QED
        BY <1>1, <4>1, <4>4
    <3>3. \A k \in Taken(j) : k > i => ~Of(job[j].records[k], x.file, x.name)
      BY <1>2, TakenGrows
    <3>4. \E r \in Own(job[j].work, p, x.file, x.name) :
            Top(Own(job[j].work, p, x.file, x.name), r) /\ r.text = x.text
      BY <1>1, <2>2, <3>3 DEF Captured
    <3> QED
      BY <3>2, <3>4
  <2> QED
    BY <2>1, <2>2, TakenGrows
<1> HIDE DEF own
<1>3. job'[j].records = job[j].records /\ job'[j].profile = p
  BY <1>1
<1> QED
  BY <1>2, <1>3 DEF Captured, own, Of, Top

LEMMA CalledStep ==
  ASSUME TypeOK, NEW j \in Jobs, NEW p, NEW rec, NEW new, Takes(j, p, rec, new), Called(j)
  PROVE  Called(j)'
<1>1. /\ rec = job[j].records[job[j].pos] /\ rec \in Record
      /\ job'[j].targets = Override(job[j].targets, rec)
      /\ job'[j].records = job[j].records
  BY DEF Takes
<1>2. ASSUME NEW i \in Taken(j)',
             \A k \in Taken(j)' : k > i => /\ job[j].records[k].name # job[j].records[i].name
                                           /\ RenameOf[job[j].records[k].text] # job[j].records[i].name
      PROVE  job'[j].targets[job[j].records[i].name]
               = [file |-> job[j].records[i].file, name |-> job[j].records[i].name]
  <2>1. job[j].records[i].name \in Names
    BY TakenGrows DEF Record
  <2>2. CASE i = job[j].pos
    BY <1>1, <2>1, <2>2 DEF Override
  <2>3. CASE i \in Taken(j)
    <3>1. rec.name # job[j].records[i].name /\ RenameOf[rec.text] # job[j].records[i].name
      BY <1>1, <1>2, <2>3, TakenGrows
    <3>2. job[j].targets[job[j].records[i].name]
            = [file |-> job[j].records[i].file, name |-> job[j].records[i].name]
      BY <1>2, <2>3, TakenGrows DEF Called
    <3> QED
      BY <1>1, <2>1, <3>1, <3>2 DEF Override
  <2> QED
    BY <2>2, <2>3, TakenGrows
<1> QED
  BY <1>1, <1>2 DEF Called

LEMMA CountedStep ==
  ASSUME TypeOK, UniqueVersions, TidyInv, NEW j \in Jobs, NEW p, NEW rec, NEW new,
         Takes(j, p, rec, new), Counted(j), Untouched(j)
  PROVE  Counted(j)'
<1> DEFINE own(x) == Own(job'[j].work, p, x.file, x.name)
           old(x) == Own(rows, p, x.file, x.name)
<1>1. /\ rec = job[j].records[job[j].pos] /\ p = job[j].profile
      /\ rec \in Record /\ p \in Profiles
      /\ OneMacro(Own(job[j].work, p, rec.file, rec.name), p, rec.file, rec.name)
      /\ Own(job[j].work, p, rec.file, rec.name) \in SUBSET Row
      /\ new \in Upserted(Own(job[j].work, p, rec.file, rec.name), p, rec)
      /\ job'[j].work = (job[j].work \ Own(job[j].work, p, rec.file, rec.name)) \cup new
      /\ OneMacro(new, p, rec.file, rec.name) /\ job'[j].profile = p
      /\ job'[j].records = job[j].records /\ rows' = rows
  BY DEF Takes
<1>2. ASSUME NEW i \in Taken(j)', NEW l \in old(job[j].records[i]),
             Top(old(job[j].records[i]), l),
             Meaning[l.text] = Meaning[job[j].records[i].text],
             \A k \in Taken(j)' \ {i} : ~Of(job[j].records[k], job[j].records[i].file,
                                            job[j].records[i].name)
      PROVE  /\ Cardinality(own(job[j].records[i])) = Cardinality(old(job[j].records[i]))
             /\ \E r \in own(job[j].records[i]) :
                  Top(own(job[j].records[i]), r) /\ r.version = l.version
  <2>1. CASE i = job[j].pos
    <3>1. own(rec) = new
      <4>1. PICK f, g, R : f = rec.file /\ g = rec.name /\ R = job[j].work
        OBVIOUS
      <4>2. OneMacro(new, p, f, g)
        BY <1>1, <4>1
      <4>3. Own((R \ Own(R, p, f, g)) \cup new, p, f, g) = new
        BY <4>2, ReplacedOwn
      <4> QED
        BY <1>1, <4>1, <4>3
    <3>2. Own(job[j].work, p, rec.file, rec.name) = old(rec)
      <4>1. \A k \in Taken(j) : ~Of(job[j].records[k], rec.file, rec.name)
        BY <1>1, <1>2, <2>1, TakenGrows
      <4>2. rec.file \in Files /\ rec.name \in Names
        BY <1>1 DEF Record
      <4> QED
        BY <1>1, <4>1, <4>2 DEF Untouched
    <3> DEFINE O == old(rec)
    <3>3. O \in SUBSET Row /\ OneMacro(O, p, rec.file, rec.name) /\ new \in Upserted(O, p, rec)
      BY <1>1, <3>2
    <3>4. l \in O /\ Top(O, l) /\ Meaning[l.text] = Meaning[rec.text]
      BY <1>1, <1>2, <2>1
    <3>5. O \subseteq rows /\ Unique(rows) /\ Tidy(rows)
      BY DEF Own, UniqueVersions, TidyInv
    <3> HIDE DEF O
    <3>6. IsFiniteSet(O)
      BY <3>5, FS_Subset DEF Tidy
    <3>7. \A r, s \in O : r.version = s.version => r = s
      BY <3>3, <3>5 DEF Unique, OneMacro
    <3>8. PICK h \in O, m \in O : Top(O, h) /\ new = Promoted(O, m, h, rec.text)
      <4>1. O # {} /\ ~\A r \in O : Meaning[r.text] # Meaning[rec.text]
        BY <3>4
      <4> DEFINE N(v) == NewRow(p, rec.file, rec.name, v, rec.text, FALSE)
      <4>2. rec \in Record /\ p \in Profiles
        BY <1>1
      <4>3. \/ O = {} /\ new = {N(1)}
            \/ \E h \in O : /\ Top(O, h)
                            /\ \A r \in O : Meaning[r.text] # Meaning[rec.text]
                            /\ new = {r \in O : r.version + MaxVersions > h.version + 1}
                                       \cup {N(h.version + 1)}
            \/ \E h \in O, m \in O : /\ Top(O, h)
                                     /\ Meaning[m.text] = Meaning[rec.text]
                                     /\ new = Promoted(O, m, h, rec.text)
        BY <3>3, <4>2, UpsertedCases, Zenon
      <4> HIDE DEF N
      <4> QED
        BY <4>1, <4>3
    <3>9. h.version = l.version
      BY <3>3, <3>4, <3>8 DEF Top, Row
    <3>10. Cardinality(new) = Cardinality(O)
      BY <3>3, <3>6, <3>7, <3>8, PromotedFinite
    <3>11. \E r \in new : Top(new, r) /\ r.version = l.version
      BY <3>3, <3>8, <3>9, PromotedTop
    <3>12. job[j].records[i] = rec
      BY <1>1, <2>1
    <3> HIDE DEF own, old
    <3> QED
      BY <3>1, <3>10, <3>11, <3>12 DEF O
  <2>2. CASE i \in Taken(j)
    <3> DEFINE x == job[j].records[i]
    <3>1. ~Of(rec, x.file, x.name)
      BY <1>1, <1>2, <2>2, TakenGrows
    <3>2. own(x) = Own(job[j].work, p, x.file, x.name)
      <4>1. PICK f, n, g, k, R : /\ f = rec.file /\ n = rec.name
                                 /\ g = x.file /\ k = x.name /\ R = job[j].work
        OBVIOUS
      <4>2. ~(g = f /\ k = n)
        BY <3>1, <4>1 DEF Of
      <4>3. OneMacro(new, p, f, n)
        BY <1>1, <4>1
      <4>4. Own((R \ Own(R, p, f, n)) \cup new, p, g, k) = Own(R, p, g, k)
        BY <4>2, <4>3, ReplacedOwn
      <4> QED
        BY <1>1, <4>1, <4>4
    <3>3. \A k \in Taken(j) \ {i} : ~Of(job[j].records[k], x.file, x.name)
      BY <1>2, TakenGrows
    <3> HIDE DEF own, x
    <3>4. /\ Cardinality(Own(job[j].work, p, x.file, x.name)) = Cardinality(old(x))
          /\ \E r \in Own(job[j].work, p, x.file, x.name) :
               Top(Own(job[j].work, p, x.file, x.name), r) /\ r.version = l.version
      BY <1>1, <1>2, <2>2, <3>3 DEF Counted, x
    <3> QED
      BY <3>2, <3>4 DEF x
  <2> QED
    BY <2>1, <2>2, TakenGrows
<1>3. job'[j].records = job[j].records /\ job'[j].profile = p /\ rows' = rows
  BY <1>1
<1> HIDE DEF own, old
<1> QED
  BY <1>2, <1>3 DEF Counted, own, old

LEMMA ScanStep ==
  ASSUME TypeOK, UniqueVersions, LockInv, TidyInv, ScanInv, Next
  PROVE  ScanInv'
<1> SUFFICES ASSUME NEW i \in Jobs, job'[i].phase = "indexing"
             PROVE  (Untouched(i) /\ Captured(i) /\ Called(i) /\ Counted(i))'
  BY DEF ScanInv
<1>1. CASE job'[i] = job[i] /\ rows' = rows
  <2>1. Untouched(i) /\ Captured(i) /\ Called(i) /\ Counted(i)
    BY <1>1 DEF ScanInv
  <2>2. Taken(i)' = Taken(i)
    BY <1>1 DEF Taken
  <2>3. Untouched(i)'
    BY <1>1, <2>1, <2>2 DEF Untouched
  <2>4. Captured(i)'
    BY <1>1, <2>1, <2>2 DEF Captured
  <2>5. Called(i)'
    BY <1>1, <2>1, <2>2 DEF Called
  <2>6. Counted(i)'
    BY <1>1, <2>1, <2>2 DEF Counted
  <2> QED
    BY <2>3, <2>4, <2>5, <2>6
<1>2. CASE BeginTransaction(i)
  <2>1. job \in [Jobs -> Job]
    BY DEF TypeOK
  <2>2. /\ job'[i].pos = 1 /\ job'[i].work = rows /\ rows' = rows
        /\ job'[i].records = job[i].records /\ job[i].records \in Seq(Record)
    BY <1>2, <2>1 DEF BeginTransaction, Job
  <2>3. Taken(i)' = {}
    BY <2>2 DEF Taken
  <2> QED
    BY <2>2, <2>3 DEF Untouched, Captured, Called, Counted
<1>3. CASE IndexRecord(i)
  <2>1. PICK p, rec, new : Takes(i, p, rec, new)
    BY <1>3, Taking
  <2>2. Untouched(i) /\ Captured(i) /\ Called(i) /\ Counted(i)
    BY <1>3 DEF ScanInv, IndexRecord
  <2> QED
    BY <2>1, <2>2, UntouchedStep, CapturedStep, CalledStep, CountedStep
<1> QED
  BY <1>1, <1>2, <1>3, SteadyWhileIndexing

LEMMA ScanInvariant == Spec => []ScanInv
<1>1. Init => ScanInv
  BY DEF Init, ScanInv, IdleJob
<1>2. TypeOK /\ UniqueVersions /\ LockInv /\ TidyInv /\ ScanInv /\ [Next]_vars => ScanInv'
  <2>1. ASSUME ScanInv, UNCHANGED vars PROVE ScanInv'
    BY <2>1 DEF vars, ScanInv, Untouched, Captured, Called, Counted, Taken
  <2> QED
    BY <2>1, ScanStep
<1> QED
  BY <1>1, <1>2, TypeCorrect, VersionsAreUnique, LockInvariant, TidyInvariant, PTL DEF Spec

-----------------------------------------------------------------------------
(***************************************************************************)
(* What publishing makes of the versions of one macro of the run's printer.*)
(***************************************************************************)

LEMMA PublishedOwn ==
  ASSUME TypeOK, NEW j \in Jobs, FinishIndex(j), NEW f, NEW n
  PROVE  LET p == job[j].profile
         IN  Own(rows', p, f, n) = {Settled(j, r) : r \in Own(job[j].work, p, f, n)}
<1> DEFINE p == job[j].profile
           work == job[j].work
           S(r) == Settled(j, r)
<1>1. rows' = {r \in work : r.profile # p} \cup {S(r) : r \in {r \in work : r.profile = p}}
  BY DEF FinishIndex
<1>2. \A r \in work : S(r).profile = r.profile /\ S(r).file = r.file /\ S(r).name = r.name
  BY SettledFields
<1> HIDE DEF S, work, p
<1>3. Own(rows', p, f, n) = {S(r) : r \in Own(work, p, f, n)}
  BY <1>1, <1>2 DEF Own
<1> QED
  BY <1>3 DEF S, work, p

\* The top of a macro in the run's view is its top in the table it publishes.
LEMMA PublishedTop ==
  ASSUME TypeOK, NEW j \in Jobs, FinishIndex(j), NEW f, NEW n,
         NEW r, Top(Own(job[j].work, job[j].profile, f, n), r)
  PROVE  /\ Settled(j, r) \in Own(rows', job[j].profile, f, n)
         /\ Top(Own(rows', job[j].profile, f, n), Settled(j, r))
         /\ IsLatest(rows', Settled(j, r))
         /\ IsLatest(job[j].work, r) /\ r \in job[j].work
         /\ r.file = f /\ r.name = n
<1> DEFINE p == job[j].profile
           work == job[j].work
           S(x) == Settled(j, x)
           own == Own(work, p, f, n)
           new == Own(rows', p, f, n)
<1>1. new = {S(x) : x \in own}
  BY PublishedOwn
<1>2. \A x \in own : S(x).version = x.version
  BY SettledFields DEF Own
<1>3. r \in own /\ \A o \in own : o.version <= r.version
  BY DEF Top
<1>4. r \in work /\ r.file = f /\ r.name = n
  BY <1>3 DEF Own
<1>5. IsLatest(work, r)
  BY <1>3, LatestIsTop
<1> HIDE DEF S, own, new
<1>6. S(r) \in new /\ Top(new, S(r))
  BY <1>1, <1>2, <1>3 DEF Top
<1>7. IsLatest(rows', S(r))
  BY <1>6, LatestIsTop DEF new
<1> QED
  BY <1>4, <1>5, <1>6, <1>7 DEF S, new

\* All records are taken when a run publishes.
LEMMA AllTaken ==
  ASSUME TypeOK, NEW j \in Jobs, FinishIndex(j)
  PROVE  Taken(j) = DOMAIN job[j].records
<1>1. job[j].records \in Seq(Record) /\ job[j].pos \in Nat \ {0}
  BY DEF TypeOK, Job
<1>2. job[j].pos \notin DOMAIN job[j].records
  BY DEF FinishIndex
<1>3. job[j].pos > Len(job[j].records)
  BY <1>1, <1>2
<1> QED
  BY <1>1, <1>3 DEF Taken

-----------------------------------------------------------------------------
(***************************************************************************)
(* The theorems.                                                           *)
(***************************************************************************)

\* After a run every macro it saw has the text of its last section as its latest
\* version, neither new nor deleted, for any number of files, sections, versions
\* and overlapping runs.
THEOREM RunsCapture == Spec => IndexCaptures
<1>1. ASSUME TypeOK, ScanInv, NEW j \in Jobs, FinishIndex(j),
             NEW i \in DOMAIN job[j].records,
             \A k \in i + 1 .. Len(job[j].records) :
               \/ job[j].records[k].file # job[j].records[i].file
               \/ job[j].records[k].name # job[j].records[i].name
      PROVE  \E r \in Own(rows', job[j].profile, job[j].records[i].file, job[j].records[i].name) :
               /\ IsLatest(rows', r)
               /\ r.text = job[j].records[i].text /\ ~r.isNew /\ ~r.isDeleted
  <2> DEFINE rec == job[j].records[i]
             own == Own(job[j].work, job[j].profile, rec.file, rec.name)
  <2>1. \A k \in Taken(j) : k > i => ~Of(job[j].records[k], rec.file, rec.name)
    <3>1. job[j].records \in Seq(Record)
      BY <1>1 DEF TypeOK, Job
    <3> QED
      BY <1>1, <3>1 DEF Taken, Of
  <2>2. Captured(j) /\ i \in Taken(j)
    BY <1>1, AllTaken DEF ScanInv, FinishIndex
  <2>3. PICK r \in own : Top(own, r) /\ r.text = rec.text
    BY <2>1, <2>2 DEF Captured
  <2>4. Top(Own(job[j].work, job[j].profile, rec.file, rec.name), r)
    BY <2>3
  <2>5. TypeOK /\ FinishIndex(j)
    BY <1>1
  <2> HIDE DEF rec, own
  <2>6. /\ Settled(j, r) \in Own(rows', job[j].profile, rec.file, rec.name)
        /\ IsLatest(rows', Settled(j, r)) /\ IsLatest(job[j].work, r) /\ r \in job[j].work
        /\ r.file = rec.file /\ r.name = rec.name
    BY <2>4, <2>5, PublishedTop
  <2>7. [file |-> r.file, name |-> r.name] \in Seen(j)
    BY <2>6 DEF Seen, rec
  <2>8. Settled(j, r).text = r.text /\ ~Settled(j, r).isNew /\ ~Settled(j, r).isDeleted
    BY <1>1, <2>6, <2>7, SettledFields
  <2> QED
    BY <2>3, <2>6, <2>8 DEF rec, own
<1> DEFINE Captures(j) ==
             \A i \in DOMAIN job[j].records :
               LET rec == job[j].records[i] IN
               (\A k \in i + 1 .. Len(job[j].records) :
                  job[j].records[k].file # rec.file \/ job[j].records[k].name # rec.name)
               => \E r \in Own(rows', job[j].profile, rec.file, rec.name) :
                    /\ IsLatest(rows', r)
                    /\ r.text = rec.text /\ ~r.isNew /\ ~r.isDeleted
<1>2. TypeOK /\ ScanInv => [\A j \in Jobs : FinishIndex(j) => Captures(j)]_vars
  BY <1>1
<1> QED
  BY <1>2, TypeCorrect, ScanInvariant, PTL DEF IndexCaptures

\* After a run the active row of a name that no later section renames something to
\* is the last section's that defines it, in the order of the scan and through any
\* chain of rename_existing (runtime_target_by_name in index_macros).
THEOREM LastDefinitionsRun == Spec => LastDefinitionRuns
<1>1. ASSUME TypeOK, ScanInv, NEW j \in Jobs, FinishIndex(j),
             NEW i \in DOMAIN job[j].records,
             \A k \in i + 1 .. Len(job[j].records) :
               /\ job[j].records[k].name # job[j].records[i].name
               /\ RenameOf[job[j].records[k].text] # job[j].records[i].name
      PROVE  \E r \in Own(rows', job[j].profile, job[j].records[i].file, job[j].records[i].name) :
               r.isActive /\ r.runtime = job[j].records[i].name /\ r.text = job[j].records[i].text
  <2> DEFINE rec == job[j].records[i]
             own == Own(job[j].work, job[j].profile, rec.file, rec.name)
  <2>1. job[j].records \in Seq(Record) /\ rec \in Record
    BY <1>1 DEF TypeOK, Job
  <2>2. \A k \in Taken(j) : k > i => /\ job[j].records[k].name # rec.name
                                     /\ RenameOf[job[j].records[k].text] # rec.name
    BY SMTT(30), <1>1, <2>1 DEF Taken
  <2>3. \A k \in Taken(j) : k > i => ~Of(job[j].records[k], rec.file, rec.name)
    BY <2>2 DEF Of
  <2>4. Captured(j) /\ Called(j) /\ i \in Taken(j)
    BY <1>1, AllTaken DEF ScanInv, FinishIndex
  <2>5. PICK r \in own : Top(own, r) /\ r.text = rec.text
    BY <2>3, <2>4 DEF Captured
  <2>6. Top(Own(job[j].work, job[j].profile, rec.file, rec.name), r)
    BY <2>5
  <2>7. TypeOK /\ FinishIndex(j)
    BY <1>1
  <2> HIDE DEF rec, own
  <2>8. /\ Settled(j, r) \in Own(rows', job[j].profile, rec.file, rec.name)
        /\ IsLatest(job[j].work, r) /\ r \in job[j].work
        /\ r.file = rec.file /\ r.name = rec.name
    BY SMTT(30), <2>6, <2>7, PublishedTop
  <2>9. [file |-> r.file, name |-> r.name] \in Seen(j)
    BY <2>8 DEF Seen, rec
  <2>10. job[j].targets[rec.name] = [file |-> rec.file, name |-> rec.name]
    BY <2>2, <2>4 DEF Called, rec
  <2>11. rec.name \in Names
    BY <2>1 DEF Record
  <2>12. r.name \in Names /\ job[j].targets[r.name] = [file |-> r.file, name |-> r.name]
    BY <2>8, <2>10, <2>11
  <2>13. Settled(j, r).isActive /\ Settled(j, r).runtime = rec.name /\ Settled(j, r).text = rec.text
    BY <2>5, <2>8, <2>9, <2>12, <2>7, SettledSeen
  <2> QED
    BY <2>8, <2>13 DEF rec
<1> DEFINE Runs(j) ==
             \A i \in DOMAIN job[j].records :
               LET rec == job[j].records[i] IN
               (\A k \in i + 1 .. Len(job[j].records) :
                  job[j].records[k].name # rec.name /\ RenameOf[job[j].records[k].text] # rec.name)
               => \E r \in Own(rows', job[j].profile, rec.file, rec.name) :
                    r.isActive /\ r.runtime = rec.name /\ r.text = rec.text
<1>2. TypeOK /\ ScanInv => [\A j \in Jobs : FinishIndex(j) => Runs(j)]_vars
  BY <1>1
<1> QED
  BY <1>2, TypeCorrect, ScanInvariant, PTL DEF LastDefinitionRuns

\* A run leaves an import that waits for its review exactly as it was when the scan
\* holds no section of that macro, whatever it does to the other macros.
THEOREM UnseenImportsAreKept == Spec => UnseenImportsKept
<1>1. ASSUME TypeOK, TidyInv, PendingInv, ScanInv, NEW j \in Jobs, FinishIndex(j),
             NEW r \in rows, r.isNew, r.profile = job[j].profile,
             [file |-> r.file, name |-> r.name] \notin Seen(j)
      PROVE  r \in rows'
  <2> DEFINE macro == [file |-> r.file, name |-> r.name]
             calls == {n \in Names : job[j].targets[n] = macro}
  <2>1. r \in Row
    BY <1>1 DEF TypeOK
  <2>2. job[j].phase = "indexing" /\ Untouched(j)
    BY <1>1 DEF ScanInv, FinishIndex
  <2>3. \A i \in Taken(j) : ~Of(job[j].records[i], r.file, r.name)
    <3>1. \A i \in Taken(j) : i \in DOMAIN job[j].records
      BY DEF Taken
    <3> QED
      BY <1>1, <3>1 DEF Seen, Of
  <2>4. r \in Own(job[j].work, job[j].profile, r.file, r.name)
    <3>1. r.file \in Files /\ r.name \in Names
      BY <2>1 DEF Row
    <3>2. r \in Own(rows, job[j].profile, r.file, r.name)
      BY <1>1 DEF Own
    <3> QED
      BY <2>2, <2>3, <3>1, <3>2 DEF Untouched
  <2>5. r.imported /\ ~r.isDeleted /\ ~r.isActive /\ r.runtime = r.name
    BY <1>1 DEF PendingInv, Pending, TidyInv, Tidy
  <2>6. calls = {}
    <3>1. macro # NoMacro
      BY <2>1, NamesAssumption DEF Row, NoMacro
    <3> QED
      BY <1>1, <2>2, <3>1 DEF PendingInv, TargetsSeen
  <2>7. Settled(j, r) = r
    <3> HIDE DEF calls
    <3>1. Settled(j, r) = [r EXCEPT !.isDeleted = r.isDeleted, !.isNew = r.isNew,
                                    !.isActive = r.isActive, !.runtime = r.runtime]
      <4>1. job[j].mark \in BOOLEAN
        BY <1>1 DEF TypeOK, Job
      <4>2. calls = {n \in Names : job[j].targets[n] = [file |-> r.file, name |-> r.name]}
        BY DEF calls
      <4> QED
        BY <1>1, <2>1, <2>5, <2>6, <4>1, <4>2 DEF Settled, Row
    <3> QED
      BY <2>1, <3>1 DEF Row
  <2>8. r \in job[j].work
    BY <2>4 DEF Own
  <2> QED
    BY <1>1, <2>7, <2>8 DEF FinishIndex
<1> DEFINE Keeps(j) == \A r \in rows :
                         (/\ r.isNew /\ r.profile = job[j].profile
                          /\ [file |-> r.file, name |-> r.name] \notin Seen(j)) => r \in rows'
<1>2. TypeOK /\ TidyInv /\ PendingInv /\ ScanInv
      => [\A j \in Jobs : FinishIndex(j) => Keeps(j)]_vars
  BY <1>1
<1> QED
  BY <1>2, TypeCorrect, TidyInvariant, PendingInvariant, ScanInvariant, PTL
     DEF UnseenImportsKept

\* A scan that finds a macro once, with the meaning of its latest version, adds no
\* version, drops none and moves no number up, for any number of versions.
THEOREM QuietScansAreQuiet == Spec => QuietScan
<1>1. ASSUME TypeOK, UniqueVersions, TidyInv, ScanInv, NEW j \in Jobs, FinishIndex(j),
             NEW i \in DOMAIN job[j].records, NEW l \in rows,
             l \in Own(rows, job[j].profile, job[j].records[i].file, job[j].records[i].name),
             IsLatest(rows, l), Meaning[l.text] = Meaning[job[j].records[i].text],
             \A k \in DOMAIN job[j].records \ {i} :
               \/ job[j].records[k].file # job[j].records[i].file
               \/ job[j].records[k].name # job[j].records[i].name
      PROVE  LET own == Own(rows', job[j].profile, job[j].records[i].file, job[j].records[i].name)
             IN  /\ Cardinality(own) = Cardinality(Own(rows, job[j].profile,
                                        job[j].records[i].file, job[j].records[i].name))
                 /\ \E r \in own : IsLatest(own, r) /\ r.version = l.version
  <2> DEFINE p == job[j].profile
             f == job[j].records[i].file
             n == job[j].records[i].name
             old == Own(rows, p, f, n)
             mid == Own(job[j].work, p, f, n)
             new == Own(rows', p, f, n)
             F == [r \in mid |-> Settled(j, r)]
  <2>1. Counted(j) /\ i \in Taken(j) /\ Taken(j) = DOMAIN job[j].records
    BY <1>1, AllTaken DEF ScanInv, FinishIndex
  <2>2. Top(old, l)
    BY <1>1, LatestIsTop
  <2>3. \A k \in Taken(j) \ {i} : ~Of(job[j].records[k], f, n)
    BY <1>1, <2>1 DEF Of
  <2>4. Cardinality(mid) = Cardinality(old) /\ \E r \in mid : Top(mid, r) /\ r.version = l.version
    BY <1>1, <2>1, <2>2, <2>3 DEF Counted
  <2>5. mid \subseteq job[j].work
    BY DEF Own
  <2>6. IsFiniteSet(mid) /\ \A r, s \in mid : r.version = s.version => r = s
    <3>1. Tidy(job[j].work) /\ Unique(job[j].work)
      BY <1>1 DEF TidyInv, UniqueVersions
    <3>2. OneMacro(mid, p, f, n)
      BY OwnOneMacro
    <3> HIDE DEF mid
    <3> QED
      BY <2>5, <3>1, <3>2, FS_Subset DEF Tidy, Unique, OneMacro
  <2>7. F \in [mid -> new] /\ new = {F[r] : r \in mid}
    <3>1. new = {Settled(j, r) : r \in mid}
      BY <1>1, PublishedOwn
    <3> HIDE DEF mid, new
    <3> QED
      BY <3>1
  <2>8. \A r \in mid : F[r].version = r.version
    BY <1>1, <2>5, SettledFields
  <2>9. Cardinality(new) = Cardinality(mid)
    <3>1. \A r, s \in mid : F[r] = F[s] => r = s
      BY <2>6, <2>8
    <3> HIDE DEF mid, new, F
    <3> QED
      BY <2>6, <2>7, <3>1, FiniteImage
  <2>10. \E r \in new : IsLatest(new, r) /\ r.version = l.version
    <3>1. PICK r \in mid : Top(mid, r) /\ r.version = l.version
      BY <2>4
    <3>2. F[r] \in new /\ Top(new, F[r]) /\ F[r].version = l.version
      <4> HIDE DEF mid, new, F
      <4> QED
        BY <2>7, <2>8, <3>1 DEF Top
    <3>3. new = Own(new, p, f, n)
      BY DEF Own
    <3> HIDE DEF new, F
    <3> QED
      BY <3>2, <3>3, LatestIsTop
  <2> QED
    BY <2>4, <2>9, <2>10
<1> DEFINE Quiet(j) ==
             \A i \in DOMAIN job[j].records, l \in rows :
               LET rec == job[j].records[i]
                   p   == job[j].profile
               IN  (/\ l \in Own(rows, p, rec.file, rec.name) /\ IsLatest(rows, l)
                    /\ Meaning[l.text] = Meaning[rec.text]
                    /\ \A k \in DOMAIN job[j].records \ {i} :
                         job[j].records[k].file # rec.file \/ job[j].records[k].name # rec.name)
                   => LET own == Own(rows', p, rec.file, rec.name)
                      IN  /\ Cardinality(own) = Cardinality(Own(rows, p, rec.file, rec.name))
                          /\ \E r \in own : IsLatest(own, r) /\ r.version = l.version
<1>2. TypeOK /\ UniqueVersions /\ TidyInv /\ ScanInv
      => [\A j \in Jobs : FinishIndex(j) => Quiet(j)]_vars
  BY <1>1
<1> QED
  BY <1>2, TypeCorrect, VersionsAreUnique, TidyInvariant, ScanInvariant, PTL DEF QuietScan

=============================================================================
