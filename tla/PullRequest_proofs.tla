------------------------- MODULE PullRequest_proofs -------------------------
(***************************************************************************)
(* Theorems about PullRequest: its state keeps its types, requests for one *)
(* branch never mix, reports are true, and branches are whole.             *)
(***************************************************************************)
EXTENDS PullRequest, FiniteSetTheorems, WellFoundedInduction, TLAPS

(***************************************************************************)
(* The greatest of some places in a list.                                  *)
(***************************************************************************)
LEMMA NatHasMin ==
  ASSUME NEW S \in SUBSET Nat, S # {}
  PROVE  \E i \in S : \A j \in S : i <= j
<1> DEFINE R == OpToRel(<, Nat)
<1>1. IsWellFoundedOn(R, Nat)
  BY NatLessThanWellFounded
<1>2. \E i \in S : \A j \in S : ~(<<j, i>> \in R)
  <2> HIDE DEF R
  <2> QED BY <1>1, WFMin
<1>3. \A i, j \in Nat : ~(<<j, i>> \in R) => i <= j
  BY DEF OpToRel
<1> QED BY <1>2, <1>3

LEMMA HasMax ==
  ASSUME NEW n \in Nat, NEW S \in SUBSET (1 .. n), S # {}
  PROVE  \E i \in S : \A j \in S : j <= i
<1> DEFINE T == {n - i : i \in S}
<1>1. \A i \in S : i \in Nat /\ n - i \in Nat
  OBVIOUS
<1>2. T \in SUBSET Nat /\ T # {}
  BY <1>1
<1>3. PICK m \in T : \A k \in T : m <= k
  BY <1>2, NatHasMin
<1>4. PICK i \in S : m = n - i
  BY <1>3
<1>5. \A j \in S : n - i <= n - j
  BY <1>3, <1>4
<1>6. \A j \in S : j <= i
  <2> SUFFICES ASSUME NEW j \in S PROVE j <= i
    OBVIOUS
  <2> HIDE DEF T
  <2>1. n - i <= n - j
    BY <1>5
  <2>2. i \in Nat /\ j \in Nat
    BY <1>1
  <2> QED BY <2>1, <2>2
<1> QED BY <1>6

(***************************************************************************)
(* What is published.                                                      *)
(***************************************************************************)
LEMMA RowType ==
  ASSUME NEW L \in Seq(Macro), NEW i \in DOMAIN L
  PROVE  L[i].text \in Texts
<1>1. L[i] \in Macro
  OBVIOUS
<1> QED BY <1>1 DEF Macro

LEMMA LastType ==
  ASSUME NEW L \in Seq(Macro), NEW I \in SUBSET DOMAIN L, NEW n \in Names
  PROVE  Last(L, I, n) \in Text
<1> DEFINE at == {i \in I : L[i].name = n}
<1>1. CASE at = {}
  BY <1>1 DEF Last, Text
<1>2. CASE at # {}
  <2>1. at \in SUBSET (1 .. Len(L)) /\ Len(L) \in Nat
    OBVIOUS
  <2>2. \E i \in at : \A j \in at : j <= i
    <3> HIDE DEF at
    <3> QED BY <1>2, <2>1, HasMax
  <2>3. (CHOOSE i \in at : \A j \in at : j <= i) \in DOMAIN L
    <3>1. (CHOOSE i \in at : \A j \in at : j <= i) \in at
      <4> HIDE DEF at
      <4> QED BY <2>2
    <3> QED BY <2>1, <3>1
  <2>4. \A i \in DOMAIN L : L[i].text \in Texts
    BY RowType
  <2>5. Last(L, I, n) = L[CHOOSE i \in at : \A j \in at : j <= i].text
    BY <1>2 DEF Last
  <2> HIDE DEF at
  <2> QED BY <2>3, <2>4, <2>5 DEF Text
<1> QED BY <1>1, <1>2

\* A macro whose name is at one place only is found there.
LEMMA LastUnique ==
  ASSUME NEW L \in Seq(Macro), NEW I \in SUBSET DOMAIN L, NEW i \in I,
         \A j \in I : L[j].name = L[i].name => j = i
  PROVE  Last(L, I, L[i].name) = L[i].text
<1> DEFINE at == {j \in I : L[j].name = L[i].name}
<1>1. at = {i} /\ i \in Nat
  OBVIOUS
<1>2. (CHOOSE k \in at : \A j \in at : j <= k) = i
  BY <1>1
<1> QED BY <1>1, <1>2 DEF Last

LEMMA LastFound ==
  ASSUME NEW L, NEW I, NEW n, Last(L, I, n) # None
  PROVE  \E i \in I : L[i].name = n
BY DEF Last

LEMMA LastNone ==
  ASSUME NEW L, NEW I, NEW n, \A i \in I : L[i].name # n
  PROVE  Last(L, I, n) = None
BY DEF Last

LEMMA PlanType ==
  ASSUME NEW r \in Requests, NEW L \in Seq(Macro), NEW I \in SUBSET DOMAIN L,
         NEW m \in Manifest
  PROVE  PlanOf(r, L, I, m) \in Plan
<1> DEFINE C == Changed(L, I, m)
           entries == [n \in Names |-> Last(L, I, n)]
           dropped == {n \in Names : m.macros[n] # None /\ entries[n] = None}
           stamp == IF C = {} /\ dropped = {} THEN m.stamp ELSE r
           writes == [n \in Names |-> Last(L, C, n)]
           deletes == IF virtual THEN {} ELSE dropped
           twice == \E i, j \in I : i # j /\ L[i].name = L[j].name
<1>1. C \in SUBSET DOMAIN L
  BY DEF Changed
<1>2. entries \in [Names -> Text] /\ writes \in [Names -> Text]
  BY <1>1, LastType
<1>3. stamp \in Requests \cup {None} /\ m.macros \in [Names -> Text]
  BY DEF Manifest
<1>4. deletes \in SUBSET Names
  OBVIOUS
<1>5. twice \in BOOLEAN
  OBVIOUS
<1>6. PlanOf(r, L, I, m) = [manifest |-> [macros |-> entries, stamp |-> stamp],
                            writes |-> writes, deletes |-> deletes, twice |-> twice]
  BY DEF PlanOf
<1>7. [macros |-> entries, stamp |-> stamp] \in Manifest
  <2> HIDE DEF entries, stamp
  <2> QED BY <1>2, <1>3 DEF Manifest
<1> HIDE DEF C, entries, dropped, stamp, writes, deletes, twice
<1> QED BY <1>2, <1>4, <1>5, <1>6, <1>7 DEF Plan

\* The plan p says of every macro where the text in its manifest comes from: it
\* is written, or it is the one the tree t has already.
Fits(p, t) ==
  \A n \in Names : p.manifest.macros[n] # None =>
    \/ p.writes[n] = p.manifest.macros[n]
    \/ /\ p.writes[n] = None /\ n \notin p.deletes
       /\ t.manifest # NoManifest
       /\ t.manifest.macros[n] = p.manifest.macros[n]

Read(t) == IF t.manifest = NoManifest THEN EmptyManifest ELSE t.manifest

LEMMA PlanFits ==
  ASSUME NEW r \in Requests, NEW L \in Seq(Macro), NEW I \in SUBSET DOMAIN L,
         NEW t \in Tree, ~PlanOf(r, L, I, Read(t)).twice
  PROVE  Fits(PlanOf(r, L, I, Read(t)), t)
<1> DEFINE m == Read(t)
           p == PlanOf(r, L, I, m)
<1>1. \A i, j \in I : L[i].name = L[j].name => i = j
  BY DEF PlanOf
<1>2. \A n \in Names : /\ p.manifest.macros[n] = Last(L, I, n)
                       /\ p.writes[n] = Last(L, Changed(L, I, m), n)
                       /\ n \in p.deletes => Last(L, I, n) = None
  BY DEF PlanOf
<1>3. SUFFICES ASSUME NEW n \in Names, Last(L, I, n) # None
               PROVE  \/ Last(L, Changed(L, I, m), n) = Last(L, I, n)
                      \/ /\ Last(L, Changed(L, I, m), n) = None
                         /\ t.manifest # NoManifest
                         /\ t.manifest.macros[n] = Last(L, I, n)
  <2>1. ASSUME NEW n \in Names, p.manifest.macros[n] # None
        PROVE  \/ p.writes[n] = p.manifest.macros[n]
               \/ /\ p.writes[n] = None /\ n \notin p.deletes
                  /\ t.manifest # NoManifest
                  /\ t.manifest.macros[n] = p.manifest.macros[n]
    <3> HIDE DEF p, m
    <3>1. Last(L, I, n) # None
      BY <1>2, <2>1
    <3> QED BY <1>2, <1>3, <3>1
  <2>2. Fits(p, t)
    <3> HIDE DEF p
    <3> QED BY <2>1 DEF Fits
  <2> QED BY <2>2
<1>4. PICK i \in I : L[i].name = n
  BY <1>3, LastFound
<1>5. Last(L, I, n) = L[i].text /\ L[i].text \in Texts
  <2>1. i \in DOMAIN L /\ \A j \in I : L[j].name = L[i].name => j = i
    BY <1>1, <1>4
  <2> QED BY <1>4, <2>1, LastUnique, RowType
<1>6. Changed(L, I, m) \in SUBSET DOMAIN L
  BY DEF Changed
<1>7. CASE m.macros[n] # L[i].text
  <2>1. i \in Changed(L, I, m) /\ \A j \in Changed(L, I, m) : L[j].name = L[i].name => j = i
    BY <1>1, <1>4, <1>7 DEF Changed
  <2>2. Last(L, Changed(L, I, m), n) = L[i].text
    <3> HIDE DEF m
    <3> QED BY <1>4, <1>6, <2>1, LastUnique
  <2> QED BY <1>5, <2>2
<1>8. CASE m.macros[n] = L[i].text
  <2>1. \A j \in Changed(L, I, m) : L[j].name # n
    BY <1>1, <1>4, <1>8 DEF Changed
  <2>2. Last(L, Changed(L, I, m), n) = None
    <3> HIDE DEF m
    <3> QED BY <2>1, LastNone
  <2>3. t.manifest # NoManifest /\ t.manifest.macros[n] = L[i].text
    BY <1>5, <1>8, NoneAssumption DEF Read, EmptyManifest
  <2> QED BY <1>5, <2>2, <2>3
<1> QED BY <1>7, <1>8

\* Carried out on a consistent tree it fits, such a plan gives a consistent tree.
LEMMA AppliedConsistent ==
  ASSUME NEW p \in Plan, NEW t \in Tree, Fits(p, t), Consistent(t)
  PROVE  Consistent(Applied(t, p))
<1>1. SUFFICES ASSUME NEW n \in Names, p.manifest.macros[n] # None
               PROVE  Applied(t, p).files[n] = p.manifest.macros[n]
  BY DEF Consistent, Applied
<1>2. Applied(t, p).files[n] = IF p.writes[n] # None THEN p.writes[n]
                               ELSE IF n \in p.deletes THEN None ELSE t.files[n]
  BY DEF Applied
<1>3. CASE p.writes[n] = p.manifest.macros[n]
  BY <1>1, <1>2, <1>3
<1>4. CASE p.writes[n] # p.manifest.macros[n]
  <2>1. /\ p.writes[n] = None /\ n \notin p.deletes
        /\ t.manifest # NoManifest
        /\ t.manifest.macros[n] = p.manifest.macros[n]
    BY <1>1, <1>4 DEF Fits
  <2>2. t.files[n] = p.manifest.macros[n]
    BY <1>1, <2>1 DEF Consistent
  <2> QED BY <1>2, <2>1, <2>2
<1> QED BY <1>3, <1>4

LEMMA AppliedType ==
  ASSUME NEW p \in Plan, NEW t \in Tree
  PROVE  Applied(t, p) \in Tree /\ Applied(t, p).manifest = p.manifest
<1> DEFINE files == [n \in Names |-> IF p.writes[n] # None THEN p.writes[n]
                                     ELSE IF n \in p.deletes THEN None ELSE t.files[n]]
<1>1. files \in [Names -> Text]
  BY DEF Plan, Tree, Text
<1>2. Applied(t, p) = [manifest |-> p.manifest, files |-> files]
  BY DEF Applied
<1>3. p.manifest \in Manifest
  BY DEF Plan
<1> HIDE DEF files
<1> QED BY <1>1, <1>2, <1>3 DEF Tree

-----------------------------------------------------------------------------
(***************************************************************************)
(* How a step of a request changes req.                                    *)
(***************************************************************************)
\* All that a request has read and made is as before.
Kept(r) == /\ req'[r].head = req[r].head
           /\ req'[r].seen = req[r].seen
           /\ req'[r].plan = req[r].plan
           /\ req'[r].from = req[r].from
           /\ req'[r].commit = req[r].commit

\* Only request r is changed.
Only(r) == /\ req' \in [Requests -> Req]
           /\ \A x \in Requests \ {r} : req'[x] = req[x]

LEMMA StepFact ==
  ASSUME req \in [Requests -> Req], NEW r \in Requests, NEW q \in Req, Step(r, q)
  PROVE  /\ Only(r)
         /\ req'[r] = [q EXCEPT !.tries = 1]
<1>1. [q EXCEPT !.tries = 1] \in Req
  BY BoundsAssumption DEF Req
<1>2. req' = [req EXCEPT ![r] = [q EXCEPT !.tries = 1]]
  BY DEF Step
<1> DEFINE new == [q EXCEPT !.tries = 1]
<1> HIDE DEF new
<1>3. new \in Req /\ req' = [req EXCEPT ![r] = new]
  BY <1>1, <1>2 DEF new
<1>4. Only(r) /\ req'[r] = new
  BY <1>3 DEF Only
<1> QED BY <1>4 DEF new

LEMMA GotoFact ==
  ASSUME req \in [Requests -> Req], NEW r \in Requests, NEW phase \in Phases, Goto(r, phase)
  PROVE  Only(r) /\ Kept(r) /\ req'[r].phase = phase
<1> DEFINE q == [req[r] EXCEPT !.phase = phase]
<1>1. q \in Req
  BY DEF Req
<1>2. Step(r, q)
  BY DEF Goto
<1>3. Only(r) /\ req'[r] = [q EXCEPT !.tries = 1]
  <2> HIDE DEF q
  <2> QED BY <1>1, <1>2, StepFact
<1>4. req[r] \in Req
  OBVIOUS
<1> QED BY <1>3, <1>4 DEF Kept, Req

LEMMA AgainFact ==
  ASSUME req \in [Requests -> Req], NEW r \in Requests, Again(r)
  PROVE  /\ Only(r) /\ Kept(r) /\ req'[r].phase \in {req[r].phase, "failed"}
         /\ req[r].phase # "failed" => req'[r] # req[r]
<1>1. CASE req[r].tries < Attempts
  <2> DEFINE q == [req[r] EXCEPT !.tries = @ + 1]
  <2>1. req[r] \in Req
    OBVIOUS
  <2>2. q \in Req /\ q.tries = req[r].tries + 1 /\ req[r].tries \in Nat
    BY <1>1, <2>1, BoundsAssumption DEF Req
  <2>3. req' = [req EXCEPT ![r] = q]
    BY <1>1 DEF Again
  <2>4. Only(r) /\ req'[r] = q
    <3> HIDE DEF q
    <3> QED BY <2>2, <2>3 DEF Only
  <2>5. req'[r] # req[r]
    <3> HIDE DEF q
    <3> QED BY <2>2, <2>4
  <2>6. Kept(r) /\ req'[r].phase = req[r].phase
    BY <2>1, <2>4 DEF Kept, Req
  <2> QED BY <2>4, <2>5, <2>6
<1>2. CASE ~(req[r].tries < Attempts)
  <2>1. Goto(r, "failed")
    BY <1>2 DEF Again
  <2>2. Only(r) /\ Kept(r) /\ req'[r].phase = "failed"
    BY <2>1, GotoFact DEF Phases, Ended
  <2> QED BY <2>2
<1> QED BY <1>1, <1>2

-----------------------------------------------------------------------------
(***************************************************************************)
(* Types.                                                                  *)
(***************************************************************************)
LEMMA ShaType == 0 \in Shas /\ Shas \subseteq Nat
<1>1. Cardinality(Requests) \in Nat
  BY HeadsAssumption, FS_CardinalityType
<1> QED BY <1>1, BoundsAssumption DEF Shas

LEMMA NothingType == Nothing \in Commit /\ EmptyManifest \in Manifest
<1>1. EmptyManifest \in Manifest
  BY DEF EmptyManifest, Manifest, Text
<1>2. [n \in Names |-> None] \in [Names -> Text]
  BY DEF Text
<1>3. [manifest |-> NoManifest, files |-> [n \in Names |-> None]] \in Tree
  BY <1>2 DEF Tree
<1> QED BY <1>1, <1>3, ShaType DEF Nothing, Commit

LEMMA NewType == New \in Req
<1> DEFINE plan == [manifest |-> EmptyManifest, writes |-> [n \in Names |-> None],
                    deletes |-> {}, twice |-> FALSE]
           head == CHOOSE b \in Heads : TRUE
<1>1. plan \in Plan
  BY NothingType DEF Plan, Text
<1>2. head \in Heads
  BY HeadsAssumption
<1>3. New = [phase |-> "new", head |-> head, seen |-> Nothing, plan |-> plan,
             from |-> Nothing, commit |-> Nothing, tries |-> 1]
  BY DEF New
<1>4. 1 \in 1 .. Attempts /\ "new" \in Phases
  BY BoundsAssumption DEF Phases
<1> HIDE DEF plan, head
<1> QED BY <1>1, <1>2, <1>3, <1>4, NothingType DEF Req

LEMMA InitType == Init => TypeOK
<1> SUFFICES ASSUME Init PROVE TypeOK
  OBVIOUS
<1>1. base \in Commit
  BY ShaType, DataAssumption DEF Init, Commit
<1>2. req \in [Requests -> Req]
  BY NewType DEF Init
<1>3. heads \in [Heads -> Branch \cup {NoBranch}] /\ pulls \in [Pulls -> Pull \cup {NoPull}]
  BY DEF Init
<1>4. nextSha \in Nat /\ moves \in 0 .. MoveBound
  BY BoundsAssumption DEF Init
<1> QED BY <1>1, <1>2, <1>3, <1>4 DEF Init, TypeOK

\* The branch that request r makes.
LEMMA NewBranchType ==
  ASSUME NEW r \in Requests, NEW c \in Commit
  PROVE  [at |-> c, origin |-> c, by |-> r, merged |-> FALSE] \in Branch
BY DEF Branch

LEMMA HeadType ==
  ASSUME TypeOK, NEW b \in Heads, Exists(b)
  PROVE  heads[b] \in Branch /\ heads[b].at.tree \in Tree /\ heads[b].origin.tree \in Tree
         /\ heads[b].at \in Commit /\ heads[b].origin \in Commit /\ heads[b].by \in Requests
<1>1. heads[b] \in Branch
  BY DEF TypeOK, Exists
<1>2. heads[b].at \in Commit /\ heads[b].origin \in Commit /\ heads[b].by \in Requests
  BY <1>1 DEF Branch
<1> QED BY <1>1, <1>2 DEF Commit

LEMMA ReqType ==
  ASSUME TypeOK, NEW r \in Requests
  PROVE  /\ req[r] \in Req
         /\ req[r].head \in Heads /\ req[r].plan \in Plan
         /\ req[r].seen \in Commit /\ req[r].from \in Commit /\ req[r].commit \in Commit
         /\ req[r].seen.tree \in Tree /\ req[r].from.tree \in Tree
<1>1. req[r] \in Req
  BY DEF TypeOK
<1>2. /\ req[r].head \in Heads /\ req[r].plan \in Plan
      /\ req[r].seen \in Commit /\ req[r].from \in Commit /\ req[r].commit \in Commit
  BY <1>1 DEF Req
<1> QED BY <1>1, <1>2 DEF Commit

LEMMA LocalType == ASSUME TypeOK PROVE local \in Seq(Macro) /\ Exported \in SUBSET DOMAIN local
BY DataAssumption DEF TypeOK, Exported

LEMMA ReadType == ASSUME NEW t \in Tree PROVE Read(t) \in Manifest
BY NothingType DEF Read, Tree

\* The plan is made of the manifest in the tree that was read.
LEMMA BuildFact ==
  ASSUME TypeOK, NEW r \in Requests, Build(r)
  PROVE  LET p == PlanOf(r, local, Exported, Read(req[r].seen.tree))
         IN  /\ p \in Plan
             /\ Only(r)
             /\ req'[r] = [req[r] EXCEPT !.phase = "base", !.plan = p, !.tries = 1]
<1> DEFINE p == PlanOf(r, local, Exported, Read(req[r].seen.tree))
           q == [req[r] EXCEPT !.phase = "base", !.plan = p]
<1>1. p \in Plan
  <2>1. Read(req[r].seen.tree) \in Manifest
    BY ReqType, ReadType
  <2> QED BY <2>1, LocalType, PlanType
<1>2. Step(r, q)
  BY DEF Build, Read
<1>3. q \in Req
  <2> HIDE DEF p
  <2>1. req[r] \in Req /\ "base" \in Phases
    BY DEF TypeOK, Phases
  <2> QED BY <1>1, <2>1 DEF Req
<1>4. Only(r) /\ req'[r] = [q EXCEPT !.tries = 1]
  <2> HIDE DEF q
  <2> QED BY <1>2, <1>3, StepFact DEF TypeOK
<1>5. [q EXCEPT !.tries = 1] = [req[r] EXCEPT !.phase = "base", !.plan = p, !.tries = 1]
  <2> HIDE DEF p
  <2> QED BY DEF Req
<1> HIDE DEF p, q
<1>6. p \in Plan /\ Only(r) /\ req'[r] = [req[r] EXCEPT !.phase = "base", !.plan = p, !.tries = 1]
  BY <1>1, <1>4, <1>5
<1> QED BY <1>6 DEF p

LEMMA StartFact ==
  ASSUME TypeOK, NEW r \in Requests, NEW b \in Heads, Start(r, b)
  PROVE  Only(r) /\ req'[r].phase = "query"
<1> DEFINE q == [New EXCEPT !.phase = "query", !.head = b]
<1>1. q \in Req /\ q.phase = "query"
  BY NewType DEF Req, Phases
<1>2. Only(r) /\ req'[r] = [q EXCEPT !.tries = 1]
  <2>1. Step(r, q)
    BY DEF Start
  <2> HIDE DEF q
  <2> QED BY <1>1, <2>1, StepFact DEF TypeOK
<1> HIDE DEF q
<1> QED BY <1>1, <1>2 DEF Req

LEMMA ReadManifestFact ==
  ASSUME TypeOK, NEW r \in Requests, ReadManifest(r)
  PROVE  Only(r) /\ req'[r].phase = "build"
<1> DEFINE q == [req[r] EXCEPT !.phase = "build", !.seen = base]
<1>1. q \in Req /\ q.phase = "build"
  <2>1. req[r] \in Req /\ base \in Commit /\ "build" \in Phases
    BY DEF TypeOK, Phases
  <2> QED BY <2>1 DEF Req
<1>2. Only(r) /\ req'[r] = [q EXCEPT !.tries = 1]
  <2>1. Step(r, q)
    BY DEF ReadManifest
  <2> HIDE DEF q
  <2> QED BY <1>1, <2>1, StepFact DEF TypeOK
<1> HIDE DEF q
<1> QED BY <1>1, <1>2 DEF Req

LEMMA ReadBaseFact ==
  ASSUME TypeOK, NEW r \in Requests, ReadBase(r)
  PROVE  /\ Only(r) /\ req'[r].phase = "create"
         /\ req'[r].seen = req[r].seen /\ req'[r].plan = req[r].plan
<1> DEFINE q == [req[r] EXCEPT !.phase = "create", !.from = base]
<1>1. q \in Req /\ q.phase = "create" /\ q.seen = req[r].seen /\ q.plan = req[r].plan
  <2>1. req[r] \in Req /\ base \in Commit /\ "create" \in Phases
    BY DEF TypeOK, Phases
  <2> QED BY <2>1 DEF Req
<1>2. Only(r) /\ req'[r] = [q EXCEPT !.tries = 1]
  <2>1. Step(r, q)
    BY DEF ReadBase
  <2> HIDE DEF q
  <2> QED BY <1>1, <2>1, StepFact DEF TypeOK
<1> HIDE DEF q
<1> QED BY <1>1, <1>2 DEF Req

\* Either nothing is left to do, or the commit to be published is the head of
\* the branch with the plan carried out.
LEMMA ReadHeadFact ==
  ASSUME TypeOK, NEW r \in Requests, ReadHead(r)
  PROVE  /\ Only(r)
         /\ \/ req'[r].phase = "no changes" /\ Kept(r)
            \/ /\ req'[r].phase = "update"
               /\ req'[r].head = req[r].head
               /\ req'[r].seen = req[r].seen /\ req'[r].plan = req[r].plan
               /\ req'[r].from = heads[req[r].head].at
               /\ req'[r].commit.tree = Applied(heads[req[r].head].at.tree, req[r].plan)
         /\ nextSha' \in Nat
<1> DEFINE tree == Applied(heads[req[r].head].at.tree, req[r].plan)
           at == heads[req[r].head].at
<1>1. nextSha' \in Nat
  <2>1. nextSha \in Nat
    BY DEF TypeOK
  <2>2. nextSha' = nextSha \/ nextSha' = nextSha + 1
    BY DEF ReadHead
  <2> QED BY <2>1, <2>2
<1>2. CASE Goto(r, "no changes")
  <2>1. Only(r) /\ Kept(r) /\ req'[r].phase = "no changes"
    BY <1>2, GotoFact DEF TypeOK, Phases, Ended
  <2> QED BY <1>1, <2>1
<1>3. CASE Step(r, [req[r] EXCEPT !.phase = "update", !.from = at,
                                  !.commit = [sha |-> nextSha, tree |-> tree]])
  <2> DEFINE commit == [sha |-> nextSha, tree |-> tree]
             q == [req[r] EXCEPT !.phase = "update", !.from = at, !.commit = commit]
  <2>1. at \in Commit /\ tree \in Tree
    BY ReqType, HeadType, AppliedType DEF ReadHead
  <2>2. commit \in Commit /\ commit.tree = tree
    <3> HIDE DEF tree
    <3> QED BY <2>1 DEF ReadHead, Commit
  <2>3. /\ q \in Req /\ q.phase = "update" /\ q.head = req[r].head
        /\ q.seen = req[r].seen /\ q.plan = req[r].plan
        /\ q.from = at /\ q.commit = commit
    <3>1. req[r] \in Req /\ "update" \in Phases
      BY DEF TypeOK, Phases
    <3> HIDE DEF at, commit
    <3> QED BY <2>1, <2>2, <3>1 DEF Req
  <2>4. Only(r) /\ req'[r] = [q EXCEPT !.tries = 1]
    <3>1. Step(r, q)
      BY <1>3
    <3> HIDE DEF q
    <3> QED BY <2>3, <3>1, StepFact DEF TypeOK
  <2>5. /\ req'[r].phase = "update" /\ req'[r].head = req[r].head
        /\ req'[r].seen = req[r].seen /\ req'[r].plan = req[r].plan
        /\ req'[r].from = at /\ req'[r].commit = commit
    <3> HIDE DEF q, at, commit
    <3> QED BY <2>3, <2>4 DEF Req
  <2>6. req'[r].commit.tree = tree
    <3> HIDE DEF tree, at
    <3> QED BY <2>2, <2>5
  <2> QED BY <1>1, <2>4, <2>5, <2>6
<1> QED BY <1>2, <1>3 DEF ReadHead

\* The other steps of a request.
LEMMA KeepFact ==
  ASSUME TypeOK, NEW r \in Requests
  PROVE  /\ QueryOpen(r) => Only(r) /\ Kept(r) /\ req'[r].phase \in {"existing", "manifest"}
         /\ CreateBranch(r) => /\ Only(r) /\ Kept(r)
                               /\ req'[r].phase \in {"read", "create", "failed"}
         /\ UpdateRef(r) => /\ Only(r) /\ Kept(r)
                            /\ req'[r].phase \in {"open", "update", "failed"}
         /\ OpenPull(r) => /\ Only(r) /\ Kept(r)
                           /\ req'[r].phase \in {"created", "open", "find", "failed"}
         /\ FindOpen(r) => Only(r) /\ Kept(r) /\ req'[r].phase \in {"created", "failed"}
         /\ Lose(r) => Only(r) /\ Kept(r) /\ req'[r].phase \in {req[r].phase, "failed"}
         /\ Fail(r) => Only(r) /\ Kept(r) /\ req'[r].phase = "failed"
<1>1. req \in [Requests -> Req]
  BY DEF TypeOK
<1>2. ASSUME NEW phase \in Phases, Goto(r, phase)
      PROVE  Only(r) /\ Kept(r) /\ req'[r].phase = phase
  BY <1>1, <1>2, GotoFact
<1>3. {"existing", "manifest", "read", "failed", "open", "find", "created"} \subseteq Phases
  BY DEF Phases, Ended
<1>4. ASSUME QueryOpen(r)
      PROVE  Only(r) /\ Kept(r) /\ req'[r].phase \in {"existing", "manifest"}
  BY <1>2, <1>3, <1>4 DEF QueryOpen
<1>5. ASSUME CreateBranch(r)
      PROVE  Only(r) /\ Kept(r) /\ req'[r].phase \in {"read", "create", "failed"}
  <2>1. Goto(r, "failed") \/ Goto(r, "read") \/ Again(r)
    BY <1>5 DEF CreateBranch
  <2>2. req[r].phase = "create"
    BY <1>5 DEF CreateBranch
  <2> QED BY <1>1, <1>2, <1>3, <2>1, <2>2, AgainFact
<1>6. ASSUME UpdateRef(r)
      PROVE  Only(r) /\ Kept(r) /\ req'[r].phase \in {"open", "update", "failed"}
  <2>1. Goto(r, "open") \/ Again(r)
    BY <1>6 DEF UpdateRef
  <2>2. req[r].phase = "update"
    BY <1>6 DEF UpdateRef
  <2> QED BY <1>1, <1>2, <1>3, <2>1, <2>2, AgainFact
<1>7. ASSUME OpenPull(r)
      PROVE  Only(r) /\ Kept(r) /\ req'[r].phase \in {"created", "open", "find", "failed"}
  <2>1. Goto(r, "created") \/ Goto(r, "find") \/ Goto(r, "failed") \/ Again(r)
    BY <1>7 DEF OpenPull
  <2>2. req[r].phase = "open"
    BY <1>7 DEF OpenPull
  <2> QED BY <1>1, <1>2, <1>3, <2>1, <2>2, AgainFact
<1>8. ASSUME FindOpen(r)
      PROVE  Only(r) /\ Kept(r) /\ req'[r].phase \in {"created", "failed"}
  BY <1>2, <1>3, <1>8 DEF FindOpen
<1>9. ASSUME Lose(r)
      PROVE  Only(r) /\ Kept(r) /\ req'[r].phase \in {req[r].phase, "failed"}
  <2>1. Again(r)
    BY <1>9 DEF Lose
  <2> QED BY <1>1, <2>1, AgainFact
<1>10. ASSUME Fail(r)
      PROVE  Only(r) /\ Kept(r) /\ req'[r].phase = "failed"
  BY <1>2, <1>3, <1>10 DEF Fail
<1> QED BY <1>4, <1>5, <1>6, <1>7, <1>8, <1>9, <1>10

-----------------------------------------------------------------------------
(***************************************************************************)
(* How a step changes heads.                                               *)
(***************************************************************************)
BranchesType == heads' \in [Heads -> Branch \cup {NoBranch}]

\* Branches other than b are as before.
OnlyBranch(b) == \A c \in Heads \ {b} : heads'[c] = heads[c]

\* The first try makes the branch; a later one does not get here.
LEMMA CreateFact ==
  ASSUME TypeOK, NEW r \in Requests, CreateBranch(r)
  PROVE  /\ BranchesType
         /\ \/ heads' = heads /\ req'[r].phase = "failed"
            \/ /\ ~Exists(req[r].head)
               /\ OnlyBranch(req[r].head)
               /\ heads'[req[r].head] # NoBranch
               /\ heads'[req[r].head].at = req[r].from
               /\ heads'[req[r].head].origin = req[r].from
               /\ heads'[req[r].head].by = r
<1> DEFINE b == req[r].head
           new == [at |-> req[r].from, origin |-> req[r].from, by |-> r, merged |-> FALSE]
<1>0. heads \in [Heads -> Branch \cup {NoBranch}] /\ b \in Heads /\ req \in [Requests -> Req]
  BY ReqType DEF TypeOK
<1>1. CASE Goto(r, "failed") /\ heads' = heads
  BY <1>0, <1>1, GotoFact DEF BranchesType, Phases, Ended
<1>2. CASE ~Exists(b) /\ heads' = [heads EXCEPT ![b] = new]
  <2>1. /\ new \in Branch
        /\ new.at = req[r].from /\ new.origin = req[r].from /\ new.by = r
    BY ReqType, NewBranchType
  <2> HIDE DEF b, new
  <2>2. heads'[b] = new /\ OnlyBranch(b) /\ BranchesType
    BY <1>0, <1>2, <2>1 DEF OnlyBranch, BranchesType
  <2>3. heads'[b] # NoBranch
    BY <2>1, <2>2, RowsAssumption
  <2> QED BY <1>2, <2>1, <2>2, <2>3 DEF b
<1>3. \/ Goto(r, "failed") /\ heads' = heads
      \/ ~Exists(b) /\ heads' = [heads EXCEPT ![b] = new]
  BY DEF CreateBranch
<1> QED BY <1>1, <1>2, <1>3

\* Everything but where the branch b is stays.
SameBranch(b) == /\ heads'[b] # NoBranch
                 /\ heads'[b].origin = heads[b].origin
                 /\ heads'[b].by = heads[b].by

LEMMA UpdateFact ==
  ASSUME TypeOK, NEW r \in Requests, UpdateRef(r)
  PROVE  /\ BranchesType
         /\ Exists(req[r].head)
         /\ heads[req[r].head].at \in {req[r].from, req[r].commit}
         /\ OnlyBranch(req[r].head) /\ SameBranch(req[r].head)
         /\ heads'[req[r].head].at = req[r].commit
         /\ req'[r] # req[r]
<1> DEFINE b == req[r].head
           new == [heads[b] EXCEPT !.at = req[r].commit]
<1>1. /\ Exists(b) /\ heads[b].at \in {req[r].from, req[r].commit}
      /\ heads' = [heads EXCEPT ![b] = new]
  BY DEF UpdateRef
<1>2. heads[b] \in Branch /\ req[r].commit \in Commit /\ b \in Heads
  BY <1>1, ReqType, HeadType
<1>3. /\ new \in Branch /\ new.at = req[r].commit
      /\ new.origin = heads[b].origin /\ new.by = heads[b].by
  <2> HIDE DEF b
  <2> QED BY <1>2 DEF Branch
<1>4. heads'[b] = new /\ OnlyBranch(b) /\ BranchesType
  <2> HIDE DEF b, new
  <2> QED BY <1>1, <1>2, <1>3 DEF OnlyBranch, BranchesType, TypeOK
<1>5. SameBranch(b) /\ heads'[b].at = req[r].commit
  <2> HIDE DEF b, new
  <2> QED BY <1>3, <1>4, RowsAssumption DEF SameBranch
<1>6. req'[r] # req[r]
  <2>1. req \in [Requests -> Req] /\ req[r].phase = "update"
    BY DEF TypeOK, UpdateRef
  <2>2. CASE Goto(r, "open")
    <3>1. req'[r].phase = "open"
      BY <2>1, <2>2, GotoFact DEF Phases
    <3> QED BY <2>1, <3>1
  <2>3. CASE Again(r)
    BY <2>1, <2>3, AgainFact
  <2> QED BY <2>2, <2>3 DEF UpdateRef
<1> HIDE DEF b
<1>7. QED BY <1>1, <1>4, <1>5, <1>6 DEF b

\* A merge changes no branch but marks it.
LEMMA MergeFact ==
  ASSUME TypeOK, NEW n \in Pulls, Merge(n)
  PROVE  /\ BranchesType
         /\ \A c \in Heads : heads'[c] = NoBranch <=> heads[c] = NoBranch
         /\ \A c \in Heads : Exists(c) => SameBranch(c) /\ heads'[c].at = heads[c].at
<1> DEFINE b == pulls[n].head
           new == [heads[b] EXCEPT !.merged = TRUE]
<1>1. Exists(b) /\ heads' = [heads EXCEPT ![b] = new]
  BY DEF Merge
<1>2. b \in Heads
  <2>1. pulls[n] \in Pull
    BY DEF TypeOK, Merge
  <2> QED BY <2>1 DEF Pull
<1>3. heads[b] \in Branch /\ heads \in [Heads -> Branch \cup {NoBranch}]
  BY <1>1, <1>2, HeadType DEF TypeOK
<1>4. /\ new \in Branch /\ new.at = heads[b].at
      /\ new.origin = heads[b].origin /\ new.by = heads[b].by
  <2> HIDE DEF b
  <2> QED BY <1>3 DEF Branch
<1>5. heads'[b] = new /\ \A c \in Heads \ {b} : heads'[c] = heads[c]
  <2> HIDE DEF b, new
  <2> QED BY <1>1, <1>2, <1>3
<1>6. BranchesType
  <2> HIDE DEF b, new
  <2> QED BY <1>1, <1>2, <1>3, <1>4 DEF BranchesType
<1>7. ASSUME NEW c \in Heads
      PROVE  /\ heads'[c] = NoBranch <=> heads[c] = NoBranch
             /\ Exists(c) => SameBranch(c) /\ heads'[c].at = heads[c].at
  <2>1. CASE c = b
    <3>1. new # NoBranch
      <4> HIDE DEF new
      <4> QED BY <1>4, RowsAssumption
    <3> HIDE DEF b, new
    <3> QED BY <1>1, <1>4, <1>5, <2>1, <3>1 DEF Exists, SameBranch
  <2>2. CASE c # b
    <3> HIDE DEF b
    <3> QED BY <1>5, <2>2 DEF Exists, SameBranch
  <2> QED BY <2>1, <2>2
<1> QED BY <1>6, <1>7

LEMMA DeleteFact ==
  ASSUME TypeOK, NEW b \in Heads, DeleteBranch(b)
  PROVE  BranchesType /\ OnlyBranch(b) /\ heads'[b] = NoBranch
BY DEF TypeOK, DeleteBranch, BranchesType, OnlyBranch

-----------------------------------------------------------------------------
\* The pull requests.
PullsType == pulls' \in [Pulls -> Pull \cup {NoPull}]

LEMMA OpenPullType ==
  ASSUME TypeOK, NEW r \in Requests, OpenPull(r)
  PROVE  PullsType
<1>1. CASE pulls' = pulls
  BY <1>1 DEF PullsType, TypeOK
<1>2. ASSUME NEW n \in Pulls, pulls' = [pulls EXCEPT ![n] = [head |-> req[r].head, open |-> TRUE]]
      PROVE  PullsType
  <2>1. [head |-> req[r].head, open |-> TRUE] \in Pull
    BY ReqType DEF Pull
  <2> QED BY <1>2, <2>1 DEF PullsType, TypeOK
<1> QED BY <1>1, <1>2 DEF OpenPull

LEMMA ClosedType ==
  ASSUME TypeOK, NEW n \in Pulls, pulls[n] # NoPull
  PROVE  [pulls[n] EXCEPT !.open = FALSE] \in Pull
<1>1. pulls[n] \in Pull
  BY DEF TypeOK
<1> QED BY <1>1 DEF Pull

LEMMA CloseType ==
  ASSUME TypeOK, NEW n \in Pulls, Merge(n) \/ Close(n)
  PROVE  PullsType
<1>1. pulls[n] # NoPull /\ pulls' = [pulls EXCEPT ![n] = [pulls[n] EXCEPT !.open = FALSE]]
  BY DEF Merge, Close
<1>2. [pulls[n] EXCEPT !.open = FALSE] \in Pull
  BY <1>1, ClosedType
<1> DEFINE new == [pulls[n] EXCEPT !.open = FALSE]
<1> HIDE DEF new
<1>3. new \in Pull /\ pulls' = [pulls EXCEPT ![n] = new]
  BY <1>1, <1>2 DEF new
<1> QED BY <1>3 DEF PullsType, TypeOK

LEMMA DeleteType ==
  ASSUME TypeOK, NEW b \in Heads, DeleteBranch(b)
  PROVE  PullsType
<1>1. pulls' = [n \in Pulls |-> IF n \in OpenPulls(b) THEN [pulls[n] EXCEPT !.open = FALSE]
                                ELSE pulls[n]]
  BY DEF DeleteBranch
<1>2. ASSUME NEW n \in Pulls
      PROVE  (IF n \in OpenPulls(b) THEN [pulls[n] EXCEPT !.open = FALSE] ELSE pulls[n])
               \in Pull \cup {NoPull}
  BY <1>2, ClosedType DEF OpenPulls, TypeOK
<1> QED BY <1>1, <1>2 DEF PullsType

-----------------------------------------------------------------------------
LEMMA WorkType ==
  ASSUME TypeOK, NEW r \in Requests, Work(r)
  PROVE  TypeOK'
<1>1. local' = local /\ virtual' = virtual /\ base' = base /\ moves' = moves
  BY DEF Work, QueryOpen, ReadManifest, Build, ReadBase, CreateBranch, ReadHead, UpdateRef,
         OpenPull, FindOpen, Lose, Fail, github
<1>2. req' \in [Requests -> Req]
  <2>1. CASE Build(r)
    BY <2>1, BuildFact DEF Only
  <2>2. CASE ReadManifest(r) \/ ReadBase(r) \/ ReadHead(r)
    BY <2>2, ReadManifestFact, ReadBaseFact, ReadHeadFact DEF Only
  <2>3. CASE \/ QueryOpen(r) \/ CreateBranch(r) \/ UpdateRef(r) \/ OpenPull(r) \/ FindOpen(r)
             \/ Lose(r) \/ Fail(r)
    BY <2>3, KeepFact DEF Only
  <2> QED BY <2>1, <2>2, <2>3 DEF Work
<1>3. BranchesType
  <2>1. CASE CreateBranch(r) \/ UpdateRef(r)
    BY <2>1, CreateFact, UpdateFact
  <2>2. CASE heads' = heads
    BY <2>2 DEF BranchesType, TypeOK
  <2> QED BY <2>1, <2>2 DEF Work, QueryOpen, ReadManifest, Build, ReadBase, ReadHead, OpenPull,
                            FindOpen, Lose, Fail, github
<1>4. PullsType
  <2>1. CASE OpenPull(r)
    BY <2>1, OpenPullType
  <2>2. CASE pulls' = pulls
    BY <2>2 DEF PullsType, TypeOK
  <2> QED BY <2>1, <2>2 DEF Work, QueryOpen, ReadManifest, Build, ReadBase, CreateBranch,
                            ReadHead, UpdateRef, FindOpen, Lose, Fail, github
<1>5. nextSha' \in Nat
  <2>1. CASE ReadHead(r)
    BY <2>1, ReadHeadFact
  <2>2. CASE nextSha' = nextSha
    BY <2>2 DEF TypeOK
  <2> QED BY <2>1, <2>2 DEF Work, QueryOpen, ReadManifest, Build, ReadBase, CreateBranch,
                            UpdateRef, OpenPull, FindOpen, Lose, Fail, github
<1> QED BY <1>1, <1>2, <1>3, <1>4, <1>5 DEF TypeOK, BranchesType, PullsType

LEMMA OthersType ==
  ASSUME TypeOK,
         \/ \E r \in Requests, b \in Heads : Start(r, b)
         \/ Edit \/ Push
         \/ \E n \in Pulls : Merge(n) \/ Close(n)
         \/ \E b \in Heads : DeleteBranch(b)
  PROVE  TypeOK'
<1>1. ASSUME NEW r \in Requests, NEW b \in Heads, Start(r, b) PROVE TypeOK'
  BY <1>1, StartFact DEF Start, Only, TypeOK, github
<1>2. CASE Edit
  <2>1. moves' \in 0 .. MoveBound
    BY <1>2, BoundsAssumption DEF Edit, TypeOK
  <2> QED BY <1>2, <2>1 DEF Edit, TypeOK, github
<1>3. CASE Push
  <2>1. moves' \in 0 .. MoveBound /\ nextSha' \in Nat
    BY <1>3, BoundsAssumption DEF Push, TypeOK
  <2>2. base' \in Commit
    BY <1>3, DataAssumption DEF Push, Commit
  <2> QED BY <1>3, <2>1, <2>2 DEF Push, TypeOK
<1>4. ASSUME NEW n \in Pulls, Merge(n) PROVE TypeOK'
  <2>1. BranchesType /\ PullsType
    BY <1>4, MergeFact, CloseType
  <2>2. heads[pulls[n].head].at.tree \in Tree
    <3>1. pulls[n] \in Pull
      BY <1>4 DEF TypeOK, Merge
    <3>2. pulls[n].head \in Heads
      BY <3>1 DEF Pull
    <3>3. Exists(pulls[n].head)
      BY <1>4 DEF Merge
    <3> QED BY <3>2, <3>3, HeadType
  <2>3. base' \in Commit
    BY <1>4, <2>2 DEF Merge, Commit
  <2>4. nextSha' \in Nat
    BY <1>4 DEF Merge, TypeOK
  <2>5. local' = local /\ virtual' = virtual /\ req' = req /\ moves' = moves
    BY <1>4 DEF Merge
  <2> QED BY <2>1, <2>3, <2>4, <2>5 DEF TypeOK, BranchesType, PullsType
<1>5. ASSUME NEW n \in Pulls, Close(n) PROVE TypeOK'
  <2>1. PullsType
    BY <1>5, CloseType
  <2> QED BY <1>5, <2>1 DEF Close, TypeOK, PullsType
<1>6. ASSUME NEW b \in Heads, DeleteBranch(b) PROVE TypeOK'
  <2>1. BranchesType /\ PullsType
    BY <1>6, DeleteFact, DeleteType
  <2> QED BY <1>6, <2>1 DEF DeleteBranch, TypeOK, PullsType, BranchesType
<1> QED BY <1>1, <1>2, <1>3, <1>4, <1>5, <1>6

LEMMA NextType == TypeOK /\ [Next]_vars => TypeOK'
<1> SUFFICES ASSUME TypeOK, [Next]_vars PROVE TypeOK'
  OBVIOUS
<1>1. CASE UNCHANGED vars
  BY <1>1 DEF vars, github, TypeOK
<1>2. CASE Next
  BY <1>2, WorkType, OthersType DEF Next
<1> QED BY <1>1, <1>2

\* The state keeps its types: of the base branch, the branches and their commits,
\* the pull requests, and what each request holds between two HTTP requests.
THEOREM TypeCorrect == Spec => []TypeOK
<1>1. Init => TypeOK
  BY InitType
<1>2. TypeOK /\ [Next]_vars => TypeOK'
  BY NextType
<1> QED BY <1>1, <1>2, PTL DEF Spec

-----------------------------------------------------------------------------
(***************************************************************************)
(* The invariant.  A request that works on a branch has made it, and the   *)
(* branch is where the request has brought it; and a branch is where it    *)
(* was made, or there with the plan of its maker carried out.              *)
(***************************************************************************)
Early == {"new", "query", "manifest", "build", "base"}

Working == {"read", "update", "open", "find"}

FitsSeen(q) == ~q.plan.twice => Fits(q.plan, q.seen.tree)

RequestOK(r) ==
  LET q == req[r]
      h == heads[req[r].head]
  IN  /\ q.phase \in Working => h # NoBranch /\ h.by = r
      /\ q.phase = "read" => h.at = h.origin
      /\ q.phase = "update" => /\ q.from = h.origin
                               /\ h.at \in {q.from, q.commit}
                               /\ q.commit.tree = Applied(q.from.tree, q.plan)
      /\ q.phase \in {"open", "find"} => h.at.tree.manifest = q.plan.manifest
      /\ q.phase \in {"base", "create"} \cup Working => FitsSeen(q)

BranchOK(b) ==
  LET h == heads[b]
      q == req[heads[b].by]
  IN  h # NoBranch => /\ q.phase \notin Early
                      /\ FitsSeen(q)
                      /\ h.at = h.origin \/ h.at.tree = Applied(h.origin.tree, q.plan)

Inv == /\ TypeOK
       /\ \A r \in Requests : RequestOK(r)
       /\ \A b \in Heads : BranchOK(b)

\* Request r goes on with the plan it has, or it had none and no branch.
Continues(r) == \/ req[r].phase \in Early
                \/ /\ req'[r].plan = req[r].plan /\ req'[r].seen = req[r].seen
                   /\ req'[r].phase \notin Early

LEMMA OtherRequest ==
  ASSUME NEW x \in Requests, RequestOK(x), req'[x] = req[x],
         req[x].phase \in Working => heads'[req[x].head] = heads[req[x].head]
  PROVE  RequestOK(x)'
BY DEF RequestOK, Working, FitsSeen, Fits

LEMMA SameMaker ==
  ASSUME Inv, NEW r \in Requests, Only(r), Continues(r), NEW b \in Heads, heads[b] # NoBranch,
         BranchOK(b)
  PROVE  LET q == req[heads[b].by]
             p == req'[heads[b].by]
         IN  p.plan = q.plan /\ p.seen = q.seen /\ p.phase \notin Early /\ FitsSeen(p)
<1> DEFINE x == heads[b].by
<1>1. x \in Requests
  BY HeadType DEF Inv, Exists
<1>2. req[x].phase \notin Early /\ FitsSeen(req[x])
  BY DEF BranchOK
<1> HIDE DEF x
<1>3. req'[x].plan = req[x].plan /\ req'[x].seen = req[x].seen /\ req'[x].phase \notin Early
  <2>1. CASE x = r
    BY <1>2, <2>1 DEF Continues
  <2>2. CASE x # r
    BY <1>1, <1>2, <2>2 DEF Only
  <2> QED BY <2>1, <2>2
<1>4. FitsSeen(req'[x])
  BY <1>2, <1>3 DEF FitsSeen
<1> QED BY <1>3, <1>4 DEF x

LEMMA OtherBranch ==
  ASSUME Inv, NEW r \in Requests, Only(r), Continues(r), NEW b \in Heads, heads'[b] = heads[b]
  PROVE  BranchOK(b)'
<1>1. CASE heads[b] = NoBranch
  BY <1>1 DEF BranchOK
<1>2. CASE heads[b] # NoBranch
  <2>1. BranchOK(b)
    BY DEF Inv
  <2> DEFINE x == heads[b].by
  <2>2. /\ req'[x].plan = req[x].plan /\ req'[x].phase \notin Early /\ FitsSeen(req'[x])
    BY <1>2, <2>1, SameMaker
  <2>3. FitsSeen(req[x])'
    BY <2>2, heads'[b] = heads[b] DEF FitsSeen, Fits
  <2> QED BY <1>2, <2>1, <2>2, <2>3 DEF BranchOK
<1> QED BY <1>1, <1>2

\* A step of request r that leaves the branches alone.
LEMMA QuietStep ==
  ASSUME Inv, TypeOK', NEW r \in Requests, Only(r), Continues(r), heads' = heads, RequestOK(r)'
  PROVE  Inv'
<1>1. ASSUME NEW x \in Requests PROVE RequestOK(x)'
  <2>1. CASE x # r
    BY <2>1, OtherRequest DEF Inv, Only
  <2> QED BY <2>1
<1>2. \A b \in Heads : BranchOK(b)'
  BY OtherBranch
<1> QED BY <1>1, <1>2 DEF Inv

LEMMA QueryOpenInv == ASSUME Inv, TypeOK', NEW r \in Requests, QueryOpen(r) PROVE Inv'
<1>1. Only(r) /\ req'[r].phase \in {"existing", "manifest"}
  BY KeepFact DEF Inv
<1>2. heads' = heads /\ Continues(r)
  BY DEF QueryOpen, github, Continues, Early
<1>3. RequestOK(r)'
  BY <1>1 DEF RequestOK, Working
<1> QED BY <1>1, <1>2, <1>3, QuietStep

LEMMA ReadManifestInv == ASSUME Inv, TypeOK', NEW r \in Requests, ReadManifest(r) PROVE Inv'
<1>1. Only(r) /\ req'[r].phase = "build"
  BY ReadManifestFact DEF Inv
<1>2. heads' = heads /\ Continues(r)
  BY DEF ReadManifest, github, Continues, Early
<1>3. RequestOK(r)'
  BY <1>1 DEF RequestOK, Working
<1> QED BY <1>1, <1>2, <1>3, QuietStep

LEMMA BuildInv == ASSUME Inv, TypeOK', NEW r \in Requests, Build(r) PROVE Inv'
<1> DEFINE t == req[r].seen.tree
           p == PlanOf(r, local, Exported, Read(t))
<1>1. Only(r) /\ p \in Plan /\ req'[r] = [req[r] EXCEPT !.phase = "base", !.plan = p, !.tries = 1]
  BY BuildFact DEF Inv
<1>2. heads' = heads /\ Continues(r)
  BY DEF Build, github, Continues, Early
<1>3. req'[r].phase = "base" /\ req'[r].plan = p /\ req'[r].seen.tree = t
  <2>1. req[r] \in Req
    BY DEF Inv, TypeOK
  <2> HIDE DEF p
  <2> QED BY <1>1, <2>1 DEF Req
<1>4. ~p.twice => Fits(p, t)
  <2>1. t \in Tree /\ local \in Seq(Macro) /\ Exported \in SUBSET DOMAIN local
    BY ReqType, LocalType DEF Inv
  <2> QED BY <2>1, PlanFits
<1>5. FitsSeen(req[r])'
  <2> HIDE DEF p, t
  <2> QED BY <1>3, <1>4 DEF FitsSeen
<1>6. RequestOK(r)'
  BY <1>3, <1>5 DEF RequestOK, Working
<1> QED BY <1>1, <1>2, <1>6, QuietStep

LEMMA ReadBaseInv == ASSUME Inv, TypeOK', NEW r \in Requests, ReadBase(r) PROVE Inv'
<1>1. /\ Only(r) /\ req'[r].phase = "create"
      /\ req'[r].seen = req[r].seen /\ req'[r].plan = req[r].plan
  BY ReadBaseFact DEF Inv
<1>2. heads' = heads /\ Continues(r) /\ req[r].phase = "base"
  BY DEF ReadBase, github, Continues, Early
<1>3. FitsSeen(req[r])
  BY <1>2 DEF Inv, RequestOK
<1>4. FitsSeen(req[r])'
  BY <1>1, <1>3 DEF FitsSeen, Fits
<1>5. RequestOK(r)'
  BY <1>1, <1>4 DEF RequestOK, Working
<1> QED BY <1>1, <1>2, <1>5, QuietStep

LEMMA ReadHeadInv == ASSUME Inv, TypeOK', NEW r \in Requests, ReadHead(r) PROVE Inv'
<1> DEFINE h == heads[req[r].head]
<1>1. heads' = heads /\ req[r].phase = "read"
  BY DEF ReadHead
<1>2. /\ h # NoBranch /\ h.by = r /\ h.at = h.origin /\ FitsSeen(req[r])
  BY <1>1 DEF Inv, RequestOK, Working
<1>3. CASE req'[r].phase = "no changes" /\ Kept(r) /\ Only(r)
  <2>1. RequestOK(r)' /\ Continues(r)
    BY <1>3 DEF RequestOK, Working, Continues, Early, Kept
  <2> QED BY <1>1, <1>3, <2>1, QuietStep
<1>4. CASE /\ Only(r) /\ req'[r].phase = "update"
           /\ req'[r].head = req[r].head
           /\ req'[r].seen = req[r].seen /\ req'[r].plan = req[r].plan
           /\ req'[r].from = h.at
           /\ req'[r].commit.tree = Applied(h.at.tree, req[r].plan)
  <2>1. FitsSeen(req[r])'
    BY <1>2, <1>4 DEF FitsSeen, Fits
  <2>2. (req[r].commit.tree = Applied(req[r].from.tree, req[r].plan))'
    BY <1>4 DEF Applied
  <2>3. RequestOK(r)'
    BY <1>1, <1>2, <1>4, <2>1, <2>2 DEF RequestOK, Working
  <2>4. Continues(r)
    BY <1>4 DEF Continues, Early
  <2> QED BY <1>1, <1>4, <2>3, <2>4, QuietStep
<1> QED BY <1>3, <1>4, ReadHeadFact DEF Inv

\* A step of a request that goes on with all it has, and leaves the branches alone.
LEMMA KeptRequest ==
  ASSUME Inv, TypeOK', NEW r \in Requests, Only(r), Kept(r), heads' = heads,
         req'[r].phase \in {req[r].phase, "failed", "created"}
           \/ (req[r].phase = "open" /\ req'[r].phase = "find")
  PROVE  Inv'
<1>1. RequestOK(r)
  BY DEF Inv
<1>2. FitsSeen(req[r]) => FitsSeen(req[r])'
  BY DEF FitsSeen, Fits, Kept
<1>3. (req[r].commit.tree = Applied(req[r].from.tree, req[r].plan))
        => (req[r].commit.tree = Applied(req[r].from.tree, req[r].plan))'
  BY DEF Kept, Applied
<1>4. RequestOK(r)'
  BY <1>1, <1>2, <1>3 DEF RequestOK, Working, Kept
<1>5. Continues(r)
  BY DEF Continues, Early, Kept
<1> QED BY <1>4, <1>5, QuietStep

LEMMA QuietInv ==
  ASSUME Inv, TypeOK', NEW r \in Requests, OpenPull(r) \/ FindOpen(r) \/ Lose(r) \/ Fail(r)
  PROVE  Inv'
<1>1. heads' = heads
  BY DEF OpenPull, FindOpen, Lose, Fail, github
<1>2. CASE OpenPull(r)
  <2>1. req[r].phase = "open" /\ Only(r) /\ Kept(r)
        /\ req'[r].phase \in {"created", "open", "find", "failed"}
    BY <1>2, KeepFact DEF OpenPull, Inv
  <2> QED BY <1>1, <2>1, KeptRequest
<1>3. CASE FindOpen(r) \/ Lose(r) \/ Fail(r)
  BY <1>1, <1>3, KeepFact, KeptRequest DEF Inv
<1> QED BY <1>2, <1>3

LEMMA CreateInv == ASSUME Inv, TypeOK', NEW r \in Requests, CreateBranch(r) PROVE Inv'
<1> DEFINE b == req[r].head
<1>1. /\ Only(r) /\ Kept(r) /\ req'[r].phase \in {"read", "create", "failed"}
      /\ req[r].phase = "create"
  BY KeepFact DEF Inv, CreateBranch
<1>2. CASE heads' = heads /\ req'[r].phase = "failed"
  BY <1>1, <1>2, KeptRequest
<1>3. CASE /\ ~Exists(b) /\ OnlyBranch(b) /\ heads'[b] # NoBranch
           /\ heads'[b].at = req[r].from /\ heads'[b].origin = req[r].from
           /\ heads'[b].by = r
  <2>1. b \in Heads /\ b' = b
    BY <1>1, ReqType DEF Inv, Kept
  <2>2. FitsSeen(req[r]) /\ FitsSeen(req[r])'
    BY <1>1 DEF Inv, RequestOK, FitsSeen, Fits, Kept
  <2>3. Continues(r)
    BY <1>1 DEF Continues, Early, Kept
  <2>4. RequestOK(r)'
    BY <1>1, <1>3, <2>1, <2>2 DEF RequestOK, Working
  <2>5. ASSUME NEW x \in Requests PROVE RequestOK(x)'
    <3>1. CASE x # r
      <4>1. RequestOK(x) /\ req'[x] = req[x] /\ req[x].head \in Heads
        BY <1>1, <3>1, ReqType DEF Inv, Only
      <4>2. req[x].phase \in Working => req[x].head # b
        BY <1>3, <4>1 DEF RequestOK, Exists
      <4> HIDE DEF b
      <4> QED BY <1>3, <4>1, <4>2, OtherRequest DEF OnlyBranch
    <3> QED BY <2>4, <3>1
  <2>6. ASSUME NEW c \in Heads PROVE BranchOK(c)'
    <3>1. CASE c = b
      <4> HIDE DEF b
      <4>1. heads'[c].by = r /\ heads'[c].at = heads'[c].origin
        BY <1>3, <3>1
      <4>2. req'[r].phase \notin Early
        BY <1>1 DEF Early
      <4> QED BY <2>2, <4>1, <4>2 DEF BranchOK
    <3>2. CASE c # b
      <4>1. heads'[c] = heads[c]
        BY <1>3, <3>2 DEF OnlyBranch
      <4> QED BY <1>1, <2>3, <4>1, OtherBranch
    <3> QED BY <3>1, <3>2
  <2> QED BY <2>5, <2>6 DEF Inv
<1> QED BY <1>2, <1>3, CreateFact DEF Inv

LEMMA UpdateInv == ASSUME Inv, TypeOK', NEW r \in Requests, UpdateRef(r) PROVE Inv'
<1> DEFINE b == req[r].head
<1>1. /\ Only(r) /\ Kept(r) /\ req'[r].phase \in {"open", "update", "failed"}
      /\ req[r].phase = "update"
  BY KeepFact DEF Inv, UpdateRef
<1>2. /\ heads[b] # NoBranch
      /\ OnlyBranch(b) /\ SameBranch(b)
      /\ heads'[b].at = req[r].commit
  BY UpdateFact DEF Inv, Exists
<1>3. /\ heads[b].by = r /\ req[r].from = heads[b].origin
      /\ req[r].commit.tree = Applied(req[r].from.tree, req[r].plan)
      /\ FitsSeen(req[r])
  BY <1>1 DEF Inv, RequestOK, Working
<1>4. /\ b \in Heads /\ req'[r].head = b /\ req'[r].plan = req[r].plan
      /\ req'[r].from = req[r].from /\ req'[r].commit = req[r].commit
      /\ req[r].plan \in Plan /\ req[r].from.tree \in Tree
  BY <1>1, ReqType DEF Inv, Kept
<1>5. FitsSeen(req[r])'
  BY <1>1, <1>3 DEF FitsSeen, Fits, Kept
<1>6. Continues(r)
  BY <1>1 DEF Continues, Early, Kept
<1>7. (req[r].commit.tree = Applied(req[r].from.tree, req[r].plan))'
  BY <1>3, <1>4 DEF Applied
<1>8. req[r].commit.tree.manifest = req[r].plan.manifest
  BY <1>3, <1>4, AppliedType
<1>9. RequestOK(r)'
  <2> HIDE DEF b
  <2> QED BY <1>1, <1>2, <1>3, <1>4, <1>5, <1>7, <1>8 DEF RequestOK, Working, SameBranch
<1>10. ASSUME NEW x \in Requests PROVE RequestOK(x)'
  <2>1. CASE x # r
    <3>1. RequestOK(x) /\ req'[x] = req[x] /\ req[x].head \in Heads
      BY <1>1, <2>1, ReqType DEF Inv, Only
    <3>2. req[x].phase \in Working => req[x].head # b
      BY <1>3, <2>1, <3>1 DEF RequestOK
    <3> HIDE DEF b
    <3> QED BY <1>2, <3>1, <3>2, OtherRequest DEF OnlyBranch
  <2> QED BY <1>9, <2>1
<1>11. ASSUME NEW c \in Heads PROVE BranchOK(c)'
  <2>1. CASE c = b
    <3> HIDE DEF b
    <3>1. /\ heads'[c].by = r /\ heads'[c].origin = req[r].from
          /\ heads'[c].at.tree = Applied(req[r].from.tree, req[r].plan)
      BY <1>2, <1>3, <2>1 DEF SameBranch
    <3>2. req'[r].phase \notin Early
      BY <1>1 DEF Early
    <3>3. (heads[c].at.tree = Applied(heads[c].origin.tree, req[heads[c].by].plan))'
      BY <1>4, <3>1 DEF Applied
    <3>4. (req[heads[c].by].phase \notin Early /\ FitsSeen(req[heads[c].by]))'
      BY <1>5, <3>1, <3>2 DEF FitsSeen, Fits
    <3> QED BY <3>3, <3>4 DEF BranchOK
  <2>2. CASE c # b
    <3>1. heads'[c] = heads[c]
      BY <1>2, <2>2 DEF OnlyBranch
    <3> QED BY <1>1, <1>6, <3>1, OtherBranch
  <2> QED BY <2>1, <2>2
<1> QED BY <1>10, <1>11 DEF Inv

LEMMA MergeInv == ASSUME Inv, TypeOK', NEW n \in Pulls, Merge(n) PROVE Inv'
<1>1. req' = req
  BY DEF Merge
<1>2. \A c \in Heads : heads[c] # NoBranch => SameBranch(c) /\ heads'[c].at = heads[c].at
  BY MergeFact DEF Inv, Exists
<1>3. \A c \in Heads : heads'[c] # NoBranch => heads[c] # NoBranch
  BY MergeFact DEF Inv
<1>4. ASSUME NEW r \in Requests PROVE RequestOK(r)'
  <2>1. RequestOK(r) /\ req[r].head \in Heads
    BY ReqType DEF Inv
  <2>2. FitsSeen(req[r]) => FitsSeen(req[r])'
    BY <1>1 DEF FitsSeen, Fits
  <2> DEFINE b == req[r].head
  <2>3. req[r].phase \in Working =>
          /\ heads'[b] # NoBranch /\ heads'[b].at = heads[b].at
          /\ heads'[b].origin = heads[b].origin /\ heads'[b].by = heads[b].by
    BY <1>2, <2>1 DEF RequestOK, SameBranch
  <2> QED BY <1>1, <2>1, <2>2, <2>3 DEF RequestOK, Working
<1>5. ASSUME NEW c \in Heads PROVE BranchOK(c)'
  <2>1. CASE heads'[c] = NoBranch
    BY <2>1 DEF BranchOK
  <2>2. CASE heads'[c] # NoBranch
    <3>1. /\ heads[c] # NoBranch /\ heads'[c].at = heads[c].at
          /\ heads'[c].origin = heads[c].origin /\ heads'[c].by = heads[c].by
      BY <1>2, <1>3, <2>2 DEF SameBranch
    <3>2. BranchOK(c)
      BY DEF Inv
    <3> QED BY <1>1, <3>1, <3>2 DEF BranchOK, FitsSeen, Fits
  <2> QED BY <2>1, <2>2
<1> QED BY <1>4, <1>5 DEF Inv

LEMMA DeleteInv == ASSUME Inv, TypeOK', NEW b \in Heads, DeleteBranch(b) PROVE Inv'
<1>1. req' = req /\ OnlyBranch(b) /\ heads'[b] = NoBranch
  BY DeleteFact DEF Inv, DeleteBranch
<1>2. ASSUME NEW r \in Requests PROVE RequestOK(r)'
  <2>1. RequestOK(r) /\ req[r].head \in Heads
    BY ReqType DEF Inv
  <2>2. req[r].phase \in Working => req[r].head # b
    BY DEF DeleteBranch, Busy, Working, Ended
  <2> QED BY <1>1, <2>1, <2>2, OtherRequest DEF OnlyBranch
<1>3. ASSUME NEW c \in Heads PROVE BranchOK(c)'
  <2>1. CASE c = b
    BY <1>1, <2>1 DEF BranchOK
  <2>2. CASE c # b
    <3>1. heads'[c] = heads[c]
      BY <1>1, <2>2 DEF OnlyBranch
    <3>2. BranchOK(c)
      BY DEF Inv
    <3> QED BY <1>1, <3>1, <3>2 DEF BranchOK, FitsSeen, Fits
  <2> QED BY <2>1, <2>2
<1> QED BY <1>2, <1>3 DEF Inv

LEMMA StartInv == ASSUME Inv, TypeOK', NEW r \in Requests, NEW b \in Heads, Start(r, b) PROVE Inv'
<1>1. Only(r) /\ req'[r].phase = "query"
  BY StartFact DEF Inv
<1>2. heads' = heads /\ Continues(r)
  BY DEF Start, github, Continues, Early
<1>3. RequestOK(r)'
  BY <1>1 DEF RequestOK, Working
<1> QED BY <1>1, <1>2, <1>3, QuietStep

LEMMA ElseInv == ASSUME Inv, TypeOK', req' = req, heads' = heads PROVE Inv'
<1>1. ASSUME NEW r \in Requests PROVE RequestOK(r)'
  BY OtherRequest DEF Inv
<1>2. ASSUME NEW c \in Heads PROVE BranchOK(c)'
  <2>1. BranchOK(c)
    BY DEF Inv
  <2> QED BY <2>1 DEF BranchOK, FitsSeen, Fits
<1> QED BY <1>1, <1>2 DEF Inv

LEMMA InitInv == Init => Inv
<1> SUFFICES ASSUME Init PROVE Inv
  OBVIOUS
<1>1. TypeOK
  BY InitType
<1>2. ASSUME NEW r \in Requests PROVE RequestOK(r)
  <2>1. req[r].phase = "new"
    BY DEF Init, New
  <2> QED BY <2>1 DEF RequestOK, Working
<1>3. ASSUME NEW b \in Heads PROVE BranchOK(b)
  BY DEF Init, BranchOK
<1> QED BY <1>1, <1>2, <1>3 DEF Inv

LEMMA NextInv == Inv /\ [Next]_vars => Inv'
<1> SUFFICES ASSUME Inv, [Next]_vars PROVE Inv'
  OBVIOUS
<1>1. TypeOK'
  BY NextType DEF Inv
<1>2. ASSUME NEW r \in Requests, Work(r) PROVE Inv'
  BY <1>1, <1>2, QueryOpenInv, ReadManifestInv, BuildInv, ReadBaseInv, CreateInv, ReadHeadInv,
     UpdateInv, QuietInv DEF Work
<1>3. ASSUME NEW r \in Requests, NEW b \in Heads, Start(r, b) PROVE Inv'
  BY <1>1, <1>3, StartInv
<1>4. CASE Edit \/ Push \/ (\E n \in Pulls : Close(n)) \/ UNCHANGED vars
  BY <1>1, <1>4, ElseInv DEF Edit, Push, Close, vars, github
<1>5. ASSUME NEW n \in Pulls, Merge(n) PROVE Inv'
  BY <1>1, <1>5, MergeInv
<1>6. ASSUME NEW b \in Heads, DeleteBranch(b) PROVE Inv'
  BY <1>1, <1>6, DeleteInv
<1> QED BY <1>2, <1>3, <1>4, <1>5, <1>6 DEF Next

LEMMA InvCorrect == Spec => []Inv
BY InitInv, NextInv, PTL DEF Spec

-----------------------------------------------------------------------------
\* Whatever becomes of the request that made it, a branch is whole: its manifest
\* says of every file what is in it.
THEOREM Wholeness == Spec => []BranchesWhole
<1>1. Inv => BranchesWhole
  <2> SUFFICES ASSUME Inv, NEW b \in Heads, Exists(b), Steady(b), ~req[heads[b].by].plan.twice,
                      Consistent(heads[b].origin.tree)
               PROVE  Consistent(heads[b].at.tree)
    BY DEF BranchesWhole
  <2> DEFINE q == req[heads[b].by]
             t == heads[b].origin.tree
  <2>1. t \in Tree /\ q.plan \in Plan
    BY HeadType, ReqType DEF Inv
  <2>2. Fits(q.plan, t) /\ (heads[b].at = heads[b].origin \/ heads[b].at.tree = Applied(t, q.plan))
    BY DEF Inv, BranchOK, Exists, FitsSeen, Steady
  <2>3. Consistent(Applied(t, q.plan))
    <3> HIDE DEF q, t
    <3> QED BY <2>1, <2>2, AppliedConsistent DEF t
  <2> QED BY <2>2, <2>3
<1> QED BY <1>1, InvCorrect, PTL

\* Requests for one branch never mix: a branch moves at most once, by the commit
\* of the request that made it.
THEOREM OneMaker == Spec => OwnBranchOnly
<1> DEFINE Own == \A b \in Heads : Exists(b) /\ heads'[b] # NoBranch /\ heads'[b].at # heads[b].at =>
                    /\ heads[b].at = heads[b].origin
                    /\ req'[heads[b].by] # req[heads[b].by]
<1>1. Inv /\ [Next]_vars => [Own]_vars
  <2> SUFFICES ASSUME Inv, Next, NEW b \in Heads,
                      Exists(b), heads'[b] # NoBranch, heads'[b].at # heads[b].at
               PROVE  /\ heads[b].at = heads[b].origin
                      /\ req'[heads[b].by] # req[heads[b].by]
    OBVIOUS
  <2>1. ASSUME NEW r \in Requests, UpdateRef(r)
        PROVE  /\ heads[b].at = heads[b].origin
               /\ req'[heads[b].by] # req[heads[b].by]
    <3>1. /\ heads[req[r].head].at \in {req[r].from, req[r].commit}
          /\ OnlyBranch(req[r].head)
          /\ heads'[req[r].head].at = req[r].commit
          /\ req'[r] # req[r]
      BY <2>1, UpdateFact DEF Inv
    <3>2. b = req[r].head
      BY <3>1 DEF OnlyBranch
    <3>3. heads[b].by = r /\ req[r].from = heads[b].origin
      BY <2>1, <3>2 DEF Inv, RequestOK, Working, UpdateRef
    <3> QED BY <3>1, <3>2, <3>3
  <2>2. ASSUME NEW r \in Requests, CreateBranch(r) PROVE FALSE
    <3>1. heads' = heads \/ (~Exists(req[r].head) /\ OnlyBranch(req[r].head))
      BY <2>2, CreateFact DEF Inv
    <3> QED BY <3>1 DEF OnlyBranch
  <2>3. ASSUME NEW n \in Pulls, Merge(n) PROVE FALSE
    BY <2>3, MergeFact DEF Inv
  <2>4. ASSUME NEW c \in Heads, DeleteBranch(c) PROVE FALSE
    BY <2>4, DeleteFact DEF Inv, OnlyBranch
  <2>5. CASE heads' = heads
    BY <2>5
  <2> QED BY <2>1, <2>2, <2>3, <2>4, <2>5
          DEF Next, Work, Start, QueryOpen, ReadManifest, Build, ReadBase, ReadHead, OpenPull,
              FindOpen, Lose, Fail, Edit, Push, Close, github
<1> QED BY <1>1, InvCorrect, PTL DEF Spec, OwnBranchOnly

\* When a pull request is reported as created, its branch holds the macros that
\* the request has collected, and is offered in an open pull request.
THEOREM HonestReport == Spec => ReportIsTrue
<1> DEFINE True == \A r \in Requests : req[r].phase # "created" /\ req'[r].phase = "created" =>
                     LET b == req[r].head
                     IN  /\ Exists(b) /\ OpenPulls(b)' # {}
                         /\ heads[b].at.tree.manifest = req[r].plan.manifest
<1>1. Inv /\ [Next]_vars => [True]_vars
  <2> SUFFICES ASSUME Inv, Next, NEW r \in Requests,
                      req[r].phase # "created", req'[r].phase = "created"
               PROVE  LET b == req[r].head
                      IN  /\ Exists(b) /\ OpenPulls(b)' # {}
                          /\ heads[b].at.tree.manifest = req[r].plan.manifest
    OBVIOUS
  <2> DEFINE b == req[r].head
  <2>1. OpenPull(r) \/ FindOpen(r)
    <3>1. req' # req
      OBVIOUS
    <3>2. ASSUME NEW x \in Requests, Only(x) PROVE x = r
      BY <3>2 DEF Only
    <3>3. ASSUME NEW x \in Requests, NEW c \in Heads, Start(x, c) PROVE FALSE
      BY <3>2, <3>3, StartFact DEF Inv
    <3>4. ASSUME NEW x \in Requests, Work(x) PROVE OpenPull(r) \/ FindOpen(r)
      <4>1. CASE Build(x)
        <5>1. Only(x) /\ req'[x].phase = "base"
          <6> DEFINE p == PlanOf(x, local, Exported, Read(req[x].seen.tree))
          <6>1. Only(x) /\ req'[x] = [req[x] EXCEPT !.phase = "base", !.plan = p, !.tries = 1]
            BY <4>1, BuildFact DEF Inv
          <6>2. req[x] \in Req
            BY DEF Inv, TypeOK
          <6> HIDE DEF p
          <6> QED BY <6>1, <6>2 DEF Req
        <5> QED BY <3>2, <5>1
      <4>2. CASE ReadManifest(x) \/ ReadBase(x)
        BY <3>2, <4>2, ReadManifestFact, ReadBaseFact DEF Inv
      <4>3. CASE ReadHead(x)
        <5>1. Only(x) /\ req'[x].phase \in {"no changes", "update"}
          BY <4>3, ReadHeadFact DEF Inv
        <5> QED BY <3>2, <5>1
      <4>4. CASE QueryOpen(x) \/ CreateBranch(x) \/ UpdateRef(x) \/ Fail(x)
        <5>1. Only(x) /\ req'[x].phase # "created"
          BY <4>4, KeepFact DEF Inv
        <5> QED BY <3>2, <5>1
      <4>5. CASE Lose(x)
        <5>1. Only(x) /\ req'[x].phase \in {req[x].phase, "failed"}
          BY <4>5, KeepFact DEF Inv
        <5> QED BY <3>2, <5>1
      <4>6. CASE OpenPull(x) \/ FindOpen(x)
        <5>1. Only(x)
          BY <4>6, KeepFact DEF Inv
        <5> QED BY <3>2, <4>6, <5>1
      <4> QED BY <3>4, <4>1, <4>2, <4>3, <4>4, <4>5, <4>6 DEF Work
    <3> QED BY <3>1, <3>3, <3>4 DEF Next, Edit, Push, Merge, Close, DeleteBranch
  <2>2. Exists(b) /\ heads[b].at.tree.manifest = req[r].plan.manifest
    BY <2>1 DEF Inv, RequestOK, Working, Exists, OpenPull, FindOpen
  <2>3. OpenPulls(b)' # {}
    <3>0. req \in [Requests -> Req]
      BY DEF Inv, TypeOK
    <3>1. b \in Heads /\ req'[r].head = b
      BY <2>1, KeepFact, ReqType DEF Inv, Kept
    <3>2. CASE pulls' = pulls /\ OpenPulls(b) # {}
      BY <3>1, <3>2 DEF OpenPulls
    <3>3. ASSUME NEW n \in Pulls, pulls' = [pulls EXCEPT ![n] = [head |-> b, open |-> TRUE]]
          PROVE  OpenPulls(b)' # {}
      <4> DEFINE new == [head |-> b, open |-> TRUE]
      <4>1. new \in Pull /\ new.open /\ new.head = b
        BY <3>1 DEF Pull
      <4>2. pulls'[n] = new
        BY <3>3 DEF Inv, TypeOK
      <4>3. n \in OpenPulls(b)'
        <5> HIDE DEF new, b
        <5>1. pulls'[n] # NoPull
          BY <4>1, <4>2, RowsAssumption
        <5> QED BY <3>1, <4>1, <4>2, <5>1 DEF OpenPulls, b
      <4> QED BY <4>3
    <3>4. CASE OpenPull(r)
      <4>1. CASE Goto(r, "find") \/ Goto(r, "failed")
        <5>1. req'[r].phase \in {"find", "failed"}
          BY <3>0, <4>1, GotoFact DEF Phases, Ended
        <5> QED BY <5>1
      <4> QED BY <3>3, <3>4, <4>1 DEF OpenPull
    <3>5. CASE FindOpen(r)
      <4>1. CASE OpenPulls(b) = {}
        <5>1. Goto(r, "failed")
          BY <3>5, <4>1 DEF FindOpen
        <5>2. req'[r].phase = "failed"
          BY <3>0, <5>1, GotoFact DEF Phases, Ended
        <5> QED BY <5>2
      <4>2. CASE OpenPulls(b) # {}
        BY <3>2, <3>5, <4>2 DEF FindOpen, github
      <4> QED BY <4>1, <4>2
    <3> QED BY <2>1, <3>4, <3>5
  <2> QED BY <2>2, <2>3
<1> QED BY <1>1, InvCorrect, PTL DEF Spec, ReportIsTrue
=============================================================================
