---------------------------- MODULE PullRequest -----------------------------
(***************************************************************************)
(* Publishing the macros of a printer as a pull request on GitHub.         *)
(*                                                                         *)
(* A request is a thread that makes some ten HTTP requests.  It looks for  *)
(* an open pull request, reads the published manifest, compares it with    *)
(* the macros, makes a branch, commits to it and opens the pull request;   *)
(* meanwhile other requests run, the macros change, and people work on the *)
(* repository.  Every HTTP request is repeated when its reply does not     *)
(* come, also when GitHub has already done what it asks.                   *)
(*                                                                         *)
(* Only the folder of one printer is modelled.  The text of a macro stands *)
(* for its section, its checksum and its version in the manifest.  Blobs,  *)
(* trees and commits that no branch refers to yet cannot be seen: making   *)
(* them is a part of the step that computes them.                          *)
(***************************************************************************)
EXTENDS Naturals, Sequences, FiniteSets

CONSTANTS Names,       \* names of macros; a file of the repository has the same name
          Texts,       \* texts of macros
          Requests,    \* the times that somebody asks for a pull request
          Heads,       \* names of branches asked for
          Locals,      \* lists of macros the database may hold
          Trees,       \* folders that people may publish
          None,        \* no text, no request
          NoManifest,  \* the folder has no manifest
          NoBranch,    \* there is no branch of a name
          NoPull,      \* there is no pull request of a number
          Attempts,    \* times an HTTP request is tried
          PullBound,   \* bound: pull requests
          MoveBound    \* bound: changes of the database and of the base branch

Text == Texts \cup {None}

\* One row of the list of macros; live: active and not deleted.  An active macro
\* may be callable under another name, so that two live ones have the same name.
Macro == [name : Names, text : Texts, live : BOOLEAN]

\* stamp: the request that last advanced generated_at.
Manifest == [macros : [Names -> Text], stamp : Requests \cup {None}]

Tree == [manifest : Manifest \cup {NoManifest}, files : [Names -> Text]]

ASSUME NoneAssumption   == None \notin Texts \cup Requests /\ NoManifest \notin Manifest
ASSUME DataAssumption   == Locals \subseteq Seq(Macro) /\ Trees \subseteq Tree
ASSUME HeadsAssumption  == Heads # {} /\ IsFiniteSet(Requests)
ASSUME BoundsAssumption == Attempts \in Nat \ {0} /\ PullBound \in Nat /\ MoveBound \in Nat

VARIABLES
  local,    \* the list of macros of the active printer, by name and file
  virtual,  \* whether it is a virtual printer
  base,     \* the commit of the base branch
  heads,    \* heads[b]: the branch b, or NoBranch
  pulls,    \* pulls[n]: pull request n, or NoPull
  req,      \* req[r]: how far request r is
  nextSha,  \* commits are numbered
  moves     \* counts the changes made by others, up to MoveBound

github == <<base, heads, pulls, nextSha>>
vars == <<local, virtual, github, req, moves>>

-----------------------------------------------------------------------------
Shas == 0 .. MoveBound + Cardinality(Requests) + PullBound

Commit == [sha : Shas, tree : Tree]

\* origin: where it was made; by: the request that made it; merged: it is part
\* of the base branch.
Branch == [at : Commit, origin : Commit, by : Requests, merged : BOOLEAN]

Pull == [head : Heads, open : BOOLEAN]

ASSUME RowsAssumption == NoBranch \notin Branch /\ NoPull \notin Pull

Pulls == 1 .. PullBound

\* What one request publishes.  twice is history: two of the macros have one
\* name, and so one file and one entry of the manifest.
Plan == [manifest : Manifest, writes : [Names -> Text], deletes : SUBSET Names,
         twice : BOOLEAN]

Ended == {"created", "existing", "no changes", "failed"}

Phases == {"new", "query", "manifest", "build", "base", "create", "read", "update",
           "open", "find"} \cup Ended

\* seen: the base branch when the manifest was read; from: the commit to go on
\* from; commit: the one to be published.
Req == [phase : Phases, head : Heads, seen : Commit, plan : Plan, from : Commit, commit : Commit,
        tries : 1 .. Attempts]

Busy(r) == req[r].phase \notin Ended \cup {"new"}

EmptyManifest == [macros |-> [n \in Names |-> None], stamp |-> None]
Nothing == [sha |-> 0, tree |-> [manifest |-> NoManifest, files |-> [n \in Names |-> None]]]

New == [phase |-> "new", head |-> CHOOSE b \in Heads : TRUE, seen |-> Nothing,
        plan |-> [manifest |-> EmptyManifest, writes |-> [n \in Names |-> None], deletes |-> {},
                  twice |-> FALSE],
        from |-> Nothing, commit |-> Nothing, tries |-> 1]

Exists(b) == heads[b] # NoBranch

OpenPulls(b) == {n \in Pulls : pulls[n] # NoPull /\ pulls[n].open /\ pulls[n].head = b}

-----------------------------------------------------------------------------
TypeOK == /\ local \in Locals
          /\ virtual \in BOOLEAN
          /\ base \in Commit
          /\ heads \in [Heads -> Branch \cup {NoBranch}]
          /\ pulls \in [Pulls -> Pull \cup {NoPull}]
          /\ req \in [Requests -> Req]
          /\ nextSha \in Nat
          /\ moves \in 0 .. MoveBound

Init == /\ local \in Locals
        /\ virtual \in BOOLEAN
        /\ base \in [sha : {0}, tree : Trees]
        /\ heads = [b \in Heads |-> NoBranch]
        /\ pulls = [n \in Pulls |-> NoPull]
        /\ req = [r \in Requests |-> New]
        /\ nextSha = 1
        /\ moves = 0

-----------------------------------------------------------------------------
(***************************************************************************)
(* What is published: build_online_update_repository_artifacts.            *)
(***************************************************************************)

\* The places in the list of what is published; a virtual printer publishes
\* macros in any state.
Exported == {i \in DOMAIN local : virtual \/ local[i].live}

\* The text of the last macro called n among those of list L at the places I.
Last(L, I, n) ==
  LET at == {i \in I : L[i].name = n}
  IN  IF at = {} THEN None ELSE L[CHOOSE i \in at : \A j \in at : j <= i].text

\* Mutant of Changed: what is published once is not published again.
ChangedIfNew(L, I, m) == {i \in I : m.macros[L[i].name] = None}

\* Those whose checksum differs from the one in manifest m.
Changed(L, I, m) == {i \in I : m.macros[L[i].name] # L[i].text}

PlanOf(r, L, I, m) ==
  LET entries == [n \in Names |-> Last(L, I, n)]
      dropped == {n \in Names : m.macros[n] # None /\ entries[n] = None}
  IN  [manifest |-> [macros |-> entries,
                     stamp  |-> IF Changed(L, I, m) = {} /\ dropped = {} THEN m.stamp ELSE r],
       writes   |-> [n \in Names |-> Last(L, Changed(L, I, m), n)],
       deletes  |-> IF virtual THEN {} ELSE dropped,
       twice    |-> \E i, j \in I : i # j /\ L[i].name = L[j].name]

\* commit_changed_text_files: the files of tree t with plan p carried out.
Applied(t, p) ==
  [manifest |-> p.manifest,
   files    |-> [n \in Names |-> IF p.writes[n] # None THEN p.writes[n]
                                 ELSE IF n \in p.deletes THEN None ELSE t.files[n]]]

-----------------------------------------------------------------------------
(***************************************************************************)
(* One request: create_online_update_pull_request.                         *)
(***************************************************************************)
Step(r, q) == req' = [req EXCEPT ![r] = [q EXCEPT !.tries = 1]]

Goto(r, phase) == Step(r, [req[r] EXCEPT !.phase = phase])

\* Mutant of Again: no count is kept, and the request begins anew.
AgainFromStart(r) == Goto(r, "query")

\* Mutant of Again: once too often.
AgainAndAgain(r) == IF req[r].tries <= Attempts
                    THEN req' = [req EXCEPT ![r].tries = @ + 1]
                    ELSE Goto(r, "failed")

\* The HTTP request is tried again, at most Attempts times in all.
Again(r) == IF req[r].tries < Attempts
            THEN req' = [req EXCEPT ![r].tries = @ + 1]
            ELSE Goto(r, "failed")

Start(r, b) ==
  /\ req[r].phase = "new"
  /\ Step(r, [New EXCEPT !.phase = "query", !.head = b])
  /\ UNCHANGED <<local, virtual, github, moves>>

\* get_open_pull_request_for_head
QueryOpen(r) ==
  /\ req[r].phase = "query"
  /\ Goto(r, IF OpenPulls(req[r].head) # {} THEN "existing" ELSE "manifest")
  /\ UNCHANGED <<local, virtual, github, moves>>

\* load_json_file_from_branch
ReadManifest(r) ==
  /\ req[r].phase = "manifest"
  /\ Step(r, [req[r] EXCEPT !.phase = "build", !.seen = base])
  /\ UNCHANGED <<local, virtual, github, moves>>

Build(r) ==
  LET read == req[r].seen.tree.manifest
      m    == IF read = NoManifest THEN EmptyManifest ELSE read
  IN  /\ req[r].phase = "build"
      /\ Step(r, [req[r] EXCEPT !.phase = "base", !.plan = PlanOf(r, local, Exported, m)])
      /\ UNCHANGED <<local, virtual, github, moves>>

\* create_branch asks for the base branch again,
ReadBase(r) ==
  /\ req[r].phase = "base"
  /\ Step(r, [req[r] EXCEPT !.phase = "create", !.from = base])
  /\ UNCHANGED <<local, virtual, github, moves>>

\* Mutant of CreateBranch: a branch that is there already is used.
CreateOrUseBranch(r) ==
  LET b == req[r].head
  IN  /\ req[r].phase = "create"
      /\ \/ /\ Exists(b)
            /\ Goto(r, "read")
            /\ UNCHANGED heads
         \/ /\ ~Exists(b)
            /\ heads' = [heads EXCEPT ![b] = [at |-> req[r].from, origin |-> req[r].from,
                                              by |-> r, merged |-> FALSE]]
            /\ Goto(r, "read") \/ Again(r)
      /\ UNCHANGED <<local, virtual, base, pulls, nextSha, moves>>

\* and a branch that is there already ends the request, also when this request
\* has made it and the reply was lost.
CreateBranch(r) ==
  LET b == req[r].head
  IN  /\ req[r].phase = "create"
      /\ \/ /\ Exists(b)
            /\ Goto(r, "failed")
            /\ UNCHANGED heads
         \/ /\ ~Exists(b)
            /\ heads' = [heads EXCEPT ![b] = [at |-> req[r].from, origin |-> req[r].from,
                                              by |-> r, merged |-> FALSE]]
            /\ Goto(r, "read") \/ Again(r)
      /\ UNCHANGED <<local, virtual, base, pulls, nextSha, moves>>

\* The head of commit_changed_text_files, up to _create_commit.
ReadHead(r) ==
  LET b    == req[r].head
      tree == Applied(heads[b].at.tree, req[r].plan)
  IN  /\ req[r].phase = "read"
      /\ Exists(b)
      /\ nextSha \in Shas
      /\ \/ /\ tree = heads[b].at.tree
            /\ Goto(r, "no changes")
            /\ UNCHANGED nextSha
         \/ /\ tree # heads[b].at.tree
            /\ Step(r, [req[r] EXCEPT !.phase = "update", !.from = heads[b].at,
                                      !.commit = [sha |-> nextSha, tree |-> tree]])
            /\ nextSha' = nextSha + 1
      /\ UNCHANGED <<local, virtual, base, heads, pulls, moves>>

\* _update_branch_ref: a fast-forward, or nothing when it is there already.
\* GitHub refuses anything else: Fail.
UpdateRef(r) ==
  LET b == req[r].head
  IN  /\ req[r].phase = "update"
      /\ Exists(b) /\ heads[b].at \in {req[r].from, req[r].commit}
      /\ heads' = [heads EXCEPT ![b].at = req[r].commit]
      /\ Goto(r, "open") \/ Again(r)
      /\ UNCHANGED <<local, virtual, base, pulls, nextSha, moves>>

\* create_pull_request
OpenPull(r) ==
  LET b == req[r].head
  IN  /\ req[r].phase = "open"
      /\ \/ /\ Exists(b) /\ ~heads[b].merged /\ OpenPulls(b) = {}
            /\ \E n \in Pulls : /\ pulls[n] = NoPull
                                /\ \A k \in 1 .. n - 1 : pulls[k] # NoPull
                                /\ pulls' = [pulls EXCEPT ![n] = [head |-> b, open |-> TRUE]]
            /\ Goto(r, "created") \/ Again(r)
         \/ /\ OpenPulls(b) # {}
            /\ Goto(r, "find")
            /\ UNCHANGED pulls
         \/ /\ ~Exists(b) \/ heads[b].merged
            /\ Goto(r, "failed")
            /\ UNCHANGED pulls
      /\ UNCHANGED <<local, virtual, base, heads, nextSha, moves>>

\* "A pull request already exists": it is looked up and reported.
FindOpen(r) ==
  /\ req[r].phase = "find"
  /\ Goto(r, IF OpenPulls(req[r].head) # {} THEN "created" ELSE "failed")
  /\ UNCHANGED <<local, virtual, github, moves>>

\* An HTTP request does not get through, or the reply to one that only reads is lost.
Lose(r) ==
  /\ Busy(r) /\ req[r].phase # "build"
  /\ Again(r)
  /\ UNCHANGED <<local, virtual, github, moves>>

\* GitHub refuses, the database does not open, or the process ends.
Fail(r) ==
  /\ Busy(r)
  /\ Goto(r, "failed")
  /\ UNCHANGED <<local, virtual, github, moves>>

-----------------------------------------------------------------------------
(***************************************************************************)
(* The others.                                                             *)
(***************************************************************************)

\* Macros are edited, activated, scanned.
Edit == /\ moves < MoveBound
        /\ moves' = moves + 1
        /\ \E L \in Locals \ {local} : local' = L
        /\ UNCHANGED <<virtual, github, req>>

\* People push to the base branch,
Push == /\ moves < MoveBound /\ nextSha \in Shas
        /\ moves' = moves + 1
        /\ \E t \in Trees : base' = [sha |-> nextSha, tree |-> t]
        /\ nextSha' = nextSha + 1
        /\ UNCHANGED <<local, virtual, heads, pulls, req>>

\* merge a pull request that is up to date,
Merge(n) ==
  /\ pulls[n] # NoPull /\ pulls[n].open /\ nextSha \in Shas
  /\ LET b == pulls[n].head
     IN  /\ Exists(b) /\ heads[b].origin = base
         /\ base' = [sha |-> nextSha, tree |-> heads[b].at.tree]
         /\ heads' = [heads EXCEPT ![b].merged = TRUE]
  /\ pulls' = [pulls EXCEPT ![n].open = FALSE]
  /\ nextSha' = nextSha + 1
  /\ UNCHANGED <<local, virtual, req, moves>>

\* close one,
Close(n) ==
  /\ pulls[n] # NoPull /\ pulls[n].open
  /\ pulls' = [pulls EXCEPT ![n].open = FALSE]
  /\ UNCHANGED <<local, virtual, base, heads, req, nextSha, moves>>

\* and delete a branch, which no request works on; its pull request is closed.
DeleteBranch(b) ==
  /\ Exists(b)
  /\ \A r \in Requests : Busy(r) => req[r].head # b
  /\ heads' = [heads EXCEPT ![b] = NoBranch]
  /\ pulls' = [n \in Pulls |-> IF n \in OpenPulls(b) THEN [pulls[n] EXCEPT !.open = FALSE]
                               ELSE pulls[n]]
  /\ UNCHANGED <<local, virtual, base, req, nextSha, moves>>

-----------------------------------------------------------------------------
Work(r) == \/ QueryOpen(r) \/ ReadManifest(r) \/ Build(r) \/ ReadBase(r) \/ CreateBranch(r)
           \/ ReadHead(r) \/ UpdateRef(r) \/ OpenPull(r) \/ FindOpen(r) \/ Lose(r) \/ Fail(r)

Next == \/ \E r \in Requests : Work(r) \/ \E b \in Heads : Start(r, b)
        \/ Edit \/ Push
        \/ \E n \in Pulls : Merge(n) \/ Close(n)
        \/ \E b \in Heads : DeleteBranch(b)

Spec == Init /\ [][Next]_vars

\* The thread of a request goes on.
FairSpec == Spec /\ \A r \in Requests : WF_vars(Work(r))

-----------------------------------------------------------------------------
(***************************************************************************)
(* Properties.                                                             *)
(***************************************************************************)
Consistent(t) ==
  t.manifest # NoManifest =>
    \A n \in Names : t.manifest.macros[n] # None => t.files[n] = t.manifest.macros[n]

\* The base branch has not moved since the manifest was read when the branch is made of it.
Steady(b) == req[heads[b].by].seen = heads[b].origin

\* Wherever a request fails, stops or repeats itself, the branch it leaves is
\* whole: the manifest says of every file what is in it, as the base branch did.
\* Two cases are left out: the base branch moved in the middle, and two macros of
\* one name are published (of a virtual printer, or one that overrides the other
\* with rename_existing), where the changed ones alone decide about the file.
BranchesWhole ==
  \A b \in Heads :
    (/\ Exists(b)
     /\ Steady(b) /\ ~req[heads[b].by].plan.twice
     /\ Consistent(heads[b].origin.tree)) => Consistent(heads[b].at.tree)

\* Requests for the same branch never mix: a branch moves at most once, by a
\* commit of the request that made it.
OwnBranchOnly ==
  [][\A b \in Heads : Exists(b) /\ heads'[b] # NoBranch /\ heads'[b].at # heads[b].at =>
        /\ heads[b].at = heads[b].origin
        /\ req'[heads[b].by] # req[heads[b].by]]_vars

\* When a pull request is reported as created, its branch holds the macros
\* that the request has collected, under one manifest, and was made by it.
ReportIsTrue ==
  [][\A r \in Requests : req[r].phase # "created" /\ req'[r].phase = "created" =>
        LET b == req[r].head
        IN  /\ Exists(b) /\ OpenPulls(b)' # {}
            /\ heads[b].at.tree.manifest = req[r].plan.manifest]_vars

\* Every request ends, and says how.
Finishes == \A r \in Requests : Busy(r) ~> req[r].phase \in Ended

=============================================================================
