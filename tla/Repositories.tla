----------------------------- MODULE Repositories -----------------------------
(***************************************************************************)
(* Whose repositories the service watches and publishes: the handlers of   *)
(* installation, installation_repositories and of job and run events       *)
(* (_ensure_repo) in backend/app/handlers.py, the upserts they make in     *)
(* backend/app/upserts.py, re-evaluation beside them, and the discovery of *)
(* observed repositories in backend/app/discover.py, observe.py, ops.py.   *)
(*                                                                         *)
(* GitHub owns the truth and announces each change with one delivery.  A   *)
(* delivery is handled in one transaction.  Live ones go before copies     *)
(* made by a re-evaluation and older ones before younger ones, unless the  *)
(* queue disturbs the order (Reorder): retries, two workers, a batch.      *)
(***************************************************************************)
EXTENDS Naturals, Sequences, FiniteSets

CONSTANTS Installation,  \* installation ids
          Repo,          \* repository ids
          Private,       \* the private repositories
          Reorder,       \* whether the queue may disturb the order
          Scouts,        \* discovery passes there can be at a time
          Wanted,        \* bound: candidates of a band
          EventLimit,    \* bound: deliveries GitHub makes
          ReplayLimit,   \* bound: re-evaluations
          None

ASSUME ConstantsAssumption ==
  /\ Private \subseteq Repo
  /\ {Reorder} \subseteq BOOLEAN
  /\ {Wanted, EventLimit, ReplayLimit} \subseteq Nat
  /\ None \notin Installation \cup {"installed", "observed"}
  /\ \A s, d \in BOOLEAN : None # [suspended |-> s, deleted |-> d]

VARIABLES home,       \* GitHub: the installation a repository belongs to
          app,        \* GitHub: the state of an installation
          log,        \* the deliveries in the order GitHub made them
          live,       \* those that are still to be handled
          history,    \* those a re-evaluation is still to handle again
          replays,    \* re-evaluations so far
          install,    \* table installations
          repo,       \* table repositories
          pass,       \* pass[s]: what discovery pass s is doing
          ordered,    \* history: no delivery was handled out of order
          admissions  \* history: passes that admitted a repository, up to 2

github == <<home, app, log>>
queue  == <<live, history, replays>>
tables == <<install, repo>>
vars   == <<github, queue, tables, pass, ordered, admissions>>

Absent == [source |-> None, inst |-> None, active |-> FALSE, private |-> FALSE]

Resting == [at |-> "idle", names |-> <<>>, recorded |-> {}]

Init ==
  /\ home = [r \in Repo |-> None]
  /\ app = [i \in Installation |-> "none"]
  /\ log = <<>> /\ live = {} /\ history = {} /\ replays = 0
  /\ install = [i \in Installation |-> None]
  /\ repo = [r \in Repo |-> Absent]
  /\ pass = [s \in Scouts |-> Resting]
  /\ ordered = TRUE
  /\ admissions = [r \in Repo |-> 0]
-------------------------------------------------------------------------------
(* External: GitHub changes, and says so.  The payload of an installation  *)
(* event carries whether it is suspended.                                  *)
Deliver(event, i, R) ==
  /\ Len(log) < EventLimit
  /\ log' = Append(log, [event |-> event, inst |-> i, repos |-> R,
                         suspended |-> app[i] = "suspended"])
  /\ live' = live \cup {Len(log) + 1}
  /\ UNCHANGED <<history, replays, tables, pass, ordered, admissions>>

Homes(i) == {r \in Repo : home[r] = i}

MoveTo(R, i) == home' = [r \in Repo |-> IF r \in R THEN i ELSE home[r]]

BecomeApp(i, state) == app' = [app EXCEPT ![i] = state]

GitHubInstalls(i, R) ==
  /\ app[i] = "none" /\ R # {} /\ R \subseteq Homes(None)
  /\ BecomeApp(i, "live") /\ MoveTo(R, i)
  /\ Deliver("created", i, R)

GitHubUninstalls(i) ==
  /\ app[i] \in {"live", "suspended"}
  /\ BecomeApp(i, "gone") /\ MoveTo(Homes(i), None)
  /\ Deliver("deleted", i, Homes(i))

GitHubSuspends(i) ==
  /\ app[i] = "live"
  /\ BecomeApp(i, "suspended") /\ UNCHANGED home
  /\ Deliver("suspend", i, {})

GitHubUnsuspends(i) ==
  /\ app[i] = "suspended"
  /\ BecomeApp(i, "live") /\ UNCHANGED home
  /\ Deliver("unsuspend", i, {})

GitHubAdds(i, r) ==
  /\ app[i] = "live" /\ home[r] = None
  /\ MoveTo({r}, i) /\ UNCHANGED app
  /\ Deliver("added", i, {r})

GitHubRemoves(i, r) ==
  /\ app[i] = "live" /\ home[r] = i
  /\ MoveTo({r}, None) /\ UNCHANGED app
  /\ Deliver("removed", i, {r})

GitHubRunsJob(i, r) ==
  /\ app[i] = "live" /\ home[r] = i
  /\ UNCHANGED <<home, app>>
  /\ Deliver("job", i, {r})
-------------------------------------------------------------------------------
(* upsert_installation: a stub if there is none, the lifecycle untouched.  *)
Stub(table, i) ==
  IF table[i] = None
  THEN [table EXCEPT ![i] = [suspended |-> FALSE, deleted |-> FALSE]]
  ELSE table

Observed == [source |-> "observed", inst |-> None, active |-> TRUE, private |-> FALSE]

(* Mutant: a crawl write takes the row, whoever has it.                    *)
UpsertObserved_Claims(table, R) ==
  [r \in Repo |-> IF r \in R THEN Observed ELSE table[r]]

(* upsert_repository, source "observed": it claims no row that is there.   *)
UpsertObserved(table, R) ==
  [r \in Repo |-> IF r \notin R THEN table[r]
                  ELSE IF table[r] = Absent THEN Observed
                  ELSE [table[r] EXCEPT !.private = FALSE]]

(* Mutant: the claim does not reach source.                                *)
UpsertInstalled_KeepsSource(table, R, i, announced) ==
  [r \in Repo |->
     IF r \notin R THEN table[r]
     ELSE [source  |-> IF table[r] = Absent THEN "installed" ELSE table[r].source,
           inst    |-> i,
           active  |-> announced \/ table[r] = Absent \/ table[r].active,
           private |-> r \in Private]]

(* Mutant: any payload of a repository makes it active.                    *)
UpsertInstalled_Revives(table, R, i, announced) ==
  [r \in Repo |->
     IF r \notin R THEN table[r]
     ELSE [source |-> "installed", inst |-> i, active |-> TRUE,
           private |-> r \in Private]]

(* upsert_repository, source "installed", with active=True if announced    *)
(* and else with active=None.                                              *)
UpsertInstalled(table, R, i, announced) ==
  [r \in Repo |->
     IF r \notin R THEN table[r]
     ELSE [source  |-> "installed",
           inst    |-> i,
           active  |-> announced \/ table[r] = Absent \/ table[r].active,
           private |-> r \in Private]]

(* set_repositories_active(active=False)                                   *)
Deactivate(table, R) ==
  [r \in Repo |-> IF r \in R THEN [table[r] EXCEPT !.active = FALSE] ELSE table[r]]

(* set_installation_repositories_active(active=False)                      *)
DeactivateAllOf(table, i) == Deactivate(table, {r \in Repo : table[r].inst = i})

(* set_installation_lifecycle: both columns outright.                      *)
Lifecycle(table, d) ==
  [table EXCEPT ![d.inst] =
     [suspended |-> d.event = "suspend" \/ (d.suspended /\ d.event # "unsuspend"),
      deleted   |-> d.event = "deleted"]]

HandleInstallation(d) ==
  /\ d.event \in {"created", "deleted", "suspend", "unsuspend"}
  /\ install' = Lifecycle(Stub(install, d.inst), d)
  /\ repo' = IF d.event = "deleted"
             THEN DeactivateAllOf(repo, d.inst)
             ELSE UpsertInstalled(repo, d.repos, d.inst, TRUE)

HandleInstallationRepositories(d) ==
  /\ d.event \in {"added", "removed"}
  /\ install' = Stub(install, d.inst)
  /\ repo' = IF d.event = "added"
             THEN UpsertInstalled(repo, d.repos, d.inst, TRUE)
             ELSE Deactivate(repo, d.repos)

(* _ensure_repo, for a job or a run event; its facts are in Facts.         *)
EnsureRepo(d) ==
  /\ d.event = "job"
  /\ install' = Stub(install, d.inst)
  /\ repo' = UpsertInstalled(repo, d.repos, d.inst, FALSE)
-------------------------------------------------------------------------------
(* Rows that an open discovery pass has written and locked.                *)
Locked == UNION {pass[s].recorded : s \in Scouts}

Touched(d) ==
  IF d.event = "deleted" THEN {r \in Repo : repo[r].inst = d.inst} ELSE d.repos

Handle(d) ==
  /\ Touched(d) \cap Locked = {}
  /\ HandleInstallation(d) \/ HandleInstallationRepositories(d) \/ EnsureRepo(d)
  /\ UNCHANGED <<github, replays, pass, admissions>>

Oldest(S, k) == \A j \in S : k <= j

(* In order is what comes before every younger change of an installation,  *)
(* and a late job event of the installation the row already names.         *)
Undisturbing(d) == d.event = "job" /\ \A r \in d.repos : repo[r].inst = d.inst

InOrder(k, queued) ==
  Undisturbing(log[k]) \/ \A j \in DOMAIN log \ queued : j > k => log[j].event = "job"

(* A live delivery.  It stays in the queue when the worker's COMMIT is not *)
(* acknowledged.                                                           *)
HandleLive(k, acknowledged) ==
  /\ k \in live
  /\ Reorder \/ Oldest(live, k)
  /\ Handle(log[k])
  /\ live' = IF acknowledged THEN live \ {k} ELSE live
  /\ ordered' = (ordered /\ InOrder(k, live) /\ (history = {} \/ Undisturbing(log[k])))
  /\ UNCHANGED history

(* A copy of one, at the priority of history.                              *)
HandleHistory(k) ==
  /\ k \in history
  /\ Reorder \/ (Oldest(history, k) /\ live = {})
  /\ Handle(log[k])
  /\ history' = history \ {k}
  /\ ordered' = (ordered /\ InOrder(k, history) /\ (live = {} \/ Undisturbing(log[k])))
  /\ UNCHANGED live

(* enqueue_reevaluation: every delivery so far, the pending ones included. *)
Reevaluate ==
  /\ replays < ReplayLimit /\ log # <<>> /\ history = {}
  /\ history' = DOMAIN log
  /\ replays' = replays + 1
  /\ UNCHANGED <<github, live, tables, pass, ordered, admissions>>
-------------------------------------------------------------------------------
Stored == {r \in Repo : repo[r] # Absent}

(* External: what search lists.  A repository that is pushed to between    *)
(* two pages is listed twice.                                              *)
Listings(skip) == UNION {[1 .. n -> Repo \ skip] : n \in 0 .. Wanted}

Put(s, record) == pass' = [pass EXCEPT ![s] = record]

(* Mutant: the pass starts from an empty list of stored repositories.      *)
Search_SkipsNone(s) ==
  /\ pass[s].at = "idle"
  /\ \E names \in Listings({}) :
       Put(s, [at |-> "screening", names |-> names, recorded |-> {}])
  /\ UNCHANGED <<github, queue, tables, ordered, admissions>>

(* stored_repo_keys and search_band.                                       *)
Search(s) ==
  /\ pass[s].at = "idle"
  /\ \E names \in Listings(Stored) :
       Put(s, [at |-> "screening", names |-> names, recorded |-> {}])
  /\ UNCHANGED <<github, queue, tables, ordered, admissions>>

(* What the token of the observation installation may read.                *)
Readable(r) == r \notin Private

(* Mutant: the verdict does not look at private.                           *)
MayAdmit_Private(r) == TRUE

(* assess: what else GitHub says of the repository is left open.           *)
MayAdmit(r) == Readable(r)

(* screen, for the next name, and _record, which locks the row until the   *)
(* band commits.                                                           *)
Screen(s) ==
  LET r == Head(pass[s].names)
  IN /\ pass[s].at = "screening" /\ pass[s].names # <<>>
     /\ \E admit \in BOOLEAN :
          /\ admit => MayAdmit(r) /\ \A t \in Scouts \ {s} : r \notin pass[t].recorded
          /\ Put(s, [pass[s] EXCEPT !.names = Tail(@),
                                    !.recorded = IF admit THEN @ \cup {r} ELSE @])
     /\ UNCHANGED <<github, queue, tables, ordered, admissions>>

(* The band commits, inside the handler: a worker that dies after this     *)
(* leaves a row that searches the band again.                              *)
CommitBand(s) ==
  /\ pass[s].at = "screening" /\ pass[s].names = <<>>
  /\ repo' = UpsertObserved(repo, pass[s].recorded)
  /\ admissions' = [r \in Repo |->
       IF r \in pass[s].recorded /\ admissions[r] < 2 THEN admissions[r] + 1
       ELSE admissions[r]]
  /\ Put(s, Resting)
  /\ UNCHANGED <<github, queue, install, ordered>>

(* The worker dies or the row fails before the commit.                     *)
AbandonBand(s) ==
  /\ pass[s].at # "idle"
  /\ Put(s, Resting)
  /\ UNCHANGED <<github, queue, tables, ordered, admissions>>

GitHub ==
  \E i \in Installation :
    \/ \E R \in SUBSET Repo : GitHubInstalls(i, R)
    \/ GitHubUninstalls(i) \/ GitHubSuspends(i) \/ GitHubUnsuspends(i)
    \/ \E r \in Repo : GitHubAdds(i, r) \/ GitHubRemoves(i, r) \/ GitHubRunsJob(i, r)

Next ==
  \/ GitHub
  \/ \E k \in DOMAIN log : \/ \E acknowledged \in BOOLEAN : HandleLive(k, acknowledged)
                           \/ HandleHistory(k)
  \/ Reevaluate
  \/ \E s \in Scouts : Search(s) \/ Screen(s) \/ CommitBand(s) \/ AbandonBand(s)

Spec == Init /\ [][Next]_vars
-------------------------------------------------------------------------------
Delivery == [event : {"created", "deleted", "suspend", "unsuspend", "added",
                      "removed", "job"},
             inst : Installation, repos : SUBSET Repo, suspended : BOOLEAN]

RepoRow ==
  {Absent} \cup [source : {"installed"}, inst : Installation,
                 active : BOOLEAN, private : BOOLEAN]
           \cup [source : {"observed"}, inst : {None},
                 active : BOOLEAN, private : {FALSE}]

TypeOK ==
  /\ home \in [Repo -> Installation \cup {None}]
  /\ app \in [Installation -> {"none", "live", "suspended", "gone"}]
  /\ log \in Seq(Delivery)
  /\ live \subseteq DOMAIN log /\ history \subseteq DOMAIN log
  /\ replays \in 0 .. ReplayLimit
  /\ install \in [Installation -> {None} \cup [suspended : BOOLEAN, deleted : BOOLEAN]]
  /\ repo \in [Repo -> RepoRow]
  /\ pass \in [Scouts -> [at : {"idle", "screening"}, names : Seq(Repo),
                          recorded : SUBSET Repo]]
  /\ ordered \in BOOLEAN
  /\ admissions \in [Repo -> 0 .. 2]

(* Whatever order crawl and deliveries write a row in, a repository nobody *)
(* installed is public, and an installed one names an installation that is *)
(* stored, so that neither the foreign key nor the check constraint        *)
(* ck_repositories_source_installation ever refuses a delivery.            *)
OwnedOrObserved ==
  \A r \in Stored :
    IF repo[r].source = "installed" THEN install[repo[r].inst] # None
    ELSE r \notin Private

(* An installed repository is never again a repository nobody owns, also   *)
(* when a pass admitted it that began before it was installed.             *)
ClaimIsKept ==
  [][\A r \in Repo : repo[r].source = "installed" => repo'[r].source = "installed"]_vars

(* The filter of public_flaky_jobs: what the public board may show.        *)
Published == {r \in Repo : repo[r] # Absent /\ ~repo[r].private /\ repo[r].active}

(* Handled in order, with repeats, with late job events of the same        *)
(* installation, and with re-evaluations while GitHub is quiet, deliveries *)
(* leave the tables as GitHub is: what is installed is active under its    *)
(* installation, what is not is not published as installed.                *)
Settled == ordered /\ live = {} /\ history = {}

InstallationsAgree ==
  \A i \in Installation :
    app[i] # "none" => /\ install[i].deleted = (app[i] = "gone")
                       /\ app[i] # "gone" => install[i].suspended = (app[i] = "suspended")

RepositoriesAgree ==
  \A r \in Repo :
    IF home[r] = None
    THEN repo[r].source = "installed" => ~repo[r].active
    ELSE repo[r].source = "installed" /\ repo[r].inst = home[r] /\ repo[r].active

Converges == Settled => InstallationsAgree /\ RepositoriesAgree

(* One pass at a time admits a repository once, although its row is run    *)
(* again after a crash on either side of the commit.                       *)
AdmittedOnce == \A r \in Repo : admissions[r] <= 1

(* Once everything is handled, nothing is published of a repository whose  *)
(* owner has removed it or uninstalled the app.                            *)
UninstallHolds ==
  live = {} /\ history = {} =>
    \A r \in Published : repo[r].source = "installed" => home[r] # None
===============================================================================
