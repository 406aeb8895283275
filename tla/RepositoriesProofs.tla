-------------------------- MODULE RepositoriesProofs --------------------------
(***************************************************************************)
(* Proofs about installed and observed repositories, for any installations *)
(* and repositories, any order of the deliveries, any re-evaluations and   *)
(* any discovery passes beside them.                                       *)
(***************************************************************************)
EXTENDS Repositories, TLAPS

InstallRow == {None} \cup [suspended : BOOLEAN, deleted : BOOLEAN]

(* OwnedOrObserved, of any two tables.                                     *)
Owned(table, installs) ==
  \A r \in Repo : table[r] # Absent =>
    IF table[r].source = "installed" THEN installs[table[r].inst] # None
    ELSE r \notin Private

(* What a write never undoes: that a row is there, and that it is claimed. *)
KeepsRows(table, new) ==
  \A r \in Repo : /\ table[r] # Absent => new[r] # Absent
                  /\ table[r].source = "installed" => new[r].source = "installed"

(* What a pass has recorded has been screened.                             *)
Screened == \A s \in Scouts : pass[s].recorded \cap Private = {}

IInv == TypeOK /\ OwnedOrObserved /\ Screened
-------------------------------------------------------------------------------
LEMMA OwnedIsOwned == OwnedOrObserved <=> Owned(repo, install)
  BY DEF OwnedOrObserved, Owned, Stored

(* The rows that a write can make.                                         *)
Installed(i) ==
  [source : {"installed"}, inst : {i}, active : BOOLEAN, private : BOOLEAN]

Crawled == [source : {"observed"}, inst : {None}, active : BOOLEAN, private : {FALSE}]

(* The columns that a write changes of a row that is there.                *)
Inactive(row) == [row EXCEPT !.active = FALSE]
Public(row)   == [row EXCEPT !.private = FALSE]

LEMMA InstalledRows ==
  ASSUME NEW i \in Installation, NEW row \in Installed(i)
  PROVE  /\ row \in RepoRow /\ row # Absent
         /\ row.source = "installed" /\ row.inst = i
         /\ Inactive(row) \in Installed(i)
         /\ Public(row) \in Installed(i)
<1>1. row \in RepoRow
  BY DEF Installed, RepoRow
<1>2. row.source = "installed" /\ row.inst = i
  BY DEF Installed
<1>3. row # Absent
  BY <1>2, ConstantsAssumption DEF ConstantsAssumption, Absent
<1>4. /\ Inactive(row) \in Installed(i)
      /\ Public(row) \in Installed(i)
  BY DEF Installed, Inactive, Public
<1> QED
  BY <1>1, <1>2, <1>3, <1>4

LEMMA CrawledRows ==
  ASSUME NEW row \in Crawled
  PROVE  /\ row \in RepoRow /\ row # Absent
         /\ row.source = "observed" /\ row.inst = None
         /\ Inactive(row) \in Crawled
         /\ Public(row) \in Crawled
<1>1. row \in RepoRow
  BY DEF Crawled, RepoRow
<1>2. row.source = "observed" /\ row.inst = None
  BY DEF Crawled
<1>3. row # Absent
  BY <1>2, ConstantsAssumption DEF ConstantsAssumption, Absent
<1>4. /\ Inactive(row) \in Crawled
      /\ Public(row) \in Crawled
  BY DEF Crawled, Inactive, Public
<1> QED
  BY <1>1, <1>2, <1>3, <1>4

LEMMA AbsentRows == Absent \in RepoRow /\ Absent.source \notin {"installed", "observed"}
  BY ConstantsAssumption DEF ConstantsAssumption, RepoRow, Absent

LEMMA AbsentStays == ASSUME NEW row, row = Absent, NEW new, new = Inactive(row)
                     PROVE  new = Absent
<1>1. new = [row EXCEPT !.active = FALSE]
  BY DEF Inactive
<1> QED
  BY <1>1 DEF Absent

LEMMA RowCases ==
  ASSUME NEW row \in RepoRow
  PROVE  row = Absent \/ (\E i \in Installation : row \in Installed(i)) \/ row \in Crawled
  BY DEF RepoRow, Installed, Crawled

LEMMA LifecycleRows ==
  ASSUME NEW row \in [suspended : BOOLEAN, deleted : BOOLEAN]
  PROVE  row \in InstallRow /\ row # None
  BY ConstantsAssumption DEF ConstantsAssumption, InstallRow
-------------------------------------------------------------------------------
(* The tables of handlers and crawl: what each write leaves true.          *)
LEMMA StubKeeps ==
  ASSUME NEW table \in [Installation -> InstallRow], NEW i \in Installation
  PROVE  /\ Stub(table, i) \in [Installation -> InstallRow]
         /\ Stub(table, i)[i] # None
         /\ \A j \in Installation : table[j] # None => Stub(table, i)[j] # None
<1> DEFINE row == [suspended |-> FALSE, deleted |-> FALSE]
<1>1. row \in [suspended : BOOLEAN, deleted : BOOLEAN]
  OBVIOUS
<1>2. Stub(table, i) = IF table[i] = None THEN [table EXCEPT ![i] = row] ELSE table
  BY DEF Stub
<1> HIDE DEF row
<1> QED
  BY <1>1, <1>2, LifecycleRows

LEMMA LifecycleKeeps ==
  ASSUME NEW table \in [Installation -> InstallRow], NEW d \in Delivery
  PROVE  /\ Lifecycle(table, d) \in [Installation -> InstallRow]
         /\ \A j \in Installation : table[j] # None => Lifecycle(table, d)[j] # None
<1> DEFINE row == [suspended |-> d.event = "suspend" \/ (d.suspended /\ d.event # "unsuspend"),
                   deleted   |-> d.event = "deleted"]
<1>1. d.inst \in Installation
  BY DEF Delivery
<1>2. row \in [suspended : BOOLEAN, deleted : BOOLEAN]
  BY DEF Delivery
<1>3. Lifecycle(table, d) = [table EXCEPT ![d.inst] = row]
  BY DEF Lifecycle
<1> HIDE DEF row
<1> QED
  BY <1>1, <1>2, <1>3, LifecycleRows

LEMMA UpsertInstalledKeeps ==
  ASSUME NEW table \in [Repo -> RepoRow], NEW installs, NEW R \in SUBSET Repo,
         NEW i \in Installation, NEW announced \in BOOLEAN,
         Owned(table, installs), installs[i] # None
  PROVE  LET new == UpsertInstalled(table, R, i, announced)
         IN new \in [Repo -> RepoRow] /\ Owned(new, installs) /\ KeepsRows(table, new)
<1> DEFINE new == UpsertInstalled(table, R, i, announced)
<1>1. ASSUME NEW r \in Repo, r \notin R PROVE new[r] = table[r]
  BY <1>1 DEF UpsertInstalled
<1>2. ASSUME NEW r \in R
      PROVE  new[r] \in RepoRow /\ new[r] # Absent
             /\ new[r].source = "installed" /\ new[r].inst = i
  <2>1. new[r] = [source |-> "installed", inst |-> i,
                  active |-> announced \/ table[r] = Absent \/ table[r].active,
                  private |-> r \in Private]
    BY <1>2 DEF UpsertInstalled
  <2> HIDE DEF new
  <2>2. (announced \/ table[r] = Absent \/ table[r].active) \in BOOLEAN
    OBVIOUS
  <2>3. new[r] \in Installed(i)
    BY <2>1, <2>2 DEF Installed
  <2> QED
    BY <2>3, InstalledRows
<1>3. new = [r \in Repo |-> new[r]]
  BY DEF UpsertInstalled
<1> HIDE DEF new
<1>4. \A r \in Repo : new[r] \in RepoRow
  BY <1>1, <1>2
<1>5. new \in [Repo -> RepoRow]
  BY <1>3, <1>4
<1>6. Owned(new, installs) /\ KeepsRows(table, new)
  BY <1>1, <1>2 DEF Owned, KeepsRows
<1> QED
  BY <1>5, <1>6 DEF new

LEMMA DeactivateKeeps ==
  ASSUME NEW table \in [Repo -> RepoRow], NEW installs, NEW R \in SUBSET Repo,
         Owned(table, installs)
  PROVE  LET new == Deactivate(table, R)
         IN new \in [Repo -> RepoRow] /\ Owned(new, installs) /\ KeepsRows(table, new)
<1> DEFINE new == Deactivate(table, R)
<1>1. ASSUME NEW r \in Repo
      PROVE  new[r] = table[r] \/ new[r] = Inactive(table[r])
  BY DEF Deactivate, Inactive
<1>2. new = [r \in Repo |-> new[r]]
  BY DEF Deactivate
<1> HIDE DEF new
<1>3. ASSUME NEW r \in Repo
      PROVE  /\ new[r] \in RepoRow
             /\ new[r].source = table[r].source /\ new[r].inst = table[r].inst
             /\ new[r] = Absent <=> table[r] = Absent
  <2>1. table[r] \in RepoRow
    OBVIOUS
  <2>2. CASE new[r] = table[r]
    BY <2>1, <2>2
  <2>3. CASE new[r] = Inactive(table[r])
    <3>1. CASE table[r] = Absent
      BY <2>3, <3>1, AbsentRows, AbsentStays
    <3>2. CASE \E i \in Installation : table[r] \in Installed(i)
      BY <2>3, <3>2, InstalledRows
    <3>3. CASE table[r] \in Crawled
      BY <2>3, <3>3, CrawledRows
    <3> QED
      BY <2>1, <3>1, <3>2, <3>3, RowCases
  <2> QED
    BY <1>1, <2>2, <2>3
<1>4. new \in [Repo -> RepoRow]
  BY <1>3, <1>2
<1>5. Owned(new, installs) /\ KeepsRows(table, new)
  BY <1>3 DEF Owned, KeepsRows
<1> QED
  BY <1>4, <1>5 DEF new

LEMMA UpsertObservedKeeps ==
  ASSUME NEW table \in [Repo -> RepoRow], NEW installs, NEW R \in SUBSET Repo,
         Owned(table, installs), R \cap Private = {}
  PROVE  LET new == UpsertObserved(table, R)
         IN /\ new \in [Repo -> RepoRow] /\ Owned(new, installs) /\ KeepsRows(table, new)
            /\ \A r \in R : new[r] # Absent
<1> DEFINE new == UpsertObserved(table, R)
<1>1. ASSUME NEW r \in Repo, r \notin R PROVE new[r] = table[r]
  BY <1>1 DEF UpsertObserved
<1>2. ASSUME NEW r \in R, table[r] = Absent
      PROVE  new[r] \in RepoRow /\ new[r] # Absent /\ new[r].source = "observed"
  <2>1. new[r] \in Crawled
    BY <1>2 DEF UpsertObserved, Observed, Crawled
  <2> HIDE DEF new
  <2> QED
    BY <2>1, CrawledRows
<1>3. ASSUME NEW r \in R, table[r] # Absent
      PROVE  /\ new[r] \in RepoRow /\ new[r] # Absent
             /\ new[r].source = table[r].source /\ new[r].inst = table[r].inst
  <2>1. table[r] \in RepoRow
    OBVIOUS
  <2>2. new[r] = Public(table[r])
    BY <1>3 DEF UpsertObserved, Public
  <2> HIDE DEF new
  <2>3. CASE \E i \in Installation : table[r] \in Installed(i)
    BY <2>2, <2>3, InstalledRows
  <2>4. CASE table[r] \in Crawled
    BY <2>2, <2>4, CrawledRows
  <2> QED
    BY <1>3, <2>1, <2>3, <2>4, RowCases
<1>4. new = [r \in Repo |-> new[r]]
  BY DEF UpsertObserved
<1>5. "observed" # "installed" /\ Absent.source # "installed"
  BY AbsentRows
<1> HIDE DEF new
<1>6. new \in [Repo -> RepoRow]
  BY <1>1, <1>2, <1>3, <1>4
<1>7. Owned(new, installs) /\ KeepsRows(table, new)
  BY <1>1, <1>2, <1>3, <1>5 DEF Owned, KeepsRows
<1>8. \A r \in R : new[r] # Absent
  BY <1>2, <1>3
<1> QED
  BY <1>6, <1>7, <1>8 DEF new
-------------------------------------------------------------------------------
LEMMA InitIInv == Init => IInv
<1> SUFFICES ASSUME Init PROVE IInv
  OBVIOUS
<1>1. Resting \in [at : {"idle", "screening"}, names : Seq(Repo), recorded : SUBSET Repo]
      /\ Resting.recorded = {}
  BY DEF Resting
<1>2. \A s \in Scouts : pass[s] = Resting
  BY DEF Init
<1>3. TypeOK
  BY <1>1, AbsentRows, ConstantsAssumption DEF ConstantsAssumption, Init, TypeOK
<1>4. OwnedOrObserved
  BY DEF OwnedOrObserved, Stored, Init
<1>5. Screened
  BY <1>1, <1>2 DEF Screened
<1> QED
  BY <1>3, <1>4, <1>5 DEF IInv

(* A change on GitHub reaches the service only as a delivery.              *)
LEMMA DeliverIsTyped ==
  ASSUME TypeOK, NEW i \in Installation, NEW R \in SUBSET Repo,
         NEW event \in {"created", "deleted", "suspend", "unsuspend", "added",
                        "removed", "job"},
         Deliver(event, i, R)
  PROVE  /\ log' \in Seq(Delivery)
         /\ live' \subseteq DOMAIN log' /\ history' \subseteq DOMAIN log'
         /\ UNCHANGED <<history, replays, install, repo, pass, ordered, admissions>>
<1> DEFINE d == [event |-> event, inst |-> i, repos |-> R,
                 suspended |-> app[i] = "suspended"]
<1>1. d \in Delivery
  BY DEF Delivery
<1>2. log \in Seq(Delivery) /\ log' = Append(log, d)
  BY DEF TypeOK, Deliver
<1>3. live' = live \cup {Len(log) + 1}
  BY DEF Deliver
<1> HIDE DEF d
<1>4. log' \in Seq(Delivery) /\ DOMAIN log' = DOMAIN log \cup {Len(log) + 1}
  BY <1>1, <1>2
<1> QED
  BY <1>3, <1>4 DEF TypeOK, Deliver, tables

LEMMA GitHubIInv == ASSUME IInv, GitHub PROVE IInv'
<1>1. PICK i \in Installation :
        \/ \E R \in SUBSET Repo : GitHubInstalls(i, R)
        \/ GitHubUninstalls(i) \/ GitHubSuspends(i) \/ GitHubUnsuspends(i)
        \/ \E r \in Repo : GitHubAdds(i, r) \/ GitHubRemoves(i, r) \/ GitHubRunsJob(i, r)
  BY DEF GitHub
<1>2. \E R \in SUBSET Repo,
         event \in {"created", "deleted", "suspend", "unsuspend", "added", "removed", "job"} :
        Deliver(event, i, R)
  BY <1>1 DEF GitHubInstalls, GitHubUninstalls, GitHubSuspends, GitHubUnsuspends,
              GitHubAdds, GitHubRemoves, GitHubRunsJob, Homes
<1>3. /\ log' \in Seq(Delivery)
      /\ live' \subseteq DOMAIN log' /\ history' \subseteq DOMAIN log'
      /\ UNCHANGED <<history, replays, install, repo, pass, ordered, admissions>>
  BY <1>2, DeliverIsTyped DEF IInv
<1>4. ASSUME NEW R, NEW h \in Installation \cup {None}, MoveTo(R, h)
      PROVE  home' \in [Repo -> Installation \cup {None}]
  BY <1>4 DEF MoveTo, IInv, TypeOK
<1>5. home' \in [Repo -> Installation \cup {None}]
  BY <1>1, <1>4 DEF GitHubInstalls, GitHubUninstalls, GitHubSuspends, GitHubUnsuspends,
                    GitHubAdds, GitHubRemoves, GitHubRunsJob, IInv, TypeOK
<1>6. app' \in [Installation -> {"none", "live", "suspended", "gone"}]
  BY <1>1 DEF GitHubInstalls, GitHubUninstalls, GitHubSuspends, GitHubUnsuspends,
              GitHubAdds, GitHubRemoves, GitHubRunsJob, BecomeApp, IInv, TypeOK
<1>7. TypeOK'
  BY <1>3, <1>5, <1>6 DEF IInv, TypeOK
<1> QED
  BY <1>3, <1>7 DEF IInv, OwnedOrObserved, Stored, Screened
-------------------------------------------------------------------------------
(* What one delivery makes of the tables, whichever it is.                 *)
LEMMA HandleKeeps ==
  ASSUME IInv, NEW d \in Delivery, Handle(d)
  PROVE  /\ install' \in [Installation -> InstallRow]
         /\ repo' \in [Repo -> RepoRow]
         /\ Owned(repo', install') /\ KeepsRows(repo, repo')
         /\ UNCHANGED <<home, app, log, replays, pass, admissions>>
<1>1. d.inst \in Installation /\ d.repos \in SUBSET Repo
  BY DEF Delivery
<1>2. install \in [Installation -> InstallRow] /\ repo \in [Repo -> RepoRow]
  BY DEF IInv, TypeOK, InstallRow
<1>3. Owned(repo, install)
  BY OwnedIsOwned DEF IInv
<1>4. /\ install' \in [Installation -> InstallRow]
      /\ \A j \in Installation : install[j] # None => install'[j] # None
      /\ install'[d.inst] # None
  <2>1. /\ Stub(install, d.inst) \in [Installation -> InstallRow]
        /\ Stub(install, d.inst)[d.inst] # None
        /\ \A j \in Installation : install[j] # None => Stub(install, d.inst)[j] # None
    BY <1>1, <1>2, StubKeeps
  <2>2. install' = Stub(install, d.inst) \/ install' = Lifecycle(Stub(install, d.inst), d)
    BY DEF Handle, HandleInstallation, HandleInstallationRepositories, EnsureRepo
  <2>3. CASE install' = Stub(install, d.inst)
    BY <2>1, <2>3
  <2>4. CASE install' = Lifecycle(Stub(install, d.inst), d)
    BY <1>1, <2>1, <2>4, LifecycleKeeps
  <2> QED
    BY <2>2, <2>3, <2>4
<1>5. Owned(repo, install')
  <2> SUFFICES ASSUME NEW r \in Repo, repo[r] # Absent
               PROVE  IF repo[r].source = "installed" THEN install'[repo[r].inst] # None
                      ELSE r \notin Private
    BY DEF Owned
  <2>1. CASE \E i \in Installation : repo[r] \in Installed(i)
    BY <1>3, <1>4, <2>1, InstalledRows DEF Owned
  <2>2. CASE repo[r] \in Crawled
    BY <1>3, <2>2, CrawledRows DEF Owned
  <2> QED
    BY <1>2, <2>1, <2>2, RowCases
<1>6. \/ \E announced \in BOOLEAN : repo' = UpsertInstalled(repo, d.repos, d.inst, announced)
      \/ \E R \in SUBSET Repo : repo' = Deactivate(repo, R)
  BY <1>1 DEF Handle, HandleInstallation, HandleInstallationRepositories, EnsureRepo,
              DeactivateAllOf
<1>7. repo' \in [Repo -> RepoRow] /\ Owned(repo', install') /\ KeepsRows(repo, repo')
  <2>1. ASSUME NEW announced \in BOOLEAN,
               repo' = UpsertInstalled(repo, d.repos, d.inst, announced)
        PROVE  repo' \in [Repo -> RepoRow] /\ Owned(repo', install') /\ KeepsRows(repo, repo')
    BY <1>1, <1>2, <1>4, <1>5, <2>1, UpsertInstalledKeeps
  <2>2. ASSUME NEW R \in SUBSET Repo, repo' = Deactivate(repo, R)
        PROVE  repo' \in [Repo -> RepoRow] /\ Owned(repo', install') /\ KeepsRows(repo, repo')
    BY <1>2, <1>5, <2>2, DeactivateKeeps
  <2> QED
    BY <1>6, <2>1, <2>2
<1> QED
  BY <1>4, <1>7 DEF Handle, github

LEMMA HandleIInv ==
  ASSUME IInv, NEW k \in DOMAIN log,
         (\E acknowledged \in BOOLEAN : HandleLive(k, acknowledged)) \/ HandleHistory(k)
  PROVE  IInv' /\ KeepsRows(repo, repo') /\ UNCHANGED <<pass, admissions>>
<1>1. log[k] \in Delivery
  BY DEF IInv, TypeOK
<1>2. Handle(log[k])
  BY DEF HandleLive, HandleHistory
<1>3. /\ install' \in [Installation -> InstallRow]
      /\ repo' \in [Repo -> RepoRow]
      /\ Owned(repo', install') /\ KeepsRows(repo, repo')
      /\ UNCHANGED <<home, app, log, replays, pass, admissions>>
  BY <1>1, <1>2, HandleKeeps
<1>4. live' \subseteq live /\ history' \subseteq history
  BY DEF HandleLive, HandleHistory
<1>5. ordered' \in BOOLEAN
  BY DEF HandleLive, HandleHistory, IInv, TypeOK
<1>6. TypeOK'
  BY <1>3, <1>4, <1>5 DEF IInv, TypeOK, InstallRow
<1>7. OwnedOrObserved'
  BY <1>3 DEF OwnedOrObserved, Owned, Stored
<1> QED
  BY <1>3, <1>6, <1>7 DEF IInv, Screened

LEMMA ReevaluateIInv == ASSUME IInv, Reevaluate PROVE IInv'
<1>1. /\ history' = DOMAIN log /\ replays' \in 0 .. ReplayLimit
      /\ UNCHANGED <<home, app, log, live, install, repo, pass, ordered, admissions>>
  BY ConstantsAssumption DEF ConstantsAssumption, Reevaluate, github, tables, IInv, TypeOK
<1>2. TypeOK'
  BY <1>1 DEF IInv, TypeOK
<1> QED
  BY <1>1, <1>2 DEF IInv, OwnedOrObserved, Stored, Screened
-------------------------------------------------------------------------------
Pass == [at : {"idle", "screening"}, names : Seq(Repo), recorded : SUBSET Repo]

(* A step of one discovery pass, which leaves the others alone.            *)
LEMMA PassStep ==
  ASSUME IInv, NEW s \in Scouts, NEW p \in Pass, Put(s, p), p.recorded \cap Private = {}
  PROVE  /\ pass' \in [Scouts -> Pass]
         /\ pass'[s] = p /\ \A t \in Scouts \ {s} : pass'[t] = pass[t]
         /\ Screened'
<1>1. pass \in [Scouts -> Pass] /\ pass' = [pass EXCEPT ![s] = p]
  BY DEF IInv, TypeOK, Pass, Put
<1>2. pass' \in [Scouts -> Pass] /\ pass'[s] = p /\ \A t \in Scouts \ {s} : pass'[t] = pass[t]
  BY <1>1
<1>3. Screened'
  BY <1>2 DEF IInv, Screened
<1> QED
  BY <1>2, <1>3

LEMMA RestingIsTyped == Resting \in Pass /\ Resting.recorded = {} /\ Resting.names = <<>>
  BY DEF Resting, Pass

LEMMA SearchKeeps ==
  ASSUME IInv, NEW s \in Scouts, Search(s)
  PROVE  /\ IInv'
         /\ \A t \in Scouts \ {s} : pass'[t] = pass[t]
         /\ pass'[s].recorded = {}
         /\ \A n \in DOMAIN pass'[s].names : pass'[s].names[n] \in Repo \ Stored
         /\ UNCHANGED <<repo, admissions>>
<1>1. PICK names \in Listings(Stored) :
        Put(s, [at |-> "screening", names |-> names, recorded |-> {}])
  BY DEF Search
<1> DEFINE p == [at |-> "screening", names |-> names, recorded |-> {}]
<1>2. PICK n \in 0 .. Wanted : names \in [1 .. n -> Repo \ Stored]
  BY DEF Listings
<1>3. names \in Seq(Repo)
  BY <1>2, ConstantsAssumption DEF ConstantsAssumption
<1>4. p \in Pass /\ p.recorded = {} /\ p.names = names
  BY <1>3 DEF Pass
<1>5. Put(s, p)
  BY <1>1
<1> HIDE DEF p
<1>6. /\ pass' \in [Scouts -> Pass] /\ Screened'
      /\ pass'[s] = p /\ \A t \in Scouts \ {s} : pass'[t] = pass[t]
  BY <1>4, <1>5, PassStep
<1>7. UNCHANGED <<github, queue, tables, ordered, admissions>>
  BY DEF Search
<1>8. TypeOK'
  BY <1>6, <1>7 DEF IInv, TypeOK, Pass, github, queue, tables
<1>9. OwnedOrObserved'
  BY <1>7 DEF IInv, OwnedOrObserved, Stored, tables
<1> QED
  BY <1>2, <1>4, <1>6, <1>7, <1>8, <1>9 DEF IInv, tables

LEMMA ScreenKeeps ==
  ASSUME IInv, NEW s \in Scouts, Screen(s)
  PROVE  /\ IInv'
         /\ \A t \in Scouts \ {s} : pass'[t] = pass[t]
         /\ \A n \in DOMAIN pass'[s].names :
              \E m \in DOMAIN pass[s].names : pass'[s].names[n] = pass[s].names[m]
         /\ \A r \in pass'[s].recorded :
              r \in pass[s].recorded \/ \E m \in DOMAIN pass[s].names : r = pass[s].names[m]
         /\ UNCHANGED <<repo, admissions>>
<1> DEFINE old == pass[s]
           r == Head(old.names)
<1>1. PICK admit \in BOOLEAN :
        /\ admit => MayAdmit(r) /\ \A t \in Scouts \ {s} : r \notin pass[t].recorded
        /\ Put(s, [pass[s] EXCEPT !.names = Tail(@),
                                  !.recorded = IF admit THEN @ \cup {r} ELSE @])
  BY DEF Screen
<1> DEFINE p == [old EXCEPT !.names = Tail(@),
                            !.recorded = IF admit THEN @ \cup {r} ELSE @]
<1>2. old \in Pass /\ old.names # <<>> /\ old.names \in Seq(Repo)
      /\ old.at = "screening" /\ old.recorded \in SUBSET Repo
  BY DEF IInv, TypeOK, Screen, Pass
<1>3. /\ r \in Repo /\ r = old.names[1] /\ 1 \in DOMAIN old.names
      /\ Tail(old.names) \in Seq(Repo)
      /\ \A n \in DOMAIN Tail(old.names) :
           n + 1 \in DOMAIN old.names /\ Tail(old.names)[n] = old.names[n + 1]
  BY <1>2
<1>4. p \in Pass /\ p.names = Tail(old.names)
      /\ p.recorded = IF admit THEN old.recorded \cup {r} ELSE old.recorded
  BY <1>2, <1>3 DEF Pass
<1>5. Put(s, p)
  BY <1>1
<1>6. p.recorded \cap Private = {}
  BY <1>1, <1>4 DEF MayAdmit, Readable, IInv, Screened
<1> HIDE DEF p
<1>7. /\ pass' \in [Scouts -> Pass] /\ Screened'
      /\ pass'[s] = p /\ \A t \in Scouts \ {s} : pass'[t] = pass[t]
  BY <1>4, <1>5, <1>6, PassStep
<1>8. UNCHANGED <<github, queue, tables, ordered, admissions>>
  BY DEF Screen
<1>9. TypeOK' /\ OwnedOrObserved'
  BY <1>7, <1>8 DEF IInv, TypeOK, OwnedOrObserved, Stored, Pass, github, queue, tables
<1>10. \A n \in DOMAIN p.names : \E m \in DOMAIN old.names : p.names[n] = old.names[m]
  BY <1>3, <1>4
<1>11. \A i \in p.recorded : i \in old.recorded \/ \E m \in DOMAIN old.names : i = old.names[m]
  BY <1>3, <1>4
<1> QED
  BY <1>7, <1>8, <1>9, <1>10, <1>11 DEF IInv, tables

LEMMA CommitBandKeeps ==
  ASSUME IInv, NEW s \in Scouts, CommitBand(s)
  PROVE  /\ IInv' /\ KeepsRows(repo, repo')
         /\ \A t \in Scouts \ {s} : pass'[t] = pass[t]
         /\ pass'[s] = Resting
         /\ \A r \in pass[s].recorded : repo'[r] # Absent
<1>1. /\ repo' = UpsertObserved(repo, pass[s].recorded)
      /\ admissions' = [r \in Repo |->
           IF r \in pass[s].recorded /\ admissions[r] < 2 THEN admissions[r] + 1
           ELSE admissions[r]]
      /\ Put(s, Resting)
      /\ UNCHANGED <<home, app, log, live, history, replays, install, ordered>>
  BY DEF CommitBand, github, queue
<1>2. pass[s].recorded \in SUBSET Repo /\ pass[s].recorded \cap Private = {}
  BY DEF IInv, TypeOK, Screened
<1>3. repo \in [Repo -> RepoRow] /\ Owned(repo, install)
  BY OwnedIsOwned DEF IInv, TypeOK
<1>4. /\ repo' \in [Repo -> RepoRow] /\ Owned(repo', install) /\ KeepsRows(repo, repo')
      /\ \A r \in pass[s].recorded : repo'[r] # Absent
  BY <1>1, <1>2, <1>3, UpsertObservedKeeps
<1>5. admissions' \in [Repo -> 0 .. 2]
  BY <1>1 DEF IInv, TypeOK
<1>6. /\ pass' \in [Scouts -> Pass] /\ Screened'
      /\ pass'[s] = Resting /\ \A t \in Scouts \ {s} : pass'[t] = pass[t]
  BY <1>1, RestingIsTyped, PassStep
<1>7. TypeOK'
  BY <1>1, <1>4, <1>5, <1>6 DEF IInv, TypeOK, Pass
<1>8. OwnedOrObserved'
  BY <1>1, <1>4 DEF OwnedOrObserved, Owned, Stored
<1> QED
  BY <1>4, <1>6, <1>7, <1>8 DEF IInv

LEMMA AbandonBandKeeps ==
  ASSUME IInv, NEW s \in Scouts, AbandonBand(s)
  PROVE  /\ IInv'
         /\ \A t \in Scouts \ {s} : pass'[t] = pass[t]
         /\ pass'[s] = Resting
         /\ UNCHANGED <<repo, admissions>>
<1>1. Put(s, Resting) /\ UNCHANGED <<home, app, log, live, history, replays, install, repo,
                                     ordered, admissions>>
  BY DEF AbandonBand, github, queue, tables
<1>2. /\ pass' \in [Scouts -> Pass] /\ Screened'
      /\ pass'[s] = Resting /\ \A t \in Scouts \ {s} : pass'[t] = pass[t]
  BY <1>1, RestingIsTyped, PassStep
<1>3. TypeOK' /\ OwnedOrObserved'
  BY <1>1, <1>2 DEF IInv, TypeOK, OwnedOrObserved, Stored, Pass
<1> QED
  BY <1>1, <1>2, <1>3 DEF IInv
-------------------------------------------------------------------------------
LEMMA GitHubKeeps == ASSUME GitHub PROVE UNCHANGED <<repo, pass, admissions>>
  BY DEF GitHub, GitHubInstalls, GitHubUninstalls, GitHubSuspends, GitHubUnsuspends,
         GitHubAdds, GitHubRemoves, GitHubRunsJob, Deliver, tables

LEMMA NextIInv ==
  ASSUME IInv, [Next]_vars
  PROVE  IInv' /\ KeepsRows(repo, repo')
<1> USE DEF KeepsRows
<1>1. CASE GitHub
  BY <1>1, GitHubIInv, GitHubKeeps
<1>2. ASSUME NEW k \in DOMAIN log,
             (\E acknowledged \in BOOLEAN : HandleLive(k, acknowledged)) \/ HandleHistory(k)
      PROVE  IInv' /\ KeepsRows(repo, repo')
  BY <1>2, HandleIInv
<1>3. CASE Reevaluate
  BY <1>3, ReevaluateIInv DEF Reevaluate, tables
<1>4. ASSUME NEW s \in Scouts, Search(s) \/ Screen(s) \/ CommitBand(s) \/ AbandonBand(s)
      PROVE  IInv' /\ KeepsRows(repo, repo')
  BY <1>4, SearchKeeps, ScreenKeeps, CommitBandKeeps, AbandonBandKeeps
<1>5. CASE UNCHANGED vars
  BY <1>5 DEF vars, github, queue, tables, IInv, TypeOK, OwnedOrObserved, Stored, Screened
<1> QED
  BY <1>1, <1>2, <1>3, <1>4, <1>5 DEF Next

(* The tables stay well formed under every order of deliveries, replays    *)
(* and crawls: the type invariant of upsert_repository.                    *)
THEOREM TypeCorrectness == Spec => []TypeOK
<1>1. IInv => TypeOK
  BY DEF IInv
<1> QED
  BY <1>1, InitIInv, NextIInv, PTL DEF Spec

(* The check constraint and the foreign key of repositories are never      *)
(* refused to a delivery, and what nobody installed is public.             *)
THEOREM RowsAreOwnedOrObserved == Spec => []OwnedOrObserved
<1>1. IInv => OwnedOrObserved
  BY DEF IInv
<1> QED
  BY <1>1, InitIInv, NextIInv, PTL DEF Spec

(* A crawl never takes an installed repository back.                       *)
THEOREM ClaimsAreKept == Spec => ClaimIsKept
<1> DEFINE Kept == \A r \in Repo : repo[r].source = "installed" => repo'[r].source = "installed"
<1>1. IInv /\ [Next]_vars => [Kept]_vars
  BY NextIInv DEF KeepsRows
<1> QED
  BY <1>1, InitIInv, NextIInv, PTL DEF Spec, ClaimIsKept
-------------------------------------------------------------------------------
(* What the one pass there can be has found was never admitted before, and *)
(* what was admitted is stored, so that no search lists it again.          *)
Fresh(p) ==
  \A r \in Repo : r \in p.recorded \/ (\E n \in DOMAIN p.names : r = p.names[n])
                    => admissions[r] = 0

FoundOnce ==
  /\ \A s \in Scouts : Fresh(pass[s])
  /\ \A r \in Repo : admissions[r] # 0 => admissions[r] = 1 /\ repo[r] # Absent

LEMMA InitFoundOnce == Init => FoundOnce
  BY DEF Init, Resting, Fresh, FoundOnce

LEMMA NextFoundOnce ==
  ASSUME \A s, t \in Scouts : s = t, IInv, FoundOnce, [Next]_vars
  PROVE  FoundOnce'
<1> USE DEF FoundOnce, Fresh
<1>1. KeepsRows(repo, repo')
  BY NextIInv
<1>2. CASE UNCHANGED <<pass, admissions>>
  BY <1>1, <1>2 DEF KeepsRows
<1>3. ASSUME NEW s \in Scouts, Search(s) PROVE FoundOnce'
  <2>1. \A r \in Repo \ Stored : admissions[r] = 0
    BY DEF Stored
  <2> QED
    BY <1>3, <2>1, SearchKeeps
<1>4. ASSUME NEW s \in Scouts, Screen(s) PROVE FoundOnce'
  BY <1>4, ScreenKeeps
<1>5. ASSUME NEW s \in Scouts, CommitBand(s) PROVE FoundOnce'
  <2>1. \A r \in Repo : admissions'[r] = IF r \in pass[s].recorded THEN 1 ELSE admissions[r]
    BY <1>5 DEF CommitBand, IInv, TypeOK
  <2>2. \A t \in Scouts : pass'[t] = Resting
    BY <1>5, CommitBandKeeps
  <2>3. \A t \in Scouts : Fresh(pass[t])'
    BY <2>2, RestingIsTyped
  <2> QED
    BY <1>1, <1>5, <2>1, <2>3, CommitBandKeeps DEF KeepsRows
<1>6. ASSUME NEW s \in Scouts, AbandonBand(s) PROVE FoundOnce'
  BY <1>6, AbandonBandKeeps, RestingIsTyped
<1>7. \/ UNCHANGED <<pass, admissions>>
      \/ \E s \in Scouts : Search(s) \/ Screen(s) \/ CommitBand(s) \/ AbandonBand(s)
  <2>1. CASE GitHub
    BY <2>1, GitHubKeeps
  <2>2. CASE \E k \in DOMAIN log : \/ \E acknowledged \in BOOLEAN : HandleLive(k, acknowledged)
                                   \/ HandleHistory(k)
    BY <2>2, HandleIInv
  <2>3. CASE Reevaluate
    BY <2>3 DEF Reevaluate
  <2>4. CASE UNCHANGED vars
    BY <2>4 DEF vars
  <2> QED
    BY <2>1, <2>2, <2>3, <2>4 DEF Next
<1> QED
  BY <1>2, <1>3, <1>4, <1>5, <1>6, <1>7

(* With one pass at a time, a repository is admitted once.                 *)
THEOREM AdmissionsAreOnce ==
  ASSUME \A s, t \in Scouts : s = t
  PROVE  Spec => []AdmittedOnce
<1>1. IInv /\ FoundOnce => AdmittedOnce
  BY DEF IInv, TypeOK, FoundOnce, AdmittedOnce
<1>2. IInv /\ FoundOnce /\ [Next]_vars => (IInv /\ FoundOnce)'
  BY NextIInv, NextFoundOnce
<1>3. Init => IInv /\ FoundOnce
  BY InitIInv, InitFoundOnce
<1> QED
  BY <1>1, <1>2, <1>3, PTL DEF Spec
-------------------------------------------------------------------------------
(* What GitHub has told.  Gains and losses of a repository alternate, so    *)
(* its last gain, and a loss after it if there is one, say whose it is.    *)
Gain(k, r) == log[k].event \in {"created", "added"} /\ r \in log[k].repos

Loss(k, r) == log[k].event \in {"deleted", "removed"} /\ r \in log[k].repos

LastGain(g, r) ==
  g \in DOMAIN log /\ Gain(g, r) /\ \A k \in DOMAIN log : k > g => ~Gain(k, r)

Lost(g, r) == \E k \in DOMAIN log : k > g /\ Loss(k, r)

Life(k, i) ==
  log[k].event \in {"created", "deleted", "suspend", "unsuspend"} /\ log[k].inst = i

LastLife(e, i) ==
  e \in DOMAIN log /\ Life(e, i) /\ \A k \in DOMAIN log : k > e => ~Life(k, i)

StateAfter(event) ==
  CASE event = "suspend" -> "suspended" [] event = "deleted" -> "gone" [] OTHER -> "live"

ToldOfRepositories ==
  \A r \in Repo :
    /\ home[r] # None => app[home[r]] \in {"live", "suspended"}
    /\ home[r] # None \/ (\E k \in DOMAIN log : r \in log[k].repos) => \E g : LastGain(g, r)
    /\ \A g : LastGain(g, r) => home[r] = IF Lost(g, r) THEN None ELSE log[g].inst
    /\ \A g, k \in DOMAIN log :
         LastGain(g, r) /\ k > g /\ r \in log[k].repos => log[k].inst = log[g].inst

ToldOfInstallations ==
  /\ \A i \in Installation :
       /\ app[i] # "none" => \E e : LastLife(e, i)
       /\ \A e : LastLife(e, i) => app[i] = StateAfter(log[e].event)
  /\ \A k \in DOMAIN log : /\ log[k].event = "deleted" => app[log[k].inst] = "gone"
                           /\ log[k].event = "created" => ~log[k].suspended
                           /\ log[k].event \in {"suspend", "unsuspend"} => log[k].repos = {}

(* What has been handled in order, the tables show.                        *)
Queued == live \cup history

RepositoriesFollow ==
  \A r \in Repo :
    /\ repo[r].source = "installed" => \E k \in DOMAIN log : r \in log[k].repos
    /\ \A g : ordered /\ LastGain(g, r) /\ g \notin Queued =>
         /\ repo[r].source = "installed" /\ repo[r].inst = log[g].inst
         /\ ~Lost(g, r) => repo[r].active
         /\ \A k \in DOMAIN log : k > g /\ Loss(k, r) /\ k \notin Queued => ~repo[r].active

Shows(row, event) ==
  /\ row # None
  /\ row.deleted = (event = "deleted")
  /\ event # "deleted" => row.suspended = (event = "suspend")

InstallationsFollow ==
  \A i \in Installation, e \in DOMAIN log :
    ordered /\ LastLife(e, i) /\ e \notin Queued => Shows(install[i], log[e].event)

Follow == /\ IInv /\ ToldOfRepositories /\ ToldOfInstallations
          /\ RepositoriesFollow /\ InstallationsFollow

-------------------------------------------------------------------------------
LEMMA InitFollow == Init => Follow
<1> SUFFICES ASSUME Init PROVE Follow
  OBVIOUS
<1>1. log = <<>> /\ DOMAIN log = {} /\ (\A i \in Installation : app[i] = "none")
  BY DEF Init
<1>2. \A r \in Repo : home[r] = None /\ repo[r].source # "installed"
  BY AbsentRows DEF Init
<1> QED
  BY <1>1, <1>2, InitIInv
  DEF Follow, ToldOfRepositories, ToldOfInstallations, RepositoriesFollow, InstallationsFollow,
      LastGain, LastLife

(* The three kinds of change on GitHub, and what each says.                *)
Gains(d) ==
  /\ d.event \in {"created", "added"}
  /\ \A r \in d.repos : home[r] = None
  /\ MoveTo(d.repos, d.inst)
  /\ IF d.event = "created"
     THEN app[d.inst] = "none" /\ ~d.suspended /\ BecomeApp(d.inst, "live")
     ELSE app[d.inst] = "live" /\ UNCHANGED app

Loses(d) ==
  /\ d.event \in {"deleted", "removed"}
  /\ \A r \in d.repos : home[r] = d.inst
  /\ MoveTo(d.repos, None)
  /\ app[d.inst] \in {"live", "suspended"}
  /\ IF d.event = "deleted"
     THEN /\ \A r \in Repo : home[r] = d.inst => r \in d.repos
          /\ BecomeApp(d.inst, "gone")
     ELSE UNCHANGED app

Stays(d) ==
  /\ UNCHANGED home
  /\ \A r \in d.repos : home[r] = d.inst
  /\ app[d.inst] \in {"live", "suspended"}
  /\ \/ d.event = "job" /\ UNCHANGED app
     \/ d.event = "suspend" /\ d.repos = {} /\ BecomeApp(d.inst, "suspended")
     \/ d.event = "unsuspend" /\ d.repos = {} /\ BecomeApp(d.inst, "live")

Adds(d) ==
  /\ log' = Append(log, d) /\ live' = live \cup {Len(log) + 1}
  /\ UNCHANGED <<history, replays, install, repo, pass, ordered, admissions>>

LEMMA DeliverAdds ==
  ASSUME NEW event \in {"created", "deleted", "suspend", "unsuspend", "added", "removed", "job"},
         NEW i \in Installation, NEW R \in SUBSET Repo, Deliver(event, i, R)
  PROVE  \E d \in Delivery : /\ Adds(d) /\ d.event = event /\ d.inst = i /\ d.repos = R
                             /\ d.suspended = (app[i] = "suspended")
<1> DEFINE d == [event |-> event, inst |-> i, repos |-> R,
                 suspended |-> app[i] = "suspended"]
<1>1. d \in Delivery
  BY DEF Delivery
<1>2. Adds(d)
  BY DEF Deliver, Adds, tables
<1> QED
  BY <1>1, <1>2

LEMMA GitHubSays ==
  ASSUME IInv, GitHub
  PROVE  \E d \in Delivery : Adds(d) /\ (Gains(d) \/ Loses(d) \/ Stays(d))
<1> DEFINE Goal == \E d \in Delivery : Adds(d) /\ (Gains(d) \/ Loses(d) \/ Stays(d))
<1>1. PICK i \in Installation :
        \/ \E R \in SUBSET Repo : GitHubInstalls(i, R)
        \/ GitHubUninstalls(i) \/ GitHubSuspends(i) \/ GitHubUnsuspends(i)
        \/ \E r \in Repo : GitHubAdds(i, r) \/ GitHubRemoves(i, r) \/ GitHubRunsJob(i, r)
  BY DEF GitHub
<1>2. ASSUME NEW R \in SUBSET Repo, GitHubInstalls(i, R) PROVE Goal
  <2>1. PICK d \in Delivery : /\ Adds(d) /\ d.event = "created" /\ d.inst = i /\ d.repos = R
                              /\ d.suspended = (app[i] = "suspended")
    BY <1>2, DeliverAdds DEF GitHubInstalls
  <2>2. Gains(d)
    BY <1>2, <2>1 DEF GitHubInstalls, Gains, Homes
  <2> QED
    BY <2>1, <2>2
<1>3. ASSUME GitHubUninstalls(i) PROVE Goal
  <2>1. Homes(i) \in SUBSET Repo
    BY DEF Homes
  <2>2. PICK d \in Delivery : Adds(d) /\ d.event = "deleted" /\ d.inst = i /\ d.repos = Homes(i)
    BY <1>3, <2>1, DeliverAdds DEF GitHubUninstalls
  <2>3. Loses(d)
    BY <1>3, <2>2 DEF GitHubUninstalls, Loses, Homes
  <2> QED
    BY <2>2, <2>3
<1>4. ASSUME GitHubSuspends(i) PROVE Goal
  <2>1. PICK d \in Delivery : Adds(d) /\ d.event = "suspend" /\ d.inst = i /\ d.repos = {}
    BY <1>4, DeliverAdds DEF GitHubSuspends
  <2>2. Stays(d)
    BY <1>4, <2>1 DEF GitHubSuspends, Stays
  <2> QED
    BY <2>1, <2>2
<1>5. ASSUME GitHubUnsuspends(i) PROVE Goal
  <2>1. PICK d \in Delivery : Adds(d) /\ d.event = "unsuspend" /\ d.inst = i /\ d.repos = {}
    BY <1>5, DeliverAdds DEF GitHubUnsuspends
  <2>2. Stays(d)
    BY <1>5, <2>1 DEF GitHubUnsuspends, Stays
  <2> QED
    BY <2>1, <2>2
<1>6. ASSUME NEW r \in Repo, GitHubAdds(i, r) PROVE Goal
  <2>1. PICK d \in Delivery : Adds(d) /\ d.event = "added" /\ d.inst = i /\ d.repos = {r}
    BY <1>6, DeliverAdds DEF GitHubAdds
  <2>2. Gains(d)
    BY <1>6, <2>1 DEF GitHubAdds, Gains
  <2> QED
    BY <2>1, <2>2
<1>7. ASSUME NEW r \in Repo, GitHubRemoves(i, r) PROVE Goal
  <2>1. PICK d \in Delivery : Adds(d) /\ d.event = "removed" /\ d.inst = i /\ d.repos = {r}
    BY <1>7, DeliverAdds DEF GitHubRemoves
  <2>2. Loses(d)
    BY <1>7, <2>1 DEF GitHubRemoves, Loses
  <2> QED
    BY <2>1, <2>2
<1>8. ASSUME NEW r \in Repo, GitHubRunsJob(i, r) PROVE Goal
  <2>1. PICK d \in Delivery : Adds(d) /\ d.event = "job" /\ d.inst = i /\ d.repos = {r}
    BY <1>8, DeliverAdds DEF GitHubRunsJob
  <2>2. Stays(d)
    BY <1>8, <2>1 DEF GitHubRunsJob, Stays
  <2> QED
    BY <2>1, <2>2
<1> QED
  BY <1>1, <1>2, <1>3, <1>4, <1>5, <1>6, <1>7, <1>8
-------------------------------------------------------------------------------
(* The log with one more delivery, which is the youngest.                  *)
LEMMA LogGrows ==
  ASSUME IInv, NEW d \in Delivery, Adds(d), NEW n, n = Len(log) + 1
  PROVE  /\ n \in Nat /\ n \notin DOMAIN log /\ DOMAIN log' = DOMAIN log \cup {n}
         /\ log'[n] = d /\ \A k \in DOMAIN log : k \in Nat /\ k < n /\ log'[k] = log[k]
<1>1. log \in Seq(Delivery) /\ log' = Append(log, d)
  BY DEF IInv, TypeOK, Adds
<1>2. Len(log) \in Nat /\ DOMAIN log = 1 .. Len(log)
  BY <1>1
<1>3. /\ DOMAIN log' = 1 .. n
      /\ log'[n] = d /\ \A k \in 1 .. Len(log) : log'[k] = log[k]
  BY <1>1, <1>2
<1> QED
  BY <1>2, <1>3

(* Gains, losses and lifecycle events that were there stay what they were. *)
LEMMA OldEventsStay ==
  ASSUME IInv, NEW d \in Delivery, Adds(d), NEW n, n = Len(log) + 1
  PROVE  /\ \A k \in DOMAIN log : \A r : /\ Gain(k, r)' <=> Gain(k, r)
                                         /\ Loss(k, r)' <=> Loss(k, r)
         /\ \A k \in DOMAIN log : \A i : Life(k, i)' <=> Life(k, i)
         /\ \A r : Gain(n, r)' <=> d.event \in {"created", "added"} /\ r \in d.repos
         /\ \A r : Loss(n, r)' <=> d.event \in {"deleted", "removed"} /\ r \in d.repos
         /\ \A i : Life(n, i)' <=> /\ d.event \in {"created", "deleted", "suspend", "unsuspend"}
                                   /\ d.inst = i
  BY LogGrows DEF Gain, Loss, Life

LEMMA LastOnes ==
  ASSUME IInv, NEW d \in Delivery, Adds(d), NEW n, n = Len(log) + 1
  PROVE  /\ \A r : LastGain(n, r)' <=> Gain(n, r)'
         /\ \A r, g : g # n => (LastGain(g, r)' <=> LastGain(g, r) /\ ~Gain(n, r)')
         /\ \A r, g : g \in DOMAIN log => (Lost(g, r)' <=> Lost(g, r) \/ Loss(n, r)')
         /\ \A r : ~Lost(n, r)'
         /\ \A i : LastLife(n, i)' <=> Life(n, i)'
         /\ \A i, e : e # n => (LastLife(e, i)' <=> LastLife(e, i) /\ ~Life(n, i)')
<1>1. /\ n \in Nat /\ n \notin DOMAIN log /\ DOMAIN log' = DOMAIN log \cup {n}
      /\ \A k \in DOMAIN log : k \in Nat /\ k < n
  BY LogGrows
<1>2. \A k \in DOMAIN log' : ~(k > n)
  BY <1>1
<1>3. \A k \in DOMAIN log : n > k
  BY <1>1
<1>4. /\ \A k \in DOMAIN log : \A r : /\ Gain(k, r)' <=> Gain(k, r)
                                      /\ Loss(k, r)' <=> Loss(k, r)
      /\ \A k \in DOMAIN log : \A i : Life(k, i)' <=> Life(k, i)
  BY OldEventsStay
<1>5. \A r : LastGain(n, r)' <=> Gain(n, r)'
  BY <1>1, <1>2 DEF LastGain
<1>6. \A r, g : g # n => (LastGain(g, r)' <=> LastGain(g, r) /\ ~Gain(n, r)')
  BY <1>1, <1>3, <1>4 DEF LastGain
<1>7. \A r, g : g \in DOMAIN log => (Lost(g, r)' <=> Lost(g, r) \/ Loss(n, r)')
  BY <1>1, <1>3, <1>4 DEF Lost
<1>8. \A r : ~Lost(n, r)'
  BY <1>2 DEF Lost
<1>9. \A i : LastLife(n, i)' <=> Life(n, i)'
  BY <1>1, <1>2 DEF LastLife
<1>10. \A i, e : e # n => (LastLife(e, i)' <=> LastLife(e, i) /\ ~Life(n, i)')
  BY <1>1, <1>3, <1>4 DEF LastLife
<1> QED
  BY <1>5, <1>6, <1>7, <1>8, <1>9, <1>10

LEMMA GitHubTellsRepositories ==
  ASSUME Follow, NEW d \in Delivery, Adds(d), Gains(d) \/ Loses(d) \/ Stays(d)
  PROVE  ToldOfRepositories'
<1> SUFFICES ASSUME NEW r \in Repo
             PROVE (/\ home[r] # None => app[home[r]] \in {"live", "suspended"}
                    /\ home[r] # None \/ (\E k \in DOMAIN log : r \in log[k].repos)
                         => \E g : LastGain(g, r)
                    /\ \A g : LastGain(g, r) => home[r] = IF Lost(g, r) THEN None ELSE log[g].inst
                    /\ \A g, k \in DOMAIN log :
                         LastGain(g, r) /\ k > g /\ r \in log[k].repos
                           => log[k].inst = log[g].inst)'
  BY DEF ToldOfRepositories
<1>1. IInv /\ d.inst \in Installation /\ d.inst # None /\ d.repos \in SUBSET Repo
  BY ConstantsAssumption DEF ConstantsAssumption, Follow, Delivery
<1>2. /\ home \in [Repo -> Installation \cup {None}]
      /\ app \in [Installation -> {"none", "live", "suspended", "gone"}]
  BY <1>1 DEF IInv, TypeOK
<1>3. PICK n : n = Len(log) + 1
  OBVIOUS
<1>4. /\ n \notin DOMAIN log /\ DOMAIN log' = DOMAIN log \cup {n} /\ log'[n] = d
      /\ \A k \in DOMAIN log : k \in Nat /\ k < n /\ log'[k] = log[k]
  BY <1>1, <1>3, LogGrows
<1>5. /\ Gain(n, r)' <=> d.event \in {"created", "added"} /\ r \in d.repos
      /\ Loss(n, r)' <=> d.event \in {"deleted", "removed"} /\ r \in d.repos
  BY <1>1, <1>3, OldEventsStay
<1>6. /\ LastGain(n, r)' <=> Gain(n, r)'
      /\ \A g : g # n => (LastGain(g, r)' <=> LastGain(g, r) /\ ~Gain(n, r)')
      /\ \A g \in DOMAIN log : Lost(g, r)' <=> Lost(g, r) \/ Loss(n, r)'
      /\ ~Lost(n, r)'
  BY <1>1, <1>3, LastOnes
<1>7. /\ home[r] # None => app[home[r]] \in {"live", "suspended"}
      /\ home[r] # None \/ (\E k \in DOMAIN log : r \in log[k].repos) => \E g : LastGain(g, r)
      /\ \A g : LastGain(g, r) => home[r] = IF Lost(g, r) THEN None ELSE log[g].inst
      /\ \A g, k \in DOMAIN log :
           LastGain(g, r) /\ k > g /\ r \in log[k].repos => log[k].inst = log[g].inst
  BY DEF Follow, ToldOfRepositories
<1>8. \A g : LastGain(g, r) => g \in DOMAIN log /\ log'[g] = log[g] /\ g # n
  BY <1>4 DEF LastGain
<1>9. app' \in [Installation -> {"none", "live", "suspended", "gone"}]
       /\ \A i \in Installation \ {d.inst} : app'[i] = app[i]
  BY <1>1, <1>2 DEF Gains, Loses, Stays, BecomeApp
<1>10. CASE r \notin d.repos
  <2>1. home'[r] = home[r]
    BY <1>10 DEF Gains, Loses, Stays, MoveTo
  <2>2. home[r] # None => app'[home[r]] \in {"live", "suspended"}
    BY <1>2, <1>7, <1>9, <1>10, <1>1 DEF Gains, Loses, Stays, BecomeApp
  <2>3. /\ \A g : LastGain(g, r)' <=> LastGain(g, r)
        /\ \A g : LastGain(g, r) => (Lost(g, r)' <=> Lost(g, r))
    BY <1>5, <1>6, <1>8, <1>10
  <2>4. \A k \in DOMAIN log' : r \in log'[k].repos => k \in DOMAIN log /\ r \in log[k].repos
    BY <1>4, <1>10
  <2> QED
    BY <1>4, <1>7, <1>8, <2>1, <2>2, <2>3, <2>4
<1>11. CASE r \in d.repos /\ Gains(d)
  <2>1. home'[r] = d.inst /\ app'[d.inst] = "live"
    BY <1>1, <1>2, <1>11 DEF Gains, MoveTo, BecomeApp
  <2>2. \A g : LastGain(g, r)' <=> g = n
    BY <1>5, <1>6, <1>11 DEF Gains
  <2>3. \A k \in DOMAIN log' : ~(k > n)
    <3>1. n \in Nat
      BY <1>1, <1>3, LogGrows
    <3> QED
      BY <1>4, <3>1
  <2> QED
    BY <1>4, <1>6, <2>1, <2>2, <2>3
<1>12. CASE r \in d.repos /\ (Loses(d) \/ Stays(d))
  <2>1. home[r] = d.inst
    BY <1>12 DEF Loses, Stays
  <2>2. ~Gain(n, r)'
    BY <1>5, <1>12 DEF Loses, Stays
  <2>3. \A g : LastGain(g, r)' <=> LastGain(g, r)
    BY <1>6, <1>8, <2>2, <1>5
  <2>4. \A g : LastGain(g, r) => ~Lost(g, r) /\ log[g].inst = d.inst
    BY <1>1, <1>7, <2>1
  <2>5. IF Loses(d) THEN home'[r] = None
        ELSE home'[r] = d.inst /\ app'[d.inst] \in {"live", "suspended"}
    BY <1>1, <1>2, <1>12, <2>1 DEF Loses, Stays, MoveTo, BecomeApp
  <2>6. \A g : LastGain(g, r) => (Lost(g, r)' <=> Loses(d))
    BY <1>5, <1>6, <1>8, <1>12, <2>4 DEF Loses, Stays
  <2>7. \E g : LastGain(g, r)
    BY <1>1, <1>7, <2>1
  <2> QED
    BY <1>1, <1>4, <1>7, <1>8, <2>3, <2>4, <2>5, <2>6, <2>7
<1> QED
  BY <1>10, <1>11, <1>12

LEMMA GitHubTellsInstallations ==
  ASSUME Follow, NEW d \in Delivery, Adds(d), Gains(d) \/ Loses(d) \/ Stays(d)
  PROVE  ToldOfInstallations'
<1>1. IInv /\ d.inst \in Installation
  BY DEF Follow, Delivery
<1>2. app \in [Installation -> {"none", "live", "suspended", "gone"}]
  BY <1>1 DEF IInv, TypeOK
<1>3. PICK n : n = Len(log) + 1
  OBVIOUS
<1>4. /\ n \notin DOMAIN log /\ DOMAIN log' = DOMAIN log \cup {n} /\ log'[n] = d
      /\ \A k \in DOMAIN log : k \in Nat /\ k < n /\ log'[k] = log[k]
  BY <1>1, <1>3, LogGrows
<1>5. \A i : Life(n, i)' <=> /\ d.event \in {"created", "deleted", "suspend", "unsuspend"}
                             /\ d.inst = i
  BY <1>1, <1>3, OldEventsStay
<1>6. /\ \A i : LastLife(n, i)' <=> Life(n, i)'
      /\ \A i, e : e # n => (LastLife(e, i)' <=> LastLife(e, i) /\ ~Life(n, i)')
  BY <1>1, <1>3, LastOnes
<1>7. \A i, e : LastLife(e, i) => e \in DOMAIN log /\ e # n /\ log'[e] = log[e]
  BY <1>4 DEF LastLife
<1>8. /\ \A i \in Installation \ {d.inst} : app'[i] = app[i]
      /\ app'[d.inst] = IF d.event \in {"created", "deleted", "suspend", "unsuspend"}
                        THEN StateAfter(d.event) ELSE app[d.inst]
      /\ app[d.inst] # "gone"
      /\ d.event = "created" => ~d.suspended
      /\ d.event \in {"suspend", "unsuspend"} => d.repos = {}
  BY <1>1, <1>2 DEF Gains, Loses, Stays, BecomeApp, StateAfter
<1>9. ASSUME NEW i \in Installation
      PROVE (/\ app[i] # "none" => \E e : LastLife(e, i)
             /\ \A e : LastLife(e, i) => app[i] = StateAfter(log[e].event))'
  <2>1. /\ app[i] # "none" => \E e : LastLife(e, i)
        /\ \A e : LastLife(e, i) => app[i] = StateAfter(log[e].event)
    BY DEF Follow, ToldOfInstallations
  <2>2. CASE Life(n, i)'
    <3>1. \A e : LastLife(e, i)' <=> e = n
      BY <1>6, <2>2
    <3>2. app'[i] = StateAfter(d.event)
      BY <1>5, <1>8, <2>2
    <3> QED
      BY <1>4, <3>1, <3>2 DEF StateAfter
  <2>3. CASE ~Life(n, i)'
    <3>1. \A e : LastLife(e, i)' <=> LastLife(e, i)
      BY <1>6, <1>7, <2>3
    <3>2. app'[i] = app[i]
      BY <1>5, <1>8, <2>3
    <3> QED
      BY <1>7, <2>1, <3>1, <3>2 DEF StateAfter
  <2> QED
    BY <2>2, <2>3
<1>10. ASSUME NEW k \in DOMAIN log'
       PROVE  /\ log'[k].event = "deleted" => app'[log'[k].inst] = "gone"
              /\ log'[k].event = "created" => ~log'[k].suspended
              /\ log'[k].event \in {"suspend", "unsuspend"} => log'[k].repos = {}
  <2>1. CASE k = n
    BY <1>4, <1>8, <2>1 DEF StateAfter
  <2>2. CASE k \in DOMAIN log
    <3>1. /\ log[k].event = "deleted" => app[log[k].inst] = "gone"
          /\ log[k].event = "created" => ~log[k].suspended
          /\ log[k].event \in {"suspend", "unsuspend"} => log[k].repos = {}
      BY <2>2 DEF Follow, ToldOfInstallations
    <3>2. log[k] \in Delivery /\ log[k].inst \in Installation
      <4>1. log[k] \in Delivery
        BY <1>1, <2>2 DEF IInv, TypeOK
      <4> QED
        BY <4>1 DEF Delivery
    <3>3. log'[k] = log[k]
      BY <1>4, <2>2
    <3>4. log[k].event = "deleted" => app'[log[k].inst] = "gone"
      BY <1>8, <3>1, <3>2
    <3> QED
      BY <3>1, <3>3, <3>4
  <2> QED
    BY <1>4, <2>1, <2>2
<1> QED
  BY <1>9, <1>10 DEF ToldOfInstallations

LEMMA GitHubFollow == ASSUME Follow, GitHub PROVE Follow'
<1>1. IInv
  BY DEF Follow
<1>2. PICK d \in Delivery : Adds(d) /\ (Gains(d) \/ Loses(d) \/ Stays(d))
  BY <1>1, GitHubSays
<1>3. PICK n : n = Len(log) + 1
  OBVIOUS
<1>4. /\ n \notin DOMAIN log /\ DOMAIN log' = DOMAIN log \cup {n} /\ log'[n] = d
      /\ \A k \in DOMAIN log : k \in Nat /\ k < n /\ log'[k] = log[k]
  BY <1>1, <1>2, <1>3, LogGrows
<1>5. Queued' = Queued \cup {n} /\ UNCHANGED <<install, repo, ordered>>
  BY <1>2, <1>3 DEF Adds, Queued
<1>6. /\ \A r, g : g # n => (LastGain(g, r)' <=> LastGain(g, r) /\ ~Gain(n, r)')
      /\ \A r, g : g \in DOMAIN log => (Lost(g, r)' <=> Lost(g, r) \/ Loss(n, r)')
      /\ \A i, e : e # n => (LastLife(e, i)' <=> LastLife(e, i) /\ ~Life(n, i)')
  BY <1>1, <1>2, <1>3, LastOnes
<1>7. \A k \in DOMAIN log : \A r : Loss(k, r)' <=> Loss(k, r)
  BY <1>1, <1>2, <1>3, OldEventsStay
<1>8. RepositoriesFollow'
  <2> SUFFICES ASSUME NEW r \in Repo
               PROVE (/\ repo[r].source = "installed" => \E k \in DOMAIN log : r \in log[k].repos
                      /\ \A g : ordered /\ LastGain(g, r) /\ g \notin Queued =>
                           /\ repo[r].source = "installed" /\ repo[r].inst = log[g].inst
                           /\ ~Lost(g, r) => repo[r].active
                           /\ \A k \in DOMAIN log : k > g /\ Loss(k, r) /\ k \notin Queued
                                                      => ~repo[r].active)'
    BY DEF RepositoriesFollow
  <2>1. /\ repo[r].source = "installed" => \E k \in DOMAIN log : r \in log[k].repos
        /\ \A g : ordered /\ LastGain(g, r) /\ g \notin Queued =>
             /\ repo[r].source = "installed" /\ repo[r].inst = log[g].inst
             /\ ~Lost(g, r) => repo[r].active
             /\ \A k \in DOMAIN log : k > g /\ Loss(k, r) /\ k \notin Queued => ~repo[r].active
    BY DEF Follow, RepositoriesFollow
  <2>2. ASSUME NEW g, LastGain(g, r)', g \notin Queued'
        PROVE  LastGain(g, r) /\ g \notin Queued /\ g \in DOMAIN log
    BY <1>5, <1>6, <2>2 DEF LastGain
  <2> QED
    BY <1>4, <1>5, <1>6, <1>7, <2>1, <2>2
<1>9. InstallationsFollow'
  <2> SUFFICES ASSUME NEW i \in Installation, NEW e \in DOMAIN log',
                      ordered', LastLife(e, i)', e \notin Queued'
               PROVE  Shows(install'[i], log'[e].event)
    BY DEF InstallationsFollow, Shows
  <2>1. e # n /\ e \in DOMAIN log /\ LastLife(e, i) /\ e \notin Queued /\ ordered
    BY <1>4, <1>5, <1>6
  <2>2. Shows(install[i], log[e].event)
    BY <2>1 DEF Follow, InstallationsFollow
  <2> QED
    BY <1>4, <1>5, <2>1, <2>2
<1> QED
  BY <1>2, <1>8, <1>9, GitHubIInv, GitHubTellsRepositories, GitHubTellsInstallations DEF Follow
-------------------------------------------------------------------------------
(* Handling the k-th delivery takes nothing else out of the queue, and if   *)
(* it is in order, no younger change was handled before.                   *)
LEMMA HandledInOrder ==
  ASSUME NEW k \in DOMAIN log,
         (\E acknowledged \in BOOLEAN : HandleLive(k, acknowledged)) \/ HandleHistory(k)
  PROVE  /\ Handle(log[k]) /\ log' = log /\ home' = home /\ app' = app
         /\ k \in Queued /\ Queued' \subseteq Queued /\ Queued \subseteq Queued' \cup {k}
         /\ ordered' => /\ ordered
                        /\ \/ Undisturbing(log[k])
                           \/ \A j \in DOMAIN log \ Queued : j > k => log[j].event = "job"
<1>1. CASE \E acknowledged \in BOOLEAN : HandleLive(k, acknowledged)
  BY <1>1 DEF HandleLive, Handle, github, InOrder, Queued
<1>2. CASE HandleHistory(k)
  BY <1>2 DEF HandleHistory, Handle, github, InOrder, Queued
<1> QED
  BY <1>1, <1>2

Announces(d) == d.event \in {"created", "added", "suspend", "unsuspend"}

(* What a delivery makes of the row of one repository.                     *)
LEMMA HandledRow ==
  ASSUME IInv, NEW d \in Delivery, Handle(d), NEW r \in Repo
  PROVE  /\ Announces(d) =>
              IF r \in d.repos
              THEN repo'[r].source = "installed" /\ repo'[r].inst = d.inst /\ repo'[r].active
              ELSE repo'[r] = repo[r]
         /\ d.event = "job" =>
              IF r \in d.repos
              THEN /\ repo'[r].source = "installed" /\ repo'[r].inst = d.inst
                   /\ repo'[r].active = (repo[r] = Absent \/ repo[r].active)
              ELSE repo'[r] = repo[r]
         /\ d.event \in {"deleted", "removed"} =>
              IF IF d.event = "deleted" THEN repo[r].inst = d.inst ELSE r \in d.repos
              THEN /\ repo'[r].source = repo[r].source /\ repo'[r].inst = repo[r].inst
                   /\ ~repo'[r].active
              ELSE repo'[r] = repo[r]
<1>1. d.repos \subseteq Repo /\ d.inst \in Installation
  BY DEF Delivery
<1>2. repo[r] \in RepoRow
  BY DEF IInv, TypeOK
<1>3. CASE Announces(d)
  <2>1. repo' = UpsertInstalled(repo, d.repos, d.inst, TRUE)
    BY <1>3 DEF Announces, Handle, HandleInstallation, HandleInstallationRepositories, EnsureRepo
  <2> QED
    BY <1>3, <2>1 DEF UpsertInstalled, Announces
<1>4. CASE d.event = "job"
  <2>1. repo' = UpsertInstalled(repo, d.repos, d.inst, FALSE)
    BY <1>4 DEF Handle, HandleInstallation, HandleInstallationRepositories, EnsureRepo
  <2> QED
    BY <1>4, <2>1 DEF UpsertInstalled, Announces
<1>5. CASE d.event \in {"deleted", "removed"}
  <2> DEFINE R == IF d.event = "deleted" THEN {x \in Repo : repo[x].inst = d.inst} ELSE d.repos
  <2>1. repo' = Deactivate(repo, R)
    BY <1>5 DEF Handle, HandleInstallation, HandleInstallationRepositories, EnsureRepo,
                DeactivateAllOf
  <2>2. repo'[r] = IF r \in R THEN [repo[r] EXCEPT !.active = FALSE] ELSE repo[r]
    BY <2>1 DEF Deactivate
  <2>3. \A row \in RepoRow : /\ [row EXCEPT !.active = FALSE].source = row.source
                             /\ [row EXCEPT !.active = FALSE].inst = row.inst
                             /\ ~[row EXCEPT !.active = FALSE].active
    BY DEF RepoRow, Absent
  <2> QED
    BY <1>2, <1>5, <2>2, <2>3 DEF Announces
<1>6. Announces(d) \/ d.event = "job" \/ d.event \in {"deleted", "removed"}
  BY DEF Delivery, Announces
<1> QED
  BY <1>3, <1>4, <1>5, <1>6 DEF Announces

LEMMA HandledInstallation ==
  ASSUME IInv, NEW d \in Delivery, Handle(d), NEW i \in Installation
  PROVE  IF d.inst = i /\ d.event \in {"created", "deleted", "suspend", "unsuspend"}
         THEN install'[i] =
                [suspended |-> d.event = "suspend" \/ (d.suspended /\ d.event # "unsuspend"),
                 deleted   |-> d.event = "deleted"]
         ELSE install[i] # None => install'[i] = install[i]
<1>1. install \in [Installation -> InstallRow] /\ d.inst \in Installation
  BY DEF IInv, TypeOK, InstallRow, Delivery
<1>2. PICK stubbed : stubbed = Stub(install, d.inst)
  OBVIOUS
<1>3. /\ stubbed \in [Installation -> InstallRow]
      /\ install[i] # None => stubbed[i] = install[i]
  <2>1. stubbed \in [Installation -> InstallRow]
    BY <1>1, <1>2, StubKeeps
  <2>2. install[i] # None => stubbed[i] = install[i]
    BY <1>1, <1>2 DEF Stub
  <2> QED
    BY <2>1, <2>2
<1>4. CASE d.event \in {"created", "deleted", "suspend", "unsuspend"}
  <2>1. install' = Lifecycle(stubbed, d)
    BY <1>2, <1>4 DEF Handle, HandleInstallation, HandleInstallationRepositories, EnsureRepo
  <2> QED
    BY <1>1, <1>3, <1>4, <2>1 DEF Lifecycle
<1>5. CASE d.event \notin {"created", "deleted", "suspend", "unsuspend"}
  <2>1. install' = stubbed
    BY <1>2, <1>5 DEF Handle, HandleInstallation, HandleInstallationRepositories, EnsureRepo
  <2> QED
    BY <1>3, <1>5, <2>1
<1> QED
  BY <1>4, <1>5

(* With the log as it was, the same gains, losses and lifecycle events.    *)
LEMMA SameLog ==
  ASSUME log' = log
  PROVE  /\ \A g, r : /\ LastGain(g, r)' <=> LastGain(g, r)
                      /\ Lost(g, r)' <=> Lost(g, r)
                      /\ Loss(g, r)' <=> Loss(g, r)
         /\ \A e, i : LastLife(e, i)' <=> LastLife(e, i)
  BY DEF LastGain, Lost, Gain, Loss, LastLife, Life

LEMMA SameGitHub ==
  ASSUME log' = log, home' = home, app' = app, ToldOfRepositories, ToldOfInstallations
  PROVE  ToldOfRepositories' /\ ToldOfInstallations'
<1>1. ToldOfRepositories'
  BY SameLog DEF ToldOfRepositories
<1>2. ToldOfInstallations'
  BY SameLog DEF ToldOfInstallations, StateAfter
<1> QED
  BY <1>1, <1>2

LEMMA HandleRepositoriesFollow ==
  ASSUME Follow, NEW k \in DOMAIN log,
         (\E acknowledged \in BOOLEAN : HandleLive(k, acknowledged)) \/ HandleHistory(k)
  PROVE  RepositoriesFollow'
<1>1. IInv /\ log[k] \in Delivery
  BY DEF Follow, IInv, TypeOK
<1>2. /\ Handle(log[k]) /\ log' = log /\ home' = home /\ app' = app
      /\ k \in Queued /\ Queued' \subseteq Queued /\ Queued \subseteq Queued' \cup {k}
      /\ ordered' => /\ ordered
                     /\ \/ Undisturbing(log[k])
                        \/ \A j \in DOMAIN log \ Queued : j > k => log[j].event = "job"
  BY HandledInOrder
<1>3. PICK d \in Delivery : d = log[k]
  BY <1>1
<1>4. Announces(d) \/ d.event = "job" \/ d.event \in {"deleted", "removed"}
  BY DEF Delivery, Announces
<1>5. /\ d.event = "deleted" => app[d.inst] = "gone"
      /\ d.event \in {"suspend", "unsuspend"} => d.repos = {}
  BY <1>3 DEF Follow, ToldOfInstallations
<1>6. \A j \in DOMAIN log : j \in Nat
  BY <1>1 DEF IInv, TypeOK
<1> SUFFICES ASSUME NEW r \in Repo
             PROVE (/\ repo[r].source = "installed" => \E j \in DOMAIN log : r \in log[j].repos
                    /\ \A g : ordered /\ LastGain(g, r) /\ g \notin Queued =>
                         /\ repo[r].source = "installed" /\ repo[r].inst = log[g].inst
                         /\ ~Lost(g, r) => repo[r].active
                         /\ \A j \in DOMAIN log : j > g /\ Loss(j, r) /\ j \notin Queued
                                                    => ~repo[r].active)'
  BY DEF RepositoriesFollow
<1>7. /\ Announces(d) =>
           IF r \in d.repos
           THEN repo'[r].source = "installed" /\ repo'[r].inst = d.inst /\ repo'[r].active
           ELSE repo'[r] = repo[r]
      /\ d.event = "job" =>
           IF r \in d.repos
           THEN /\ repo'[r].source = "installed" /\ repo'[r].inst = d.inst
                /\ repo'[r].active = (repo[r] = Absent \/ repo[r].active)
           ELSE repo'[r] = repo[r]
      /\ d.event \in {"deleted", "removed"} =>
           IF IF d.event = "deleted" THEN repo[r].inst = d.inst ELSE r \in d.repos
           THEN /\ repo'[r].source = repo[r].source /\ repo'[r].inst = repo[r].inst
                /\ ~repo'[r].active
           ELSE repo'[r] = repo[r]
  BY <1>1, <1>2, <1>3, HandledRow
<1>8. /\ repo[r].source = "installed" => \E j \in DOMAIN log : r \in log[j].repos
      /\ \A g : ordered /\ LastGain(g, r) /\ g \notin Queued =>
           /\ repo[r].source = "installed" /\ repo[r].inst = log[g].inst
           /\ ~Lost(g, r) => repo[r].active
           /\ \A j \in DOMAIN log : j > g /\ Loss(j, r) /\ j \notin Queued => ~repo[r].active
  BY DEF Follow, RepositoriesFollow
<1>9. repo'[r].source = "installed" => \E j \in DOMAIN log' : r \in log'[j].repos
  BY <1>2, <1>3, <1>4, <1>7, <1>8
<1>10. ASSUME NEW g, ordered', LastGain(g, r), g \notin Queued'
       PROVE  /\ repo'[r].source = "installed" /\ repo'[r].inst = log[g].inst
              /\ ~Lost(g, r) => repo'[r].active
              /\ \A j \in DOMAIN log : j > g /\ Loss(j, r) /\ j \notin Queued' => ~repo'[r].active
  <2>1. /\ g \in DOMAIN log /\ g \in Nat /\ k \in Nat
        /\ log[g].event \in {"created", "added"} /\ r \in log[g].repos
        /\ \A j \in DOMAIN log : j > g => ~Gain(j, r)
    BY <1>6, <1>10 DEF LastGain, Gain
  <2>2. /\ ordered
        /\ Undisturbing(d) \/ \A j \in DOMAIN log \ Queued : j > k => log[j].event = "job"
    BY <1>2, <1>3, <1>10
  <2>3. Undisturbing(d) => d.event = "job" /\ (r \in d.repos => repo[r].inst = d.inst)
    BY DEF Undisturbing
  <2>4. CASE g = k
    <3>1. repo'[r].source = "installed" /\ repo'[r].inst = log[g].inst /\ repo'[r].active
      BY <1>3, <1>7, <2>1, <2>4 DEF Announces
    <3>2. ASSUME NEW j \in DOMAIN log, j > g, Loss(j, r), j \notin Queued' PROVE FALSE
      <4>1. j # k /\ j \in DOMAIN log \ Queued /\ j > k
        BY <1>2, <1>6, <2>1, <2>4, <3>2
      <4>2. log[j].event # "job"
        BY <3>2 DEF Loss
      <4> QED
        BY <1>3, <2>1, <2>2, <2>3, <2>4, <4>1, <4>2
    <3> QED
      BY <3>1, <3>2
  <2>5. CASE g # k
    <3>1. g \in DOMAIN log \ Queued /\ g \notin Queued
      BY <1>2, <1>10, <2>1, <2>5
    <3>2. /\ repo[r].source = "installed" /\ repo[r].inst = log[g].inst
          /\ ~Lost(g, r) => repo[r].active
          /\ \A j \in DOMAIN log : j > g /\ Loss(j, r) /\ j \notin Queued => ~repo[r].active
      BY <1>8, <1>10, <2>2, <3>1
    <3>3. repo[r] # Absent
      BY <3>2, AbsentRows
    <3>4. g > k => Undisturbing(d)
      BY <2>1, <2>2, <3>1
    <3>5. k > g /\ r \in d.repos => d.inst = log[g].inst
      BY <1>3, <1>10, <2>1 DEF Follow, ToldOfRepositories
    <3>6. g > k \/ k > g
      BY <2>1, <2>5
    <3>7. \A j \in DOMAIN log : j \notin Queued' => j = k \/ j \notin Queued
      BY <1>2
    <3>8. CASE Announces(d)
      <4>1. r \notin d.repos
        <5>1. ASSUME r \in d.repos PROVE FALSE
          <6>1. d.event \in {"created", "added"}
            BY <1>5, <3>8, <5>1 DEF Announces
          <6>2. ~(k > g)
            BY <1>3, <2>1, <5>1, <6>1 DEF Gain
          <6> QED
            BY <2>3, <3>4, <3>6, <6>1, <6>2
        <5> QED
          BY <5>1
      <4>2. ~Loss(k, r)
        BY <1>3, <4>1 DEF Loss
      <4> QED
        BY <1>7, <3>2, <3>7, <3>8, <4>1, <4>2
    <3>9. CASE d.event = "job"
      <4>1. ~Loss(k, r)
        BY <1>3, <3>9 DEF Loss
      <4>2. CASE r \notin d.repos
        BY <1>7, <3>2, <3>7, <3>9, <4>1, <4>2
      <4>3. CASE r \in d.repos
        <5>1. d.inst = log[g].inst
          BY <2>3, <3>2, <3>4, <3>5, <3>6, <4>3
        <5> QED
          BY <1>7, <3>2, <3>3, <3>7, <3>9, <4>1, <4>3, <5>1
      <4> QED
        BY <4>2, <4>3
    <3>10. CASE d.event = "removed"
      <4>1. CASE r \notin d.repos
        <5>1. ~Loss(k, r)
          BY <1>3, <4>1 DEF Loss
        <5> QED
          BY <1>7, <3>2, <3>7, <3>10, <4>1, <5>1
      <4>2. CASE r \in d.repos
        <5>1. k > g
          BY <2>3, <3>4, <3>6, <3>10
        <5>2. Lost(g, r)
          BY <1>3, <3>10, <4>2, <5>1 DEF Lost, Loss
        <5> QED
          BY <1>7, <3>2, <3>10, <4>2, <5>2
      <4> QED
        BY <4>1, <4>2
    <3>11. CASE d.event = "deleted"
      <4>1. CASE repo[r].inst = d.inst
        <5>1. Lost(g, r)
          <6>1. /\ home[r] # None => app[home[r]] \in {"live", "suspended"}
                /\ home[r] = IF Lost(g, r) THEN None ELSE log[g].inst
            BY <1>10 DEF Follow, ToldOfRepositories
          <6>2. d.inst # None
            BY ConstantsAssumption DEF ConstantsAssumption, Delivery
          <6> QED
            BY <1>5, <3>2, <3>11, <4>1, <6>1, <6>2
        <5> QED
          BY <1>7, <3>2, <3>11, <4>1, <5>1
      <4>2. CASE repo[r].inst # d.inst
        <5>1. k > g => ~Loss(k, r)
          BY <1>3, <3>2, <3>5, <4>2 DEF Loss
        <5> QED
          BY <1>7, <3>2, <3>7, <3>11, <4>2, <5>1
      <4> QED
        BY <4>1, <4>2
    <3> QED
      BY <1>4, <3>8, <3>9, <3>10, <3>11
  <2> QED
    BY <2>4, <2>5
<1> QED
  BY <1>2, <1>9, <1>10, SameLog

LEMMA HandleInstallationsFollow ==
  ASSUME Follow, NEW k \in DOMAIN log,
         (\E acknowledged \in BOOLEAN : HandleLive(k, acknowledged)) \/ HandleHistory(k)
  PROVE  InstallationsFollow'
<1>1. IInv /\ log[k] \in Delivery
  BY DEF Follow, IInv, TypeOK
<1>2. /\ Handle(log[k]) /\ log' = log
      /\ Queued \subseteq Queued' \cup {k}
      /\ ordered' => /\ ordered
                     /\ \/ Undisturbing(log[k])
                        \/ \A j \in DOMAIN log \ Queued : j > k => log[j].event = "job"
  BY HandledInOrder
<1>3. PICK d \in Delivery : d = log[k]
  BY <1>1
<1> SUFFICES ASSUME NEW i \in Installation, NEW e \in DOMAIN log,
                    ordered', LastLife(e, i), e \notin Queued'
             PROVE  Shows(install'[i], log[e].event)
  BY <1>2, SameLog DEF InstallationsFollow, Shows
<1>4. /\ log[e].event \in {"created", "deleted", "suspend", "unsuspend"} /\ log[e].inst = i
      /\ \A j \in DOMAIN log : j > e => ~Life(j, i)
      /\ e \in Nat /\ k \in Nat
  BY <1>1 DEF LastLife, Life, IInv, TypeOK
<1>5. IF d.inst = i /\ d.event \in {"created", "deleted", "suspend", "unsuspend"}
      THEN install'[i] =
             [suspended |-> d.event = "suspend" \/ (d.suspended /\ d.event # "unsuspend"),
              deleted   |-> d.event = "deleted"]
      ELSE install[i] # None => install'[i] = install[i]
  BY <1>1, <1>2, <1>3, HandledInstallation
<1>6. CASE e = k
  <2>1. d.event = "created" => ~d.suspended
    BY <1>3 DEF Follow, ToldOfInstallations
  <2>2. install'[i] =
          [suspended |-> d.event = "suspend" \/ (d.suspended /\ d.event # "unsuspend"),
           deleted   |-> d.event = "deleted"]
    BY <1>3, <1>4, <1>5, <1>6
  <2>3. install'[i] \in [suspended : BOOLEAN, deleted : BOOLEAN]
    BY <2>2 DEF Delivery
  <2>4. install'[i] # None
    BY <2>3, LifecycleRows
  <2>5. install'[i].deleted = (d.event = "deleted")
    BY <2>2
  <2>6. d.event # "deleted" => install'[i].suspended = (d.event = "suspend")
    BY <1>3, <1>4, <1>6, <2>1, <2>2
  <2> QED
    BY <1>3, <1>6, <2>4, <2>5, <2>6 DEF Shows
<1>7. CASE e # k
  <2>1. e \in DOMAIN log \ Queued
    BY <1>2, <1>7
  <2>2. Shows(install[i], log[e].event)
    BY <1>2, <2>1 DEF Follow, InstallationsFollow
  <2>3. ~(d.inst = i /\ d.event \in {"created", "deleted", "suspend", "unsuspend"})
    <3> SUFFICES ASSUME d.inst = i, d.event \in {"created", "deleted", "suspend", "unsuspend"}
                 PROVE  FALSE
      OBVIOUS
    <3>1. ~(k > e)
      BY <1>3, <1>4 DEF Life
    <3>2. e > k
      BY <1>4, <1>7, <3>1
    <3>3. ~Undisturbing(log[k])
      BY <1>3 DEF Undisturbing
    <3> QED
      BY <1>2, <1>4, <2>1, <3>2, <3>3
  <2> QED
    BY <1>5, <2>2, <2>3 DEF Shows
<1> QED
  BY <1>6, <1>7

LEMMA HandleFollow ==
  ASSUME Follow, NEW k \in DOMAIN log,
         (\E acknowledged \in BOOLEAN : HandleLive(k, acknowledged)) \/ HandleHistory(k)
  PROVE  Follow'
<1>1. log' = log /\ home' = home /\ app' = app
  BY HandledInOrder
<1>2. IInv'
  BY HandleIInv DEF Follow
<1> QED
  BY <1>1, <1>2, SameGitHub, HandleRepositoriesFollow, HandleInstallationsFollow DEF Follow
-------------------------------------------------------------------------------
(* A re-evaluation puts everything back into the queue.                    *)
LEMMA ReevaluateFollow == ASSUME Follow, Reevaluate PROVE Follow'
<1>1. /\ UNCHANGED <<log, home, app, repo, install, ordered>>
      /\ DOMAIN log \subseteq Queued'
  BY DEF Reevaluate, github, tables, Queued
<1>2. IInv'
  BY ReevaluateIInv DEF Follow
<1>3. RepositoriesFollow'
  <2>1. \A r, g : LastGain(g, r)' => g \in Queued'
    BY <1>1 DEF LastGain
  <2>2. \A r \in Repo : repo[r].source = "installed" => \E k \in DOMAIN log : r \in log[k].repos
    BY DEF Follow, RepositoriesFollow
  <2> QED
    BY <1>1, <2>1, <2>2 DEF RepositoriesFollow
<1>4. InstallationsFollow'
  BY <1>1 DEF InstallationsFollow
<1> QED
  BY <1>1, <1>2, <1>3, <1>4, SameGitHub DEF Follow

(* The crawl leaves installed rows to their installation, and installs     *)
(* none.                                                                   *)
LEMMA CrawlFollow ==
  ASSUME Follow, NEW s \in Scouts, Search(s) \/ Screen(s) \/ CommitBand(s) \/ AbandonBand(s)
  PROVE  Follow'
<1>1. /\ UNCHANGED <<log, home, app, live, history, install, ordered>>
      /\ Queued' = Queued
  BY DEF Search, Screen, CommitBand, AbandonBand, github, queue, tables, Queued
<1>2. IInv'
  BY SearchKeeps, ScreenKeeps, CommitBandKeeps, AbandonBandKeeps DEF Follow
<1>3. ASSUME NEW r \in Repo
      PROVE  IF repo[r].source = "installed"
             THEN /\ repo'[r].source = "installed" /\ repo'[r].inst = repo[r].inst
                  /\ repo'[r].active = repo[r].active
             ELSE repo'[r].source # "installed"
  <2>1. CASE repo' = repo
    BY <2>1
  <2>2. CASE CommitBand(s)
    <3>1. repo[r] \in RepoRow
      BY DEF Follow, IInv, TypeOK
    <3>2. repo'[r] = IF r \notin pass[s].recorded THEN repo[r]
                     ELSE IF repo[r] = Absent THEN Observed
                     ELSE [repo[r] EXCEPT !.private = FALSE]
      BY <2>2 DEF CommitBand, UpsertObserved
    <3>3. \A row \in RepoRow : /\ [row EXCEPT !.private = FALSE].source = row.source
                               /\ [row EXCEPT !.private = FALSE].inst = row.inst
                               /\ [row EXCEPT !.private = FALSE].active = row.active
      BY DEF RepoRow, Absent
    <3>4. Observed.source # "installed" /\ Absent.source # "installed"
      BY AbsentRows DEF Observed
    <3> QED
      BY <3>1, <3>2, <3>3, <3>4
  <2> QED
    BY <2>1, <2>2 DEF Search, Screen, AbandonBand, tables
<1>4. RepositoriesFollow'
  BY <1>1, <1>3, SameLog DEF Follow, RepositoriesFollow
<1>5. InstallationsFollow'
  BY <1>1, SameLog DEF Follow, InstallationsFollow, Shows
<1> QED
  BY <1>1, <1>2, <1>4, <1>5, SameGitHub DEF Follow

LEMMA NextFollow == ASSUME Follow, [Next]_vars PROVE Follow'
<1>1. CASE UNCHANGED vars
  <2>1. UNCHANGED <<log, home, app, live, history, install, repo, ordered>> /\ Queued' = Queued
    BY <1>1 DEF vars, github, queue, tables, Queued
  <2>2. IInv'
    BY NextIInv DEF Follow
  <2>3. RepositoriesFollow' /\ InstallationsFollow'
    BY <2>1, SameLog DEF Follow, RepositoriesFollow, InstallationsFollow, Shows
  <2> QED
    BY <2>1, <2>2, <2>3, SameGitHub DEF Follow
<1> QED
  BY <1>1, GitHubFollow, HandleFollow, ReevaluateFollow, CrawlFollow DEF Next

LEMMA FollowConverges == ASSUME Follow PROVE Converges
<1> SUFFICES ASSUME Settled PROVE InstallationsAgree /\ RepositoriesAgree
  BY DEF Converges
<1>1. Queued = {} /\ ordered
  BY DEF Settled, Queued
<1>2. InstallationsAgree
  <2> SUFFICES ASSUME NEW i \in Installation, app[i] # "none"
               PROVE  /\ install[i].deleted = (app[i] = "gone")
                      /\ app[i] # "gone" => install[i].suspended = (app[i] = "suspended")
    BY DEF InstallationsAgree
  <2>1. PICK e : LastLife(e, i)
    BY DEF Follow, ToldOfInstallations
  <2>2. app[i] = StateAfter(log[e].event)
    BY <2>1 DEF Follow, ToldOfInstallations
  <2>3. Shows(install[i], log[e].event)
    BY <1>1, <2>1 DEF Follow, InstallationsFollow, LastLife
  <2> QED
    BY <2>2, <2>3 DEF Shows, StateAfter
<1>3. RepositoriesAgree
  <2> SUFFICES ASSUME NEW r \in Repo
               PROVE  IF home[r] = None
                      THEN repo[r].source = "installed" => ~repo[r].active
                      ELSE repo[r].source = "installed" /\ repo[r].inst = home[r] /\ repo[r].active
    BY DEF RepositoriesAgree
  <2>1. CASE home[r] = None /\ repo[r].source # "installed"
    BY <2>1
  <2>2. CASE home[r] # None \/ repo[r].source = "installed"
    <3>1. PICK g : LastGain(g, r)
      BY <2>2 DEF Follow, ToldOfRepositories, RepositoriesFollow
    <3>2. home[r] = IF Lost(g, r) THEN None ELSE log[g].inst
      BY <3>1 DEF Follow, ToldOfRepositories
    <3>3. /\ repo[r].source = "installed" /\ repo[r].inst = log[g].inst
          /\ ~Lost(g, r) => repo[r].active
          /\ \A k \in DOMAIN log : k > g /\ Loss(k, r) => ~repo[r].active
      BY <1>1, <3>1 DEF Follow, RepositoriesFollow
    <3>4. log[g].inst # None
      <4>1. log[g] \in Delivery
        BY <3>1 DEF Follow, IInv, TypeOK, LastGain
      <4> QED
        BY <4>1, ConstantsAssumption DEF ConstantsAssumption, Delivery
    <3>5. Lost(g, r) => ~repo[r].active
      BY <3>3 DEF Lost
    <3> QED
      BY <3>2, <3>3, <3>4, <3>5
  <2> QED
    BY <2>1, <2>2
<1> QED
  BY <1>2, <1>3

(* Handled in order, repeated, re-evaluated and beside any crawl, the       *)
(* deliveries leave installations and repositories as GitHub has them:      *)
(* what set_installation_lifecycle, upsert_repository and                   *)
(* set_repositories_active write adds up to the truth.                      *)
THEOREM TablesConverge == Spec => []Converges
<1>1. Follow => Converges
  BY FollowConverges
<1>2. Follow /\ [Next]_vars => Follow'
  BY NextFollow
<1> QED
  BY <1>1, <1>2, InitFollow, PTL DEF Spec
-------------------------------------------------------------------------------
(* Where the queue keeps its order and nothing is re-evaluated, what is     *)
(* still to be handled is the youngest part of the log.                    *)
Undisturbed ==
  /\ ordered /\ history = {} /\ replays = 0
  /\ \A k \in live, j \in DOMAIN log : j > k => j \in live

LEMMA NextUndisturbed ==
  ASSUME ~Reorder, ReplayLimit = 0, IInv, Undisturbed, [Next]_vars
  PROVE  Undisturbed'
<1> USE DEF Undisturbed
<1>1. CASE GitHub
  <2>1. PICK d \in Delivery : Adds(d)
    BY <1>1, GitHubSays
  <2>2. PICK n : n = Len(log) + 1
    OBVIOUS
  <2>3. /\ n \in Nat /\ n \notin DOMAIN log /\ DOMAIN log' = DOMAIN log \cup {n}
        /\ \A k \in DOMAIN log : k \in Nat /\ k < n
    BY <2>1, <2>2, LogGrows
  <2>4. live' = live \cup {n} /\ UNCHANGED <<ordered, history, replays>>
    BY <2>1, <2>2 DEF Adds
  <2>5. \A j \in DOMAIN log' : ~(j > n)
    BY <2>3
  <2> QED
    BY <2>3, <2>4, <2>5
<1>2. ASSUME NEW k \in DOMAIN log, NEW acknowledged \in BOOLEAN, HandleLive(k, acknowledged)
      PROVE  Undisturbed'
  <2>1. /\ k \in live /\ log' = log /\ live' = (IF acknowledged THEN live \ {k} ELSE live)
        /\ UNCHANGED <<history, replays>>
        /\ \A j \in live : k <= j
        /\ ordered' = (ordered /\ InOrder(k, live) /\ (history = {} \/ Undisturbing(log[k])))
    BY <1>2 DEF HandleLive, Handle, Oldest, github
  <2>2. \A j \in DOMAIN log : j > k => j \in live
    BY <2>1
  <2>3. ordered'
    BY <2>1, <2>2 DEF InOrder
  <2>4. \A m \in live', j \in DOMAIN log' : j > m => j \in live'
    <3> SUFFICES ASSUME NEW m \in live', NEW j \in DOMAIN log, j > m PROVE j \in live'
      BY <2>1
    <3>1. m \in live /\ m \in Nat /\ j \in Nat /\ k \in Nat
      BY <2>1 DEF IInv, TypeOK
    <3>2. j \in live /\ j # k
      BY <2>1, <3>1
    <3> QED
      BY <2>1, <3>2
  <2> QED
    BY <2>1, <2>3, <2>4
<1>3. ASSUME NEW k \in DOMAIN log, HandleHistory(k) PROVE Undisturbed'
  BY <1>3 DEF HandleHistory
<1>4. CASE Reevaluate
  BY <1>4 DEF Reevaluate
<1>5. ASSUME NEW s \in Scouts, Search(s) \/ Screen(s) \/ CommitBand(s) \/ AbandonBand(s)
      PROVE  Undisturbed'
  BY <1>5 DEF Search, Screen, CommitBand, AbandonBand, github, queue
<1>6. CASE UNCHANGED vars
  BY <1>6 DEF vars, github, queue
<1> QED
  BY <1>1, <1>2, <1>3, <1>4, <1>5, <1>6 DEF Next

(* It takes a re-evaluation, or a queue out of order, to publish again      *)
(* what its owner removed: with neither, the public board never shows it    *)
(* once everything is handled, whatever deliveries are repeated and         *)
(* whatever the crawl writes meanwhile.                                     *)
THEOREM UninstallsHoldInOrder ==
  ASSUME ~Reorder, ReplayLimit = 0
  PROVE  Spec => []UninstallHolds
<1>1. Follow /\ Undisturbed => UninstallHolds
  <2> SUFFICES ASSUME Follow, Undisturbed, live = {}, NEW r \in Repo, r \in Published,
                      repo[r].source = "installed"
               PROVE  home[r] # None
    BY DEF UninstallHolds, Published
  <2>1. RepositoriesAgree
    BY FollowConverges DEF Converges, Settled, Undisturbed
  <2> QED
    BY <2>1 DEF RepositoriesAgree, Published
<1>2. Follow /\ Undisturbed /\ [Next]_vars => (Follow /\ Undisturbed)'
  BY NextFollow, NextUndisturbed DEF Follow
<1>3. Init => Follow /\ Undisturbed
  BY InitFollow DEF Init, Undisturbed
<1> QED
  BY <1>1, <1>2, <1>3, PTL DEF Spec
===============================================================================
