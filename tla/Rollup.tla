-------------------------------- MODULE Rollup --------------------------------
(***************************************************************************)
(* The daily rollup (backend/app/rollup.py), the part of sweep and         *)
(* run_forever in backend/app/worker.py that drives it, and what the board *)
(* (backend/app/stats.py) reads of it.                                     *)
(*                                                                         *)
(* A worker handles a batch, in which transactions write facts, or rolls   *)
(* up, one repository after the other.  An operator rolls up from the      *)
(* command line beside it.  The rollup of one repository is a transaction  *)
(* of four steps: the SELECT of its INSERT reads a snapshot, the INSERT    *)
(* takes the rows' locks, the DELETE sees what is committed by then, and   *)
(* COMMIT shows it all.                                                    *)
(*                                                                         *)
(* Time goes in ticks.  Repository ages, transactions and passes are       *)
(* measured in them; the rollup of one repository takes less than one.     *)
(***************************************************************************)
EXTENDS Naturals, FiniteSets, FiniteSetsExt

CONSTANTS Worker,      \* worker processes
          Operator,    \* runs of python -m app.rollup
          Job,         \* job executions, as GitHub will conclude them
          RollupDays,  \* rollup_days
          BoardDays,   \* window_days of the board
          CliDays,     \* values of --days
          LastDay,     \* bound: days go from 0 to LastDay
          Slack,       \* ticks that the sweep looks back
          Delay,       \* bound: ticks between the passes of a worker
          None

Verdict == {"success", "failure", "skipped"}

ASSUME ConstantsAssumption ==
  /\ {RollupDays, BoardDays, LastDay, Slack, Delay} \subseteq Nat
  /\ CliDays \subseteq Nat
  /\ IsFiniteSet(Job)
  /\ \A j \in Job : {"repo", "run", "name", "day", "workflow", "verdict"} \subseteq DOMAIN j
  /\ \A j \in Job : /\ j.day \in 0 .. LastDay
                    /\ j.verdict \in Verdict
                    /\ j.workflow # None
  /\ Worker \cap Operator = {}

Repo   == {j.repo : j \in Job}
Roller == Worker \cup Operator

VARIABLES facts,   \* tables jobs and flake_events, by job
          stats,   \* table job_stats_daily, by repository
          today,   \* the UTC date
          age,     \* age[r]: ticks since max(jobs.updated_at) of r, up to Slack + 1
          phase,   \* what a process is doing
          clock,   \* ticks since its transaction or its pass began
          since,   \* ticks since the start of the last pass a worker finished
          todo,    \* the repositories that are left of its pass
          rollup   \* the transaction of rollup_repository a process has open

vars == <<facts, stats, today, age, phase, clock, since, todo, rollup>>

Absent  == [stage |-> "absent", workflow |-> None, flaky |-> FALSE]
Nothing == [k \in {} |-> None]
Closed  == [at |-> "closed", repo |-> None, from |-> 0, rows |-> Nothing, gone |-> {}]

Init ==
  /\ facts = [j \in Job |-> Absent]
  /\ stats = [r \in Repo |-> Nothing]
  /\ today = 0
  /\ age = [r \in Repo |-> Slack + 1]
  /\ phase = [x \in Roller |-> "idle"]
  /\ clock = [x \in Roller |-> 0]
  /\ since = [w \in Worker |-> 0]
  /\ todo = [x \in Roller |-> {}]
  /\ rollup = [x \in Roller |-> Closed]
-------------------------------------------------------------------------------
JobsOf(r) == {j \in Job : j.repo = r}

Eligible(j) == j.verdict # "skipped"

(* A queued or running job belongs to no day.                              *)
Finished(j) == facts[j].stage = "done"

(* upsert_job: a finished job stays finished, a known workflow known.      *)
Reported(j, stage, workflow) ==
  [facts EXCEPT ![j] =
     [stage    |-> IF @.stage = "done" THEN "done" ELSE stage,
      workflow |-> IF workflow = None THEN @.workflow ELSE workflow,
      flaky    |-> @.flaky]]

(* propagate_workflow_id, over the stored jobs of a run.                   *)
Propagated(k) ==
  [j \in Job |-> IF j.repo = k.repo /\ j.run = k.run /\ facts[j].stage # "absent"
                 THEN [facts[j] EXCEPT !.workflow = k.workflow] ELSE facts[j]]

(* What a delivery or a page of jobs may make of the facts.                *)
Payloads(j) ==
  {Propagated(j)} \cup {Reported(j, stage, workflow) : stage \in {"running", "done"},
                                                      workflow \in {None, j.workflow}}

(* evaluate_job: the eligible jobs of the repository that evidence names;  *)
(* which ones is what Facts is about, and left open here.                  *)
Implicated(table, J) ==
  [j \in Job |-> IF j \in J /\ table[j].stage = "done"
                 THEN [table[j] EXCEPT !.flaky = TRUE] ELSE table[j]]

(* A transaction of a handler; updated_at will be now(), its start.        *)
BeginWrite(w) ==
  /\ phase[w] = "idle"
  /\ phase' = [phase EXCEPT ![w] = "writing"]
  /\ clock' = [clock EXCEPT ![w] = 0]
  /\ UNCHANGED <<facts, stats, today, age, since, todo, rollup>>

(* It commits.  A job completes on its day, or was crawled later.          *)
CommitWrite(w) ==
  /\ phase[w] = "writing"
  /\ \E j \in Job :
       /\ j.day <= today
       /\ \E table \in Payloads(j), J \in SUBSET {k \in JobsOf(j.repo) : Eligible(k)} :
            facts' = Implicated(table, J)
       /\ age' = [age EXCEPT ![j.repo] = IF @ < clock[w] THEN @ ELSE clock[w]]
  /\ phase' = [phase EXCEPT ![w] = "idle"]
  /\ UNCHANGED <<stats, today, clock, since, todo, rollup>>
-------------------------------------------------------------------------------
Since(days) == IF days >= today THEN 0 ELSE today - days

KeyOf(j) == [workflow |-> facts[j].workflow, name |-> j.name, day |-> j.day]

CountOf(J) ==
  [runs          |-> Cardinality(J),
   opportunities |-> Cardinality({j \in J : Eligible(j)}),
   failures      |-> Cardinality({j \in J : Eligible(j) /\ j.verdict = "failure"}),
   flakes        |-> Cardinality({j \in J : Eligible(j) /\ facts[j].flaky})]

(* _aggregate                                                              *)
Aggregate(r, from) ==
  LET counted == {j \in JobsOf(r) : Finished(j) /\ j.day >= from}
  IN [k \in {KeyOf(j) : j \in counted} |-> CountOf({j \in counted : KeyOf(j) = k})]

(* Mutant: only what was written within the last tick.                     *)
RecentlyActive_OneTick(r) == age[r] = 0

(* repos_with_recent_activity: updated_at >= since.                        *)
RecentlyActive(r) == age[r] <= Slack

(* sweep and rollup_recent, between two batches.  When the next pass is    *)
(* due by the clock is left open, up to Delay.                             *)
StartPass(w) ==
  /\ phase[w] = "idle"
  /\ phase' = [phase EXCEPT ![w] = "rolling"]
  /\ clock' = [clock EXCEPT ![w] = 0]
  /\ todo' = [todo EXCEPT ![w] = {r \in Repo : RecentlyActive(r)}]
  /\ UNCHANGED <<facts, stats, today, age, since, rollup>>

FinishPass(w) ==
  /\ phase[w] = "rolling" /\ todo[w] = {} /\ rollup[w] = Closed
  /\ phase' = [phase EXCEPT ![w] = "idle"]
  /\ since' = [since EXCEPT ![w] = clock[w]]
  /\ clock' = [clock EXCEPT ![w] = 0]
  /\ UNCHANGED <<facts, stats, today, age, todo, rollup>>

(* _run: all the repositories, or one.                                     *)
Invoke(o) ==
  /\ phase[o] = "idle"
  /\ phase' = [phase EXCEPT ![o] = "rolling"]
  /\ \E R \in {Repo} \cup {{r} : r \in Repo} : todo' = [todo EXCEPT ![o] = R]
  /\ UNCHANGED <<facts, stats, today, age, clock, since, rollup>>

Finish(o) ==
  /\ phase[o] = "rolling" /\ todo[o] = {} /\ rollup[o] = Closed
  /\ phase' = [phase EXCEPT ![o] = "idle"]
  /\ UNCHANGED <<facts, stats, today, age, clock, since, todo, rollup>>

Days(x) == IF x \in Worker THEN {RollupDays} ELSE CliDays \cup {RollupDays}

(* rollup_repository: the snapshot of its first statement.                 *)
Read(x) ==
  /\ phase[x] = "rolling" /\ rollup[x] = Closed
  /\ \E r \in todo[x], d \in Days(x) :
       /\ rollup' = [rollup EXCEPT ![x] =
            [at |-> "read", repo |-> r, from |-> Since(d),
             rows |-> Aggregate(r, Since(d)), gone |-> {}]]
       /\ todo' = [todo EXCEPT ![x] = @ \ {r}]
  /\ UNCHANGED <<facts, stats, today, age, phase, clock, since>>

(* The rows a rollup has written or deleted and not committed.             *)
Locked(y) ==
  IF rollup[y].at \in {"closed", "read"} THEN {}
  ELSE DOMAIN rollup[y].rows \cup rollup[y].gone

Free(x, K) ==
  \A y \in Roller \ {x} : rollup[y].repo = rollup[x].repo => K \cap Locked(y) = {}

(* INSERT ... ON CONFLICT DO UPDATE: it waits for a row another rollup has *)
(* written, and then writes what it read before.  The locks are taken at   *)
(* once; a deadlock over them is an error, and so a Fail.                  *)
Upsert(x) ==
  /\ rollup[x].at = "read"
  /\ Free(x, DOMAIN rollup[x].rows)
  /\ rollup' = [rollup EXCEPT ![x].at = "written"]
  /\ UNCHANGED <<facts, stats, today, age, phase, clock, since, todo>>

(* Mutant: the DELETE has no day.                                          *)
Stale_AnyDay(x) == DOMAIN stats[rollup[x].repo] \ DOMAIN rollup[x].rows

(* Mutant: the rows just written are not spared.                           *)
Stale_Written(x) == {k \in DOMAIN stats[rollup[x].repo] : k.day >= rollup[x].from}

(* The rows of the window that it did not write.                           *)
Stale(x) ==
  {k \in DOMAIN stats[rollup[x].repo] \ DOMAIN rollup[x].rows : k.day >= rollup[x].from}

Delete(x) ==
  /\ rollup[x].at = "written"
  /\ Free(x, Stale(x))
  /\ rollup' = [rollup EXCEPT ![x].at = "cleared", ![x].gone = Stale(x)]
  /\ UNCHANGED <<facts, stats, today, age, phase, clock, since, todo>>

Commit(x) ==
  LET t == rollup[x]
  IN /\ t.at = "cleared"
     /\ stats' = [stats EXCEPT ![t.repo] =
          [k \in (DOMAIN @ \ t.gone) \cup DOMAIN t.rows |->
             IF k \in DOMAIN t.rows THEN t.rows[k] ELSE @[k]]]
     /\ rollup' = [rollup EXCEPT ![x] = Closed]
     /\ UNCHANGED <<facts, today, age, phase, clock, since, todo>>

(* The handler rolls back, or the process dies.  rollup_repos catches      *)
(* nothing: one error ends the pass and the process, which starts again    *)
(* with a pass.                                                            *)
Fail(x) ==
  /\ phase[x] # "idle"
  /\ phase' = [phase EXCEPT ![x] = "idle"]
  /\ clock' = [clock EXCEPT ![x] = 0]
  /\ todo' = [todo EXCEPT ![x] = {}]
  /\ rollup' = [rollup EXCEPT ![x] = Closed]
  /\ UNCHANGED <<facts, stats, today, age, since>>
-------------------------------------------------------------------------------
Tick ==
  /\ \A x \in Roller : rollup[x] = Closed
  /\ \A w \in Worker : since[w] < Delay
  /\ age' = [r \in Repo |-> IF age[r] <= Slack THEN age[r] + 1 ELSE age[r]]
  /\ clock' = [x \in Roller |->
       IF x \in Worker /\ phase[x] # "idle" THEN clock[x] + 1 ELSE clock[x]]
  /\ since' = [w \in Worker |-> since[w] + 1]
  /\ UNCHANGED <<facts, stats, today, phase, todo, rollup>>

Midnight ==
  /\ today < LastDay
  /\ today' = today + 1
  /\ UNCHANGED <<facts, stats, age, phase, clock, since, todo, rollup>>

Next ==
  \/ \E w \in Worker : BeginWrite(w) \/ CommitWrite(w) \/ StartPass(w) \/ FinishPass(w)
  \/ \E o \in Operator : Invoke(o) \/ Finish(o)
  \/ \E x \in Roller : Read(x) \/ Upsert(x) \/ Delete(x) \/ Commit(x) \/ Fail(x)
  \/ Tick \/ Midnight

Spec == Init /\ [][Next]_vars
-------------------------------------------------------------------------------
Fact == [stage : {"absent", "running", "done"},
         workflow : {None} \cup {j.workflow : j \in Job}, flaky : BOOLEAN]

Key == [workflow : {None} \cup {j.workflow : j \in Job}, name : {j.name : j \in Job},
        day : 0 .. LastDay]

Count == [runs : Nat, opportunities : Nat, failures : Nat, flakes : Nat]

Table(t) == DOMAIN t \subseteq Key /\ \A k \in DOMAIN t : t[k] \in Count

TypeOK ==
  /\ facts \in [Job -> Fact]
  /\ DOMAIN stats = Repo /\ \A r \in Repo : Table(stats[r])
  /\ today \in 0 .. LastDay
  /\ age \in [Repo -> 0 .. Slack + 1]
  /\ phase \in [Roller -> {"idle", "writing", "rolling"}]
  /\ clock \in [Roller -> 0 .. Delay]
  /\ since \in [Worker -> 0 .. Delay]
  /\ todo \in [Roller -> SUBSET Repo]
  /\ DOMAIN rollup = Roller
  /\ \A x \in Roller :
       /\ rollup[x].at \in {"closed", "read", "written", "cleared"}
       /\ rollup[x].at # "closed" => rollup[x].repo \in Repo
       /\ Table(rollup[x].rows)
       /\ rollup[x].gone \subseteq Key \ DOMAIN rollup[x].rows

Boards == {[workflow |-> k.workflow, name |-> k.name] : k \in Key}

SumOf(K, t, column(_)) == MapThenSumSet(LAMBDA k : column(t[k]), K)

(* flaky_jobs: the days of the rollup, summed.                             *)
Board(r) ==
  [b \in Boards |->
     LET K == {k \in DOMAIN stats[r] : /\ k.workflow = b.workflow /\ k.name = b.name
                                       /\ k.day >= Since(BoardDays)}
     IN [opportunities |-> SumOf(K, stats[r], LAMBDA c : c.opportunities),
         failures      |-> SumOf(K, stats[r], LAMBDA c : c.failures),
         flakes        |-> SumOf(K, stats[r], LAMBDA c : c.flakes)]]

(* flaky_jobs_from_facts: the jobs themselves, counted.  It cuts its window *)
(* at an instant, now less BoardDays days; here that is the start of that   *)
(* day, where the board cuts, so that both are about the same jobs.         *)
BoardFromFacts(r) ==
  [b \in Boards |->
     LET J == {j \in JobsOf(r) : /\ Finished(j) /\ Eligible(j)
                                 /\ facts[j].workflow = b.workflow /\ j.name = b.name
                                 /\ j.day >= Since(BoardDays)}
     IN [opportunities |-> Cardinality(J),
         failures      |-> Cardinality({j \in J : j.verdict = "failure"}),
         flakes        |-> Cardinality({j \in J : facts[j].flaky})]]

(* minutes_attribution: every execution counts, judged or not.             *)
Minutes(r) ==
  [b \in Boards |->
     LET K == {k \in DOMAIN stats[r] : /\ k.workflow = b.workflow /\ k.name = b.name
                                       /\ k.day >= Since(BoardDays)}
     IN SumOf(K, stats[r], LAMBDA c : c.runs)]

MinutesFromFacts(r) ==
  [b \in Boards |->
     Cardinality({j \in JobsOf(r) : /\ Finished(j) /\ facts[j].workflow = b.workflow
                                    /\ j.name = b.name /\ j.day >= Since(BoardDays)})]

(* No write is left unrolled: once the sweep looks no further back for a   *)
(* repository's last write, its board and its minutes say what the facts   *)
(* say, whatever rollups overlapped or failed on the way, and although     *)
(* jobs change their row and flakes appear on days long past.              *)
StatsCatchUp ==
  \A r \in Repo : ~RecentlyActive(r) => /\ Board(r) = BoardFromFacts(r)
                                        /\ Minutes(r) = MinutesFromFacts(r)

(* A rollup leaves the days before its window alone, also the ones its     *)
(* facts could no longer make again.                                       *)
Before(k, r) ==
  \A x \in Roller : rollup[x].at # "closed" /\ rollup[x].repo = r => k.day < rollup[x].from

OldDaysStay ==
  [][\A r \in Repo : \A k \in DOMAIN stats[r] :
       Before(k, r) => k \in DOMAIN stats'[r] /\ stats'[r][k] = stats[r][k]]_vars
===============================================================================
