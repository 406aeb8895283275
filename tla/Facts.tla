--------------------------------- MODULE Facts ---------------------------------
(***************************************************************************)
(* How payloads become facts and facts become flake events: the handlers   *)
(* of workflow_job, workflow_run, backfill_jobs and the run part of        *)
(* backfill_runs, with backend/app/upserts.py and backend/app/detection.py *)
(* below them.                                                             *)
(*                                                                         *)
(* One repository, one job name.  A payload says how far one attempt of    *)
(* one run, or the job in it, had come; payloads are handled in any order, *)
(* again and again, in READ COMMITTED transactions of several workers.     *)
(* Write takes the row locks and fixes what the transaction writes,        *)
(* Evaluate reads the jobs it can see and derives the flake events, Commit *)
(* publishes both.  Runs' own conclusions are left out: nothing reads them *)
(* here.                                                                   *)
(***************************************************************************)
EXTENDS Naturals, FiniteSets

CONSTANTS Worker,
          Job,         \* job ids
          Run,         \* run ids
          RunOf,       \* RunOf[j], AttemptOf[j]: where job j ran
          AttemptOf,
          Conclusion,  \* Conclusion[j]: how j ended
          WorkflowOf,  \* WorkflowOf[r], ShaOf[r]: workflow and commit of run r
          ShaOf,
          Payload,     \* the payloads there are
          TimedOutIsFailure, ExcludeInfraFailures,  \* the two settings
          Overlap,     \* may history be handled beside other work?
          None

Attempt  == {AttemptOf[j] : j \in Job} \cup {p.attempt : p \in Payload}
Workflow == {WorkflowOf[r] : r \in Run}
Sha      == {ShaOf[r] : r \in Run}
Progress == {"queued", "in_progress", "completed"}
Ending   == {"success", "failure", "timed_out", "cancelled", "dead_runner"}

ASSUME ConstantsAssumption ==
  /\ RunOf \in [Job -> Run]
  /\ AttemptOf \in [Job -> Nat \ {0}]
  /\ \A i, j \in Job : RunOf[i] = RunOf[j] /\ AttemptOf[i] = AttemptOf[j] => i = j
  /\ Conclusion \in [Job -> Ending]
  /\ \A p \in Payload : /\ p.kind \in {"job", "run", "page", "jobs"}
                        /\ p.run \in Run
                        /\ p.attempt \in Nat \ {0}
                        /\ p.status \in Progress
  /\ TimedOutIsFailure \in BOOLEAN /\ ExcludeInfraFailures \in BOOLEAN
  /\ Overlap \in BOOLEAN
  /\ None \notin Workflow /\ None \notin Sha /\ None \notin Run
  /\ None \notin Ending /\ None \notin Payload

VARIABLES runs,     \* workflow_runs: runs[r, n] is attempt n of run r
          jobs,     \* jobs
          flakes,   \* flake_events: the job ids in the evidence, {} for no event
          txn,      \* txn[w]: the open transaction of w
          handled   \* history: payloads whose transaction committed

vars == <<runs, jobs, flakes, txn, handled>>

RowOf(status, conclusion, workflow) ==
  [status |-> status, conclusion |-> conclusion, workflow |-> workflow]

Absent == RowOf("absent", None, None)

Idle == [payload |-> None, step |-> "idle", runs |-> <<>>, jobs |-> <<>>,
         events |-> <<>>]

(* The unique key of flake_events: what a signal does not use is NULL.      *)
Group ==
  {[signal |-> "rerun_recovery", run |-> r, workflow |-> None, sha |-> None] :
     r \in Run}
  \cup {[signal |-> "same_commit_disagreement", run |-> None, workflow |-> f,
         sha |-> s] : f \in Workflow, s \in Sha}

Row == [status : Progress \cup {"absent", "null"}, conclusion : Ending \cup {None},
        workflow : Workflow \cup {None}]

TypeOK ==
  /\ runs \in [Run \X Attempt -> Row]
  /\ jobs \in [Job -> Row]
  /\ \A j \in Job : jobs[j].conclusion # None => jobs[j].status = "completed"
  /\ flakes \in [Group -> SUBSET Job]
  /\ \A w \in Worker : /\ txn[w].payload \in Payload \cup {None}
                       /\ txn[w].step \in {"idle", "written", "evaluated"}
  /\ handled \subseteq Payload

Init ==
  /\ runs = [k \in Run \X Attempt |-> Absent]
  /\ jobs = [j \in Job |-> Absent]
  /\ flakes = [g \in Group |-> {}]
  /\ txn = [w \in Worker |-> Idle]
  /\ handled = {}
-------------------------------------------------------------------------------
(***************************************************************************)
(* Upserts.                                                                *)
(***************************************************************************)
Rank(status) == CASE status = "completed"   -> 3
                  [] status = "in_progress" -> 2
                  [] OTHER                  -> 1

Coalesce(a, b) == IF a # None THEN a ELSE b

(* Mutant: the last payload wins.                                           *)
Advanced_Always(old, new) == TRUE

Advanced(old, new) == Rank(new.status) >= Rank(old.status)

(* _never_regress: progress moves only forward, identity is first-write-wins. *)
Upsert(old, new) ==
  IF old = Absent THEN new
  ELSE [status     |-> IF Advanced(old, new) THEN new.status ELSE old.status,
        conclusion |-> IF Advanced(old, new)
                       THEN Coalesce(new.conclusion, old.conclusion)
                       ELSE old.conclusion,
        workflow   |-> Coalesce(old.workflow, new.workflow)]

Override(f, g) == [x \in DOMAIN f |-> IF x \in DOMAIN g THEN g[x] ELSE f[x]]

NamesWorkflow(p) == p.kind \in {"run", "page"}
NamesJob(p)      == p.kind \in {"job", "jobs"}
IsLive(p)        == p.kind \in {"job", "run"}

(* The run row in p; a payload about a job only stubs it.                   *)
RunRow(p) == IF NamesWorkflow(p) THEN RowOf(p.status, None, WorkflowOf[p.run])
                                 ELSE RowOf("null", None, None)

KnownWorkflow(table, r) ==
  LET known == {table[r, n].workflow : n \in Attempt} \ {None}
  IN IF known = {} THEN None ELSE CHOOSE f \in known : TRUE

(* The workflow_runs rows p writes: its own attempt, and for a run event     *)
(* every attempt whose workflow is unknown.                                 *)
RunWrites(p) ==
  LET own  == Upsert(runs[p.run, p.attempt], RunRow(p))
      fill == IF p.kind = "run"
              THEN {n \in Attempt : runs[p.run, n] # Absent
                                    /\ runs[p.run, n].workflow = None}
              ELSE {}
  IN [k \in {p.run} \X (fill \cup {p.attempt}) |->
        IF k[2] = p.attempt THEN own
        ELSE [runs[k] EXCEPT !.workflow = WorkflowOf[p.run]]]

(* The job row in p, with the workflow its run is known to belong to.       *)
JobRow(p, j) ==
  RowOf(p.status, IF p.status = "completed" THEN Conclusion[j] ELSE None,
        KnownWorkflow(runs, p.run))

(* Mutant: a run event does not reach the jobs that are stored already.      *)
JobWrites_NoPropagation(p) ==
  [j \in {i \in Job : NamesJob(p) /\ RunOf[i] = p.run /\ AttemptOf[i] = p.attempt}
     |-> Upsert(jobs[j], JobRow(p, j))]

(* The jobs rows p writes: the job it is about, or for a run event the jobs *)
(* of the run whose workflow is unknown (propagate_workflow_id).            *)
JobWrites(p) ==
  LET own  == {j \in Job : NamesJob(p) /\ RunOf[j] = p.run
                                       /\ AttemptOf[j] = p.attempt}
      fill == {j \in Job : p.kind = "run" /\ RunOf[j] = p.run
                           /\ jobs[j] # Absent /\ jobs[j].workflow = None}
  IN [j \in own \cup fill |->
        IF j \in own THEN Upsert(jobs[j], JobRow(p, j))
        ELSE [jobs[j] EXCEPT !.workflow = WorkflowOf[p.run]]]
-------------------------------------------------------------------------------
(***************************************************************************)
(* Detection, over a view of the jobs table.                               *)
(***************************************************************************)
Eligible(row) ==
  \/ row.conclusion \in {"success", "failure"}
  \/ row.conclusion = "timed_out" /\ TimedOutIsFailure
  \/ row.conclusion = "dead_runner" /\ ~ExcludeInfraFailures

Succeeded(row) == row.conclusion = "success"

Opportunities(view, r) == {j \in Job : RunOf[j] = r /\ Eligible(view[j])}

(* Signal A: the pairs of adjacent opportunities that fail, then succeed.   *)
Recovered(view, r) ==
  LET O == Opportunities(view, r)
      Adjacent(i, j) == /\ AttemptOf[i] < AttemptOf[j]
                        /\ \A o \in O : ~(/\ AttemptOf[i] < AttemptOf[o]
                                          /\ AttemptOf[o] < AttemptOf[j])
      Pair(i, j) == Adjacent(i, j) /\ ~Succeeded(view[i]) /\ Succeeded(view[j])
  IN {j \in O : \E i \in O : Pair(i, j) \/ Pair(j, i)}

(* Signal B: all opportunities on a commit, when some pass and some fail.   *)
Disagreeing(view, f, s) ==
  LET O == {j \in Job : /\ Eligible(view[j])
                        /\ view[j].workflow = f
                        /\ ShaOf[RunOf[j]] = s}
  IN IF (\E j \in O : Succeeded(view[j])) /\ (\E j \in O : ~Succeeded(view[j]))
     THEN O ELSE {}

Evidence(view, g) == IF g.signal = "rerun_recovery" THEN Recovered(view, g.run)
                     ELSE Disagreeing(view, g.workflow, g.sha)

(* evaluate_job: the events it records for run r; none is ever deleted.      *)
NewEvents(view, r) ==
  LET known   == {view[j].workflow : j \in Opportunities(view, r)}
      touched == {g \in Group : \/ g.run = r
                                \/ g.workflow \in known /\ g.sha = ShaOf[r]}
  IN [g \in {h \in touched : Evidence(view, h) # {}} |-> Evidence(view, g)]
-------------------------------------------------------------------------------
Busy(w) == txn[w].step # "idle"

(* Mutant: a live handler does not begin with the upserts of _ensure_repo.  *)
Blocked_ByRowsOnly(p) ==
  \E w \in Worker : \/ DOMAIN txn[w].runs \cap DOMAIN RunWrites(p) # {}
                    \/ DOMAIN txn[w].jobs \cap DOMAIN JobWrites(p) # {}

(* Row locks are held to the end of a transaction.  A live handler begins   *)
(* by upserting the installation and the repository, so live payloads of    *)
(* one repository exclude each other; history only reads the repository.    *)
Blocked(p) ==
  \E w \in Worker :
    /\ Busy(w)
    /\ \/ DOMAIN txn[w].runs \cap DOMAIN RunWrites(p) # {}
       \/ DOMAIN txn[w].jobs \cap DOMAIN JobWrites(p) # {}
       \/ IsLive(p) /\ IsLive(txn[w].payload)

(* The jobs of an attempt are asked for by the page that listed its run.    *)
Queued(p) == p.kind = "jobs" =>
               \E q \in handled : q.kind = "page" /\ q.run = p.run

Write(w, p) ==
  /\ ~Busy(w)
  /\ Queued(p)
  /\ ~Blocked(p)
  /\ \/ Overlap
     \/ \A v \in Worker : Busy(v) => IsLive(p) /\ IsLive(txn[v].payload)
  /\ txn' = [txn EXCEPT ![w] = [payload |-> p, step |-> "written",
                                runs |-> RunWrites(p), jobs |-> JobWrites(p),
                                events |-> <<>>]]
  /\ UNCHANGED <<runs, jobs, flakes, handled>>

(* Each statement sees what is committed and what its transaction wrote.     *)
Evaluate(w) ==
  /\ txn[w].step = "written"
  /\ txn' = [txn EXCEPT ![w].step = "evaluated",
                        ![w].events = IF DOMAIN txn[w].jobs = {} THEN <<>>
                                      ELSE NewEvents(Override(jobs, txn[w].jobs),
                                                     txn[w].payload.run)]
  /\ UNCHANGED <<runs, jobs, flakes, handled>>

Commit(w) ==
  /\ txn[w].step = "evaluated"
  /\ runs' = Override(runs, txn[w].runs)
  /\ jobs' = Override(jobs, txn[w].jobs)
  /\ flakes' = Override(flakes, txn[w].events)
  /\ handled' = handled \cup {txn[w].payload}
  /\ txn' = [txn EXCEPT ![w] = Idle]

(* The handler raises or its worker dies: nothing was written.              *)
Rollback(w) ==
  /\ Busy(w)
  /\ txn' = [txn EXCEPT ![w] = Idle]
  /\ UNCHANGED <<runs, jobs, flakes, handled>>

Next == \E w \in Worker : \/ \E p \in Payload : Write(w, p)
                          \/ Evaluate(w) \/ Commit(w) \/ Rollback(w)

Spec == Init /\ [][Next]_vars
-------------------------------------------------------------------------------
(* Facts and their consequences are committed together (detection.py:374): *)
(* at every moment the stored events are those that the stored jobs call   *)
(* for, with the evidence they call for, whichever order payloads came in. *)
FlakesMatchFacts == \A g \in Group : flakes[g] = Evidence(jobs, g)

(* A job row holds what the most advanced payload handled so far said, and *)
(* its conclusion once any payload gave it: late and repeated payloads of  *)
(* earlier progress neither show nor erase anything.                       *)
MostAdvancedWins ==
  \A j \in Job :
    LET about == {p \in handled : NamesJob(p) /\ p.run = RunOf[j]
                                              /\ p.attempt = AttemptOf[j]}
        best  == {p \in about : \A q \in about : Rank(q.status) <= Rank(p.status)}
    IN /\ jobs[j].status \in IF best = {} THEN {"absent"} ELSE {p.status : p \in best}
       /\ jobs[j].conclusion =
            IF \E p \in best : p.status = "completed" THEN Conclusion[j] ELSE None

(* When every payload has been handled, in whatever order, a run has its    *)
(* event iff one of its opportunities failed and a later one succeeded, and *)
(* a commit has its event iff one passed and one failed in a workflow.      *)
Ended(j) == RowOf("completed", Conclusion[j], WorkflowOf[RunOf[j]])

IsFlaky(g) ==
  \E i, j \in Job :
    /\ Eligible(Ended(i)) /\ Eligible(Ended(j))
    /\ ~Succeeded(Ended(i)) /\ Succeeded(Ended(j))
    /\ IF g.signal = "rerun_recovery"
       THEN RunOf[i] = g.run /\ RunOf[j] = g.run /\ AttemptOf[i] < AttemptOf[j]
       ELSE \A k \in {i, j} : /\ WorkflowOf[RunOf[k]] = g.workflow
                              /\ ShaOf[RunOf[k]] = g.sha

NothingMissed ==
  handled = Payload => \A g \in Group : flakes[g] # {} <=> IsFlaky(g)

(***************************************************************************)
(* What the repository says and the code does not do (a violation run).    *)
(***************************************************************************)
(* upserts.py:290, the stub never erases what a run event already recorded. *)
StubErasesNothing ==
  [][\A k \in DOMAIN runs : runs[k].status \in Progress
                              => runs'[k].status \in Progress]_vars
===============================================================================
