------------------------------ MODULE FactsProofs ------------------------------
(***************************************************************************)
(* Proofs about payloads, facts and flake events, for any workers, runs,   *)
(* jobs and payloads, in any order and with any repetition.                *)
(***************************************************************************)
EXTENDS Facts, WellFoundedInduction, TLAPS

(* What one payload or another may have left in a job's row.               *)
JobRowOK(j, row) ==
  /\ DOMAIN row = {"status", "conclusion", "workflow"}
  /\ row \in Row
  /\ row.workflow \in {None, WorkflowOf[RunOf[j]]}
  /\ row.status = "absent" => row = Absent
  /\ row.conclusion = IF row.status = "completed" THEN Conclusion[j] ELSE None

RunRowOK(k, row) ==
  /\ DOMAIN row = {"status", "conclusion", "workflow"}
  /\ row \in Row
  /\ row.workflow \in {None, WorkflowOf[k[1]]}

(* A row only gains: what was known of it stays.                           *)
Gains(old, new) ==
  /\ old.conclusion # None => new.conclusion = old.conclusion
  /\ old.workflow # None => new.workflow = old.workflow

(* The jobs rows that payload p is about.                                  *)
Own(p) == {j \in Job : NamesJob(p) /\ RunOf[j] = p.run /\ AttemptOf[j] = p.attempt}

(* What p makes of a row: it advances its own job, and no other.           *)
Written(p, j, old, new) ==
  /\ JobRowOK(j, new) /\ Gains(old, new)
  /\ new.status = IF j \in Own(p) /\ Rank(p.status) >= Rank(old.status)
                  THEN p.status ELSE old.status

TxnOK(t) ==
  /\ DOMAIN t = {"payload", "step", "runs", "jobs", "events"}
  /\ t.step \in {"idle", "written", "evaluated"}
  /\ t.step = "idle" => t.payload = None /\ DOMAIN t.jobs = {}
  /\ t.step # "idle" =>
       /\ t.payload \in Payload
       /\ DOMAIN t.runs \subseteq Run \X Attempt
       /\ \A k \in DOMAIN t.runs : RunRowOK(k, t.runs[k])
       /\ Own(t.payload) \subseteq DOMAIN t.jobs
       /\ \A j \in DOMAIN t.jobs : /\ j \in Job /\ RunOf[j] = t.payload.run
                                   /\ Written(t.payload, j, jobs[j], t.jobs[j])
       /\ DOMAIN t.events \subseteq Group
       /\ \A g \in DOMAIN t.events : t.events[g] \subseteq Job

TablesOK ==
  /\ runs \in [Run \X Attempt -> Row] /\ \A k \in Run \X Attempt : RunRowOK(k, runs[k])
  /\ jobs \in [Job -> Row] /\ \A j \in Job : JobRowOK(j, jobs[j])
  /\ flakes \in [Group -> SUBSET Job]
  /\ handled \subseteq Payload

TxnsOK ==
  /\ DOMAIN txn = Worker
  /\ \A w \in Worker : TxnOK(txn[w])

(* Row locks: no two transactions write one job.                           *)
Disjoint ==
  \A v, w \in Worker : v # w => DOMAIN txn[v].jobs \cap DOMAIN txn[w].jobs = {}

(* A job is as far as the most advanced payload handled said.              *)
About(j) == {p \in handled : NamesJob(p) /\ p.run = RunOf[j] /\ p.attempt = AttemptOf[j]}

Remembers(j) ==
  /\ About(j) = {} => jobs[j].status = "absent"
  /\ About(j) # {} => /\ \E p \in About(j) : jobs[j].status = p.status
                      /\ \A q \in About(j) : Rank(q.status) <= Rank(jobs[j].status)

IInv == TablesOK /\ TxnsOK /\ Disjoint /\ \A j \in Job : Remembers(j)
-------------------------------------------------------------------------------
LEMMA SmallestOf ==
  ASSUME NEW D \in SUBSET Nat, D # {}
  PROVE  \E n \in D : \A m \in D : n <= m
<1> DEFINE Below == OpToRel(<, Nat)
<1>1. \A m, n \in Nat : <<m, n>> \in Below <=> m < n
  BY DEF OpToRel
<1>2. IsWellFoundedOn(Below, Nat)
  BY NatLessThanWellFounded
<1> HIDE DEF Below
<1>3. PICK n \in D : \A m \in D : ~(<<m, n>> \in Below)
  BY <1>2, WFMin
<1>4. \A m \in D : ~(m < n)
  BY <1>1, <1>3
<1> QED
  BY <1>4

LEMMA EligibleIsConcluded == ASSUME NEW row, Eligible(row) PROVE row.conclusion # None
  BY ConstantsAssumption DEF ConstantsAssumption, Eligible, Ending

(* Between a failure and a later success of a run there is a failure whose *)
(* next opportunity succeeds: signal A misses none by looking at           *)
(* neighbours only.                                                        *)
LEMMA SomeNeighbours ==
  ASSUME NEW O \in SUBSET Job, NEW view,
         NEW i \in O, NEW j \in O, ~Succeeded(view[i]), Succeeded(view[j]),
         AttemptOf[i] < AttemptOf[j]
  PROVE  \E a, b \in O :
           /\ ~Succeeded(view[a]) /\ Succeeded(view[b]) /\ AttemptOf[a] < AttemptOf[b]
           /\ \A o \in O : ~(AttemptOf[a] < AttemptOf[o] /\ AttemptOf[o] < AttemptOf[b])
<1> DEFINE Falls == {p \in O \X O : /\ ~Succeeded(view[p[1]]) /\ Succeeded(view[p[2]])
                                    /\ AttemptOf[p[1]] < AttemptOf[p[2]]}
           Gap(p) == AttemptOf[p[2]] - AttemptOf[p[1]]
           D == {Gap(p) : p \in Falls}
<1>1. \A o \in O : AttemptOf[o] \in Nat
  BY ConstantsAssumption DEF ConstantsAssumption
<1>2. D \in SUBSET Nat /\ D # {}
  <2>1. \A p \in Falls : Gap(p) \in Nat
    BY <1>1
  <2>2. <<i, j>> \in Falls
    OBVIOUS
  <2> QED
    BY <2>1, <2>2
<1>3. PICK n \in D : \A m \in D : n <= m
  <2> HIDE DEF D
  <2> QED
    BY <1>2, SmallestOf
<1>4. PICK p \in Falls : \A q \in Falls : Gap(p) <= Gap(q)
  BY <1>3
<1> DEFINE a == p[1]
           b == p[2]
<1>5. /\ a \in O /\ b \in O /\ ~Succeeded(view[a]) /\ Succeeded(view[b])
      /\ AttemptOf[a] < AttemptOf[b]
  OBVIOUS
<1>6. ASSUME NEW o \in O, AttemptOf[a] < AttemptOf[o], AttemptOf[o] < AttemptOf[b]
      PROVE  FALSE
  <2>1. CASE Succeeded(view[o])
    <3>1. <<a, o>> \in Falls
      BY <1>5, <1>6, <2>1
    <3>2. Gap(p) <= AttemptOf[o] - AttemptOf[a]
      BY <1>4, <3>1
    <3> QED
      BY <1>1, <1>5, <1>6, <3>2
  <2>2. CASE ~Succeeded(view[o])
    <3>1. <<o, b>> \in Falls
      BY <1>5, <1>6, <2>2
    <3>2. Gap(p) <= AttemptOf[b] - AttemptOf[o]
      BY <1>4, <3>1
    <3> QED
      BY <1>1, <1>5, <1>6, <3>2
  <2> QED
    BY <2>1, <2>2
<1> QED
  BY <1>5, <1>6

(* Evidence is never taken back by rows that only gain.                    *)
LEMMA EvidenceStays ==
  ASSUME NEW view, NEW new, NEW g \in Group,
         \A j \in Job : Gains(view[j], new[j]),
         Evidence(view, g) # {}
  PROVE  Evidence(new, g) # {}
<1>1. \A j \in Job : Eligible(view[j]) => /\ Eligible(new[j])
                                          /\ Succeeded(new[j]) = Succeeded(view[j])
                                          /\ view[j].workflow # None =>
                                               new[j].workflow = view[j].workflow
  BY EligibleIsConcluded DEF Gains, Eligible, Succeeded
<1>2. CASE g.signal = "rerun_recovery"
  <2> DEFINE r == g.run
             O == Opportunities(view, r)
             N == Opportunities(new, r)
  <2>1. O \subseteq N /\ N \in SUBSET Job
    BY <1>1 DEF Opportunities
  <2>2. PICK i \in O, j \in O : /\ ~Succeeded(view[i]) /\ Succeeded(view[j])
                                /\ AttemptOf[i] < AttemptOf[j]
    BY <1>2 DEF Evidence, Recovered
  <2>3. /\ i \in N /\ j \in N /\ ~Succeeded(new[i]) /\ Succeeded(new[j])
    BY <1>1, <2>1, <2>2 DEF Opportunities
  <2>4. \E a, b \in N :
           /\ ~Succeeded(new[a]) /\ Succeeded(new[b]) /\ AttemptOf[a] < AttemptOf[b]
           /\ \A o \in N : ~(AttemptOf[a] < AttemptOf[o] /\ AttemptOf[o] < AttemptOf[b])
    <3> HIDE DEF N
    <3> QED
      BY <2>1, <2>2, <2>3, SomeNeighbours
  <2>5. Recovered(new, r) # {}
    BY <2>4 DEF Recovered
  <2> QED
    BY <1>2, <2>5 DEF Evidence
<1>3. CASE g.signal # "rerun_recovery"
  <2>1. g.workflow \in Workflow /\ None \notin Workflow
    BY <1>3, ConstantsAssumption DEF ConstantsAssumption, Group
  <2>2. PICK i \in Job, j \in Job :
          /\ Eligible(view[i]) /\ view[i].workflow = g.workflow /\ ShaOf[RunOf[i]] = g.sha
          /\ Eligible(view[j]) /\ view[j].workflow = g.workflow /\ ShaOf[RunOf[j]] = g.sha
          /\ Succeeded(view[i]) /\ ~Succeeded(view[j])
    BY <1>3 DEF Evidence, Disagreeing
  <2>3. /\ Eligible(new[i]) /\ new[i].workflow = g.workflow /\ Succeeded(new[i])
        /\ Eligible(new[j]) /\ new[j].workflow = g.workflow /\ ~Succeeded(new[j])
    BY <1>1, <2>1, <2>2
  <2>4. Disagreeing(new, g.workflow, g.sha) # {}
    BY <2>2, <2>3 DEF Disagreeing
  <2> QED
    BY <1>3, <2>4 DEF Evidence
<1> QED
  BY <1>2, <1>3
-------------------------------------------------------------------------------
(* Rows, and what an upsert makes of them.                                 *)
LEMMA NoneIsNoData ==
  /\ None \notin Ending /\ None \notin Workflow /\ None \notin Run
  /\ \A r \in Run : WorkflowOf[r] \in Workflow
  /\ \A j \in Job : RunOf[j] \in Run /\ AttemptOf[j] \in Attempt /\ Conclusion[j] \in Ending
  BY ConstantsAssumption DEF ConstantsAssumption, Workflow, Attempt

LEMMA PayloadIsTyped ==
  ASSUME NEW p \in Payload
  PROVE  p.run \in Run /\ p.attempt \in Attempt /\ p.status \in Progress /\ p # None
         /\ p.kind \in {"job", "run", "page", "jobs"}
  BY ConstantsAssumption DEF ConstantsAssumption, Attempt

LEMMA AbsentIsTyped ==
  /\ \A j \in Job : JobRowOK(j, Absent) /\ Absent.status = "absent"
  /\ \A k \in Run \X Attempt : RunRowOK(k, Absent)
  /\ ~Eligible(Absent) /\ Absent.conclusion = None /\ Absent.workflow = None
  BY NoneIsNoData DEF JobRowOK, RunRowOK, Absent, RowOf, Row, Eligible, Ending

LEMMA RankIsNat == ASSUME NEW s PROVE Rank(s) \in 1 .. 3
  BY DEF Rank

LEMMA RankIsAbsent ==
  /\ Rank("absent") = 1
  /\ \A s \in Progress : Rank(s) = 3 <=> s = "completed"
  BY DEF Rank, Progress

LEMMA JobUpsertIsWritten ==
  ASSUME NEW p \in Payload, NEW j \in Own(p), NEW old, JobRowOK(j, old),
         NEW workflow \in {None, WorkflowOf[RunOf[j]]}, NEW new,
         new = Upsert(old, RowOf(p.status, IF p.status = "completed" THEN Conclusion[j] ELSE None,
                                 workflow))
  PROVE  Written(p, j, old, new)
<1> DEFINE c == IF p.status = "completed" THEN Conclusion[j] ELSE None
<1>1. /\ j \in Job /\ p.status \in Progress /\ Conclusion[j] \in Ending /\ None \notin Ending
      /\ WorkflowOf[RunOf[j]] \in Workflow /\ None \notin Workflow
  BY NoneIsNoData, PayloadIsTyped DEF Own
<1>2. CASE old = Absent
  <2>1. /\ new = [status |-> p.status, conclusion |-> c, workflow |-> workflow]
        /\ old.status = "absent" /\ old.conclusion = None /\ old.workflow = None
    BY <1>2 DEF Upsert, RowOf, Absent
  <2>2. JobRowOK(j, new)
    BY <1>1, <2>1 DEF JobRowOK, Row, Progress
  <2>3. Rank(p.status) >= Rank(old.status)
    BY <2>1, RankIsNat, RankIsAbsent
  <2> QED
    BY <2>1, <2>2, <2>3 DEF Written, Gains
<1>3. CASE old # Absent /\ Rank(p.status) >= Rank(old.status)
  <2>1. new = [status |-> p.status, conclusion |-> Coalesce(c, old.conclusion),
               workflow |-> Coalesce(old.workflow, workflow)]
    BY <1>3 DEF Upsert, Advanced, RowOf
  <2>2. old.status = "completed" => p.status = "completed"
    BY <1>1, <1>3, RankIsNat DEF Rank, Progress
  <2>3. Coalesce(c, old.conclusion) = c /\ (old.conclusion # None => c = old.conclusion)
    BY <1>1, <2>2 DEF Coalesce, JobRowOK
  <2>4. Coalesce(old.workflow, workflow) \in {None, WorkflowOf[RunOf[j]]}
        /\ (old.workflow # None => Coalesce(old.workflow, workflow) = old.workflow)
    BY DEF Coalesce, JobRowOK
  <2>5. JobRowOK(j, new)
    BY <1>1, <2>1, <2>3, <2>4 DEF JobRowOK, Row, Progress
  <2> QED
    BY <1>3, <2>1, <2>3, <2>4, <2>5 DEF Written, Gains
<1>4. CASE old # Absent /\ ~(Rank(p.status) >= Rank(old.status))
  <2>1. new = [status |-> old.status, conclusion |-> old.conclusion,
               workflow |-> Coalesce(old.workflow, workflow)]
    BY <1>4 DEF Upsert, Advanced, RowOf
  <2>2. Coalesce(old.workflow, workflow) \in {None, WorkflowOf[RunOf[j]]}
        /\ (old.workflow # None => Coalesce(old.workflow, workflow) = old.workflow)
    BY DEF Coalesce, JobRowOK
  <2>3. old.status # "absent" /\ old \in Row
    BY <1>4 DEF JobRowOK
  <2>4. JobRowOK(j, new)
    BY <1>1, <2>1, <2>2, <2>3 DEF JobRowOK, Row
  <2> QED
    BY <1>4, <2>1, <2>2, <2>4 DEF Written, Gains
<1> QED
  BY <1>2, <1>3, <1>4

LEMMA PropagationIsWritten ==
  ASSUME NEW p \in Payload, NEW j \in Job \ Own(p), RunOf[j] = p.run, NEW old, JobRowOK(j, old),
         old # Absent, old.workflow = None, NEW new,
         new = [old EXCEPT !.workflow = WorkflowOf[p.run]]
  PROVE  Written(p, j, old, new)
<1>1. /\ DOMAIN new = {"status", "conclusion", "workflow"}
      /\ new.status = old.status /\ new.conclusion = old.conclusion
      /\ new.workflow = WorkflowOf[RunOf[j]]
  BY DEF JobRowOK
<1>2. new = [status |-> old.status, conclusion |-> old.conclusion,
             workflow |-> WorkflowOf[RunOf[j]]]
  BY DEF JobRowOK
<1>3. new \in Row
  BY <1>2, NoneIsNoData DEF JobRowOK, Row
<1>4. JobRowOK(j, new)
  BY <1>1, <1>3 DEF JobRowOK
<1> QED
  BY <1>1, <1>4 DEF Written, Gains

LEMMA RunUpsertIsTyped ==
  ASSUME NEW k \in Run \X Attempt, NEW old, RunRowOK(k, old), NEW status \in Progress \cup {"null"},
         NEW workflow \in {None, WorkflowOf[k[1]]}
  PROVE  RunRowOK(k, Upsert(old, RowOf(status, None, workflow)))
<1> DEFINE new == Upsert(old, RowOf(status, None, workflow))
<1>1. WorkflowOf[k[1]] \in Workflow
  BY NoneIsNoData
<1>2. old \in Row
  BY DEF RunRowOK
<1>3. PICK s \in Progress \cup {"absent", "null"}, c \in Ending \cup {None},
           f \in {None, WorkflowOf[k[1]]} :
        new = [status |-> s, conclusion |-> c, workflow |-> f]
  BY <1>2 DEF Upsert, RowOf, Coalesce, RunRowOK, Row
<1> HIDE DEF new
<1>4. RunRowOK(k, new)
  BY <1>1, <1>3 DEF RunRowOK, Row
<1> QED
  BY <1>4 DEF new

LEMMA KnownWorkflowIsTrue ==
  ASSUME TablesOK, NEW r \in Run
  PROVE  KnownWorkflow(runs, r) \in {None, WorkflowOf[r]}
  BY DEF KnownWorkflow, TablesOK, RunRowOK
-------------------------------------------------------------------------------
(* The writes of a payload, row by row.                                    *)
LEMMA JobWritesOK ==
  ASSUME TablesOK, NEW p \in Payload
  PROVE  /\ Own(p) \subseteq DOMAIN JobWrites(p)
         /\ \A j \in DOMAIN JobWrites(p) : /\ j \in Job /\ RunOf[j] = p.run
                                           /\ Written(p, j, jobs[j], JobWrites(p)[j])
<1> DEFINE fill == {j \in Job : p.kind = "run" /\ RunOf[j] = p.run
                                /\ jobs[j] # Absent /\ jobs[j].workflow = None}
<1>1. /\ DOMAIN JobWrites(p) = Own(p) \cup fill
      /\ \A j \in Own(p) : JobWrites(p)[j] = Upsert(jobs[j], JobRow(p, j))
      /\ \A j \in fill \ Own(p) :
           JobWrites(p)[j] = [jobs[j] EXCEPT !.workflow = WorkflowOf[p.run]]
  BY DEF JobWrites, Own
<1>2. KnownWorkflow(runs, p.run) \in {None, WorkflowOf[p.run]}
  BY PayloadIsTyped, KnownWorkflowIsTrue
<1>3. ASSUME NEW j \in Own(p) PROVE Written(p, j, jobs[j], JobWrites(p)[j])
  <2> DEFINE new == JobWrites(p)[j]
             workflow == KnownWorkflow(runs, p.run)
  <2>1. RunOf[j] = p.run /\ j \in Job
    BY DEF Own
  <2>2. new = Upsert(jobs[j], RowOf(p.status, IF p.status = "completed" THEN Conclusion[j] ELSE None,
                                    workflow))
    BY <1>1 DEF JobRow
  <2>3. workflow \in {None, WorkflowOf[RunOf[j]]} /\ JobRowOK(j, jobs[j])
    BY <1>2, <2>1 DEF TablesOK
  <2> HIDE DEF new, workflow
  <2>4. Written(p, j, jobs[j], new)
    BY <2>2, <2>3, JobUpsertIsWritten
  <2> QED
    BY <2>4 DEF new
<1>4. ASSUME NEW j \in fill \ Own(p) PROVE Written(p, j, jobs[j], JobWrites(p)[j])
  <2> DEFINE new == JobWrites(p)[j]
  <2>1. new = [jobs[j] EXCEPT !.workflow = WorkflowOf[p.run]]
    BY <1>1
  <2>2. /\ j \in Job \ Own(p) /\ RunOf[j] = p.run /\ JobRowOK(j, jobs[j])
        /\ jobs[j] # Absent /\ jobs[j].workflow = None
    BY DEF TablesOK
  <2> HIDE DEF new
  <2>3. Written(p, j, jobs[j], new)
    BY <2>1, <2>2, PropagationIsWritten
  <2> QED
    BY <2>3 DEF new
<1> QED
  BY <1>1, <1>3, <1>4 DEF Own

LEMMA RunWritesOK ==
  ASSUME TablesOK, NEW p \in Payload
  PROVE  /\ DOMAIN RunWrites(p) \subseteq Run \X Attempt
         /\ \A k \in DOMAIN RunWrites(p) : RunRowOK(k, RunWrites(p)[k])
<1> DEFINE key  == <<p.run, p.attempt>>
           own  == Upsert(runs[key], RunRow(p))
           fill == IF p.kind = "run"
                   THEN {n \in Attempt : runs[p.run, n] # Absent
                                         /\ runs[p.run, n].workflow = None}
                   ELSE {}
<1>1. p.run \in Run /\ p.attempt \in Attempt /\ p.status \in Progress /\ key \in Run \X Attempt
  BY PayloadIsTyped
<1>2. RunRowOK(key, own)
  <2>1. RunRowOK(key, runs[key])
    BY <1>1 DEF TablesOK
  <2>2. \/ RunRow(p) = RowOf(p.status, None, WorkflowOf[p.run])
        \/ RunRow(p) = RowOf("null", None, None)
    BY DEF RunRow
  <2> QED
    BY <1>1, <2>1, <2>2, RunUpsertIsTyped
<1>3. ASSUME NEW n \in fill PROVE RunRowOK(<<p.run, n>>, [runs[p.run, n] EXCEPT !.workflow = WorkflowOf[p.run]])
  <2> DEFINE k == <<p.run, n>>
             old == runs[k]
  <2>1. k \in Run \X Attempt /\ RunRowOK(k, old) /\ k[1] = p.run
    BY <1>1 DEF TablesOK
  <2> SUFFICES ASSUME NEW new, new = [old EXCEPT !.workflow = WorkflowOf[p.run]]
               PROVE  RunRowOK(k, new)
    OBVIOUS
  <2>2. new = [status |-> old.status, conclusion |-> old.conclusion,
               workflow |-> WorkflowOf[p.run]]
    BY <2>1 DEF RunRowOK
  <2> HIDE DEF k, old
  <2>3. new \in Row
    BY <1>1, <2>1, <2>2, NoneIsNoData DEF RunRowOK, Row
  <2> QED
    BY <2>1, <2>2, <2>3 DEF RunRowOK
<1>4. /\ DOMAIN RunWrites(p) = {p.run} \X (fill \cup {p.attempt})
      /\ \A k \in DOMAIN RunWrites(p) :
           RunWrites(p)[k] = IF k[2] = p.attempt THEN own
                             ELSE [runs[k] EXCEPT !.workflow = WorkflowOf[p.run]]
  BY DEF RunWrites
<1>5. fill \subseteq Attempt
  OBVIOUS
<1> HIDE DEF own, fill
<1>6. ASSUME NEW k \in DOMAIN RunWrites(p) PROVE RunRowOK(k, RunWrites(p)[k])
  <2>1. k = <<p.run, k[2]>> /\ k[2] \in fill \cup {p.attempt}
    BY <1>4
  <2>2. CASE k[2] = p.attempt
    BY <1>2, <1>4, <2>1, <2>2
  <2>3. CASE k[2] # p.attempt
    <3>1. RunRowOK(<<p.run, k[2]>>, [runs[p.run, k[2]] EXCEPT !.workflow = WorkflowOf[p.run]])
      BY <1>3, <2>1, <2>3
    <3> QED
      BY <1>4, <2>1, <2>3, <3>1
  <2> QED
    BY <2>2, <2>3
<1> QED
  BY <1>1, <1>4, <1>5, <1>6
-------------------------------------------------------------------------------
(* A step of one transaction that does not commit.                         *)
LEMMA TxnStep ==
  ASSUME IInv, NEW w \in Worker, NEW t, TxnOK(t),
         txn' = [txn EXCEPT ![w] = t], UNCHANGED <<runs, jobs, flakes, handled>>,
         \A v \in Worker \ {w} : DOMAIN txn[v].jobs \cap DOMAIN t.jobs = {}
  PROVE  IInv'
<1>1. /\ DOMAIN txn' = Worker
      /\ \A v \in Worker : txn'[v] = IF v = w THEN t ELSE txn[v]
  BY DEF IInv, TxnsOK
<1>2. TablesOK' /\ \A j \in Job : Remembers(j)'
  BY DEF IInv, TablesOK, Remembers, About
<1>3. \A v \in Worker : TxnOK(txn'[v])
  BY <1>1 DEF IInv, TxnsOK
<1>4. TxnsOK'
  BY <1>1, <1>3 DEF TxnsOK, TxnOK
<1>5. Disjoint'
  BY <1>1 DEF IInv, Disjoint
<1> QED
  BY <1>2, <1>4, <1>5 DEF IInv

LEMMA WriteIInv == ASSUME IInv, NEW w \in Worker, NEW p \in Payload, Write(w, p) PROVE IInv'
<1> DEFINE t == [payload |-> p, step |-> "written", runs |-> RunWrites(p),
                 jobs |-> JobWrites(p), events |-> <<>>]
<1>1. txn' = [txn EXCEPT ![w] = t] /\ UNCHANGED <<runs, jobs, flakes, handled>>
  BY DEF Write
<1>2. TxnOK(t)
  BY JobWritesOK, RunWritesOK DEF IInv, TxnOK
<1>3. \A v \in Worker \ {w} : DOMAIN txn[v].jobs \cap DOMAIN t.jobs = {}
  BY DEF Write, Blocked, Busy, IInv, TxnsOK, TxnOK
<1> HIDE DEF t
<1> QED
  BY <1>1, <1>2, <1>3, TxnStep

LEMMA NewEventsAreTyped ==
  ASSUME NEW view, NEW r
  PROVE  /\ DOMAIN NewEvents(view, r) \subseteq Group
         /\ \A g \in DOMAIN NewEvents(view, r) :
              /\ NewEvents(view, r)[g] = Evidence(view, g)
              /\ Evidence(view, g) \subseteq Job /\ Evidence(view, g) # {}
<1>1. \A g : Evidence(view, g) \subseteq Job
  BY DEF Evidence, Recovered, Opportunities, Disagreeing
<1> QED
  BY <1>1 DEF NewEvents

LEMMA EvaluateIInv == ASSUME IInv, NEW w \in Worker, Evaluate(w) PROVE IInv'
<1> DEFINE E == IF DOMAIN txn[w].jobs = {} THEN <<>>
                ELSE NewEvents(Override(jobs, txn[w].jobs), txn[w].payload.run)
           t == [txn[w] EXCEPT !.step = "evaluated", !.events = E]
<1>1. /\ txn' = [txn EXCEPT ![w] = t] /\ txn[w].step = "written"
      /\ UNCHANGED <<runs, jobs, flakes, handled>>
  BY DEF Evaluate
<1>2. TxnOK(txn[w])
  BY DEF IInv, TxnsOK
<1>3. DOMAIN E \subseteq Group /\ \A g \in DOMAIN E : E[g] \subseteq Job
  BY NewEventsAreTyped
<1> HIDE DEF E
<1>4. /\ DOMAIN t = {"payload", "step", "runs", "jobs", "events"}
      /\ t.step = "evaluated" /\ t.payload = txn[w].payload /\ t.runs = txn[w].runs
      /\ t.jobs = txn[w].jobs /\ t.events = E
  BY <1>2 DEF TxnOK
<1> HIDE DEF t
<1>5. TxnOK(t)
  BY <1>1, <1>2, <1>3, <1>4 DEF TxnOK
<1>6. \A v \in Worker \ {w} : DOMAIN txn[v].jobs \cap DOMAIN t.jobs = {}
  BY <1>4 DEF IInv, Disjoint
<1> QED
  BY <1>1, <1>5, <1>6, TxnStep

LEMMA IdleIsTyped == TxnOK(Idle) /\ DOMAIN Idle.jobs = {} /\ Idle.step = "idle"
  BY DEF Idle, TxnOK

LEMMA RollbackIInv == ASSUME IInv, NEW w \in Worker, Rollback(w) PROVE IInv'
<1>1. txn' = [txn EXCEPT ![w] = Idle] /\ UNCHANGED <<runs, jobs, flakes, handled>>
  BY DEF Rollback
<1> QED
  BY <1>1, IdleIsTyped, TxnStep

LEMMA OverrideIsPointwise ==
  ASSUME NEW f, NEW g, NEW x \in DOMAIN f
  PROVE  /\ DOMAIN Override(f, g) = DOMAIN f
         /\ Override(f, g)[x] = IF x \in DOMAIN g THEN g[x] ELSE f[x]
  BY DEF Override

(* What a commit publishes, row by row.                                    *)
LEMMA CommitWrites ==
  ASSUME IInv, NEW w \in Worker, Commit(w)
  PROVE  /\ txn[w].payload \in Payload
         /\ jobs' = Override(jobs, txn[w].jobs)
         /\ \A j \in Job :
              IF j \in DOMAIN txn[w].jobs
              THEN Written(txn[w].payload, j, jobs[j], jobs'[j])
              ELSE jobs'[j] = jobs[j] /\ j \notin Own(txn[w].payload)
         /\ handled' = handled \cup {txn[w].payload}
         /\ txn' = [txn EXCEPT ![w] = Idle]
<1>1. txn[w].step = "evaluated" /\ TxnOK(txn[w])
  BY DEF Commit, IInv, TxnsOK
<1>2. /\ txn[w].payload \in Payload
      /\ Own(txn[w].payload) \subseteq DOMAIN txn[w].jobs
      /\ \A j \in DOMAIN txn[w].jobs : Written(txn[w].payload, j, jobs[j], txn[w].jobs[j])
  BY <1>1 DEF TxnOK
<1>3. jobs' = Override(jobs, txn[w].jobs) /\ DOMAIN jobs = Job
  BY DEF Commit, IInv, TablesOK
<1>4. \A j \in Job : jobs'[j] = IF j \in DOMAIN txn[w].jobs THEN txn[w].jobs[j] ELSE jobs[j]
  BY <1>3, OverrideIsPointwise
<1> QED
  BY <1>2, <1>3, <1>4 DEF Commit

LEMMA CommitRemembers ==
  ASSUME IInv, NEW w \in Worker, Commit(w), NEW j \in Job
  PROVE  Remembers(j)'
<1> DEFINE p == txn[w].payload
<1>1. /\ p \in Payload /\ handled' = handled \cup {p}
      /\ IF j \in DOMAIN txn[w].jobs THEN Written(p, j, jobs[j], jobs'[j])
         ELSE jobs'[j] = jobs[j] /\ j \notin Own(p)
  BY CommitWrites
<1>2. Remembers(j)
  BY DEF IInv
<1>3. p.status \in Progress
  BY <1>1, PayloadIsTyped
<1>4. p \in About(j)' <=> j \in Own(p)
  BY <1>1 DEF About, Own
<1>5. About(j)' = IF j \in Own(p) THEN About(j) \cup {p} ELSE About(j)
  BY <1>1 DEF About, Own
<1> HIDE DEF p
<1>6. CASE j \notin Own(p)
  <2>1. jobs'[j].status = jobs[j].status
    BY <1>1, <1>6 DEF Written
  <2> QED
    BY <1>2, <1>5, <1>6, <2>1 DEF Remembers
<1>7. CASE j \in Own(p) /\ Rank(p.status) >= Rank(jobs[j].status)
  <2>1. jobs'[j].status = p.status
    BY <1>1, <1>7 DEF Written
  <2>2. \A q \in About(j) : Rank(q.status) <= Rank(p.status)
    BY <1>2, <1>7, RankIsNat DEF Remembers
  <2>3. Rank(p.status) <= Rank(p.status)
    BY RankIsNat
  <2> QED
    BY <1>5, <1>7, <2>1, <2>2, <2>3 DEF Remembers
<1>8. CASE j \in Own(p) /\ ~(Rank(p.status) >= Rank(jobs[j].status))
  <2>1. jobs'[j].status = jobs[j].status
    BY <1>1, <1>8 DEF Written
  <2>2. About(j) # {}
    BY <1>2, <1>8, RankIsNat, RankIsAbsent DEF Remembers
  <2>3. Rank(p.status) <= Rank(jobs[j].status)
    BY <1>8, RankIsNat
  <2> QED
    BY <1>2, <1>5, <1>8, <2>1, <2>2, <2>3 DEF Remembers
<1> QED
  BY <1>6, <1>7, <1>8

LEMMA CommitIInv == ASSUME IInv, NEW w \in Worker, Commit(w) PROVE IInv'
<1>1. txn[w].step = "evaluated" /\ TxnOK(txn[w])
  BY DEF Commit, IInv, TxnsOK
<1>2. /\ DOMAIN txn' = Worker
      /\ \A v \in Worker : txn'[v] = IF v = w THEN Idle ELSE txn[v]
  BY DEF IInv, TxnsOK, Commit
<1>3. runs' \in [Run \X Attempt -> Row] /\ \A k \in Run \X Attempt : RunRowOK(k, runs'[k])
  <2>1. /\ runs' = Override(runs, txn[w].runs) /\ DOMAIN runs = Run \X Attempt
        /\ \A k \in Run \X Attempt : RunRowOK(k, runs[k])
    BY DEF Commit, IInv, TablesOK
  <2>2. \A k \in DOMAIN txn[w].runs : RunRowOK(k, txn[w].runs[k])
    BY <1>1 DEF TxnOK
  <2>3. \A k \in Run \X Attempt : RunRowOK(k, runs'[k])
    BY <2>1, <2>2, OverrideIsPointwise
  <2>4. runs' = [k \in Run \X Attempt |-> runs'[k]]
    BY <2>1 DEF Override
  <2> QED
    BY <2>3, <2>4 DEF RunRowOK
<1>4. jobs' \in [Job -> Row] /\ \A j \in Job : JobRowOK(j, jobs'[j])
  <2>1. \A j \in Job : JobRowOK(j, jobs'[j])
    BY CommitWrites DEF IInv, TablesOK, Written
  <2>2. jobs' = [j \in Job |-> jobs'[j]]
    BY DEF Commit, Override, IInv, TablesOK
  <2> QED
    BY <2>1, <2>2 DEF JobRowOK
<1>5. flakes' \in [Group -> SUBSET Job]
  <2>1. flakes' = Override(flakes, txn[w].events) /\ flakes \in [Group -> SUBSET Job]
    BY DEF Commit, IInv, TablesOK
  <2>2. \A g \in DOMAIN txn[w].events : txn[w].events[g] \in SUBSET Job
    BY <1>1 DEF TxnOK
  <2>3. \A g \in Group : flakes'[g] \in SUBSET Job
    BY <2>1, <2>2, OverrideIsPointwise
  <2>4. flakes' = [g \in Group |-> flakes'[g]]
    BY <2>1 DEF Override
  <2> QED
    BY <2>3, <2>4
<1>6. TablesOK'
  BY <1>3, <1>4, <1>5, CommitWrites DEF IInv, TablesOK
<1>7. ASSUME NEW v \in Worker PROVE TxnOK(txn[v])' 
  <2>1. CASE v = w
    BY <1>2, <2>1, IdleIsTyped DEF TxnOK
  <2>2. CASE v # w
    <3>1. TxnOK(txn[v]) /\ DOMAIN txn[v].jobs \cap DOMAIN txn[w].jobs = {}
      BY <2>2 DEF IInv, TxnsOK, Disjoint
    <3>2. \A j \in DOMAIN txn[v].jobs : j \in Job => jobs'[j] = jobs[j]
      BY <3>1, CommitWrites
    <3> QED
      BY <1>2, <2>2, <3>1, <3>2 DEF TxnOK
  <2> QED
    BY <2>1, <2>2
<1>8. TxnsOK'
  BY <1>2, <1>7 DEF TxnsOK
<1>9. Disjoint'
  BY <1>2, IdleIsTyped DEF IInv, Disjoint
<1> QED
  BY <1>6, <1>8, <1>9, CommitRemembers DEF IInv
-------------------------------------------------------------------------------
LEMMA InitIInv == Init => IInv
<1> SUFFICES ASSUME Init PROVE IInv
  OBVIOUS
<1>1. Absent \in Row
  BY DEF Absent, RowOf, Row
<1>2. TablesOK
  BY <1>1, AbsentIsTyped DEF Init, TablesOK
<1>3. TxnsOK /\ Disjoint
  BY IdleIsTyped DEF Init, TxnsOK, Disjoint
<1>4. \A j \in Job : Remembers(j)
  BY AbsentIsTyped DEF Init, Remembers, About
<1> QED
  BY <1>2, <1>3, <1>4 DEF IInv

LEMMA NextIInv == ASSUME IInv, [Next]_vars PROVE IInv'
<1>1. ASSUME NEW w \in Worker, NEW p \in Payload, Write(w, p) PROVE IInv'
  BY <1>1, WriteIInv
<1>2. ASSUME NEW w \in Worker, Evaluate(w) \/ Commit(w) \/ Rollback(w) PROVE IInv'
  BY <1>2, EvaluateIInv, CommitIInv, RollbackIInv
<1>3. CASE UNCHANGED vars
  BY <1>3 DEF vars, IInv, TablesOK, TxnsOK, TxnOK, Disjoint, Remembers, About
<1> QED
  BY <1>1, <1>2, <1>3 DEF Next

(* The tables and the open transactions stay well formed; a conclusion     *)
(* belongs to a completed job.                                             *)
THEOREM TypeCorrectness == Spec => []TypeOK
<1>1. IInv => TypeOK
  <2> SUFFICES ASSUME IInv PROVE TypeOK
    OBVIOUS
  <2>1. \A j \in Job : jobs[j].conclusion # None => jobs[j].status = "completed"
    BY DEF IInv, TablesOK, JobRowOK
  <2>2. \A w \in Worker : /\ txn[w].payload \in Payload \cup {None}
                          /\ txn[w].step \in {"idle", "written", "evaluated"}
    BY DEF IInv, TxnsOK, TxnOK
  <2> QED
    BY <2>1, <2>2 DEF IInv, TablesOK, TypeOK
<1> QED
  BY <1>1, InitIInv, NextIInv, PTL DEF Spec

(* In whatever order, how often and by how many workers payloads are       *)
(* handled, a job row says what the most advanced of them said.            *)
THEOREM ProgressIsKept == Spec => []MostAdvancedWins
<1>1. IInv => MostAdvancedWins
  <2> SUFFICES ASSUME IInv, NEW j \in Job,
                      NEW best, best = {p \in About(j) : \A q \in About(j) :
                                                           Rank(q.status) <= Rank(p.status)}
               PROVE  /\ jobs[j].status \in IF best = {} THEN {"absent"} ELSE {p.status : p \in best}
                      /\ jobs[j].conclusion =
                           IF \E p \in best : p.status = "completed" THEN Conclusion[j] ELSE None
    BY DEF MostAdvancedWins, About
  <2>1. Remembers(j) /\ JobRowOK(j, jobs[j])
    BY DEF IInv, TablesOK
  <2>2. CASE About(j) = {}
    BY <2>1, <2>2 DEF Remembers, JobRowOK
  <2>3. CASE About(j) # {}
    <3>1. PICK p \in About(j) : jobs[j].status = p.status
      BY <2>1, <2>3 DEF Remembers
    <3>2. p \in best
      BY <2>1, <2>3, <3>1 DEF Remembers
    <3>3. \A q \in best : q.status \in Progress /\ Rank(q.status) = Rank(p.status)
      <4> TAKE q \in best
      <4>1. Rank(q.status) <= Rank(p.status) /\ Rank(p.status) <= Rank(q.status)
        BY <3>1, <3>2
      <4>2. q \in Payload
        BY DEF About, IInv, TablesOK
      <4> QED
        BY <4>1, <4>2, RankIsNat, PayloadIsTyped
    <3>4. (\E q \in best : q.status = "completed") <=> jobs[j].status = "completed"
      BY <3>1, <3>2, <3>3, RankIsAbsent DEF Progress
    <3> QED
      BY <2>1, <3>1, <3>2, <3>4 DEF JobRowOK
  <2> QED
    BY <2>2, <2>3
<1> QED
  BY <1>1, InitIInv, NextIInv, PTL DEF Spec
-------------------------------------------------------------------------------
(* With history handled beside nothing, and live deliveries excluding each *)
(* other on the repository's row, one transaction at a time is open, and   *)
(* it has evaluated the jobs as its commit will leave them.                *)
Serial == \A v, w \in Worker : Busy(v) /\ Busy(w) => v = w

Evaluated(w) ==
  txn[w].events = IF DOMAIN txn[w].jobs = {} THEN <<>>
                  ELSE NewEvents(Override(jobs, txn[w].jobs), txn[w].payload.run)

SInv ==
  /\ Serial
  /\ \A w \in Worker : txn[w].step = "evaluated" => Evaluated(w)
  /\ FlakesMatchFacts

(* What evidence says of a group depends on the rows it names.             *)
LEMMA EvidenceIsLocal ==
  ASSUME NEW view, NEW new, NEW r \in Run, NEW g \in Group,
         \A j \in Job : RunOf[j] # r => new[j] = view[j],
         \A j \in Job : Gains(view[j], new[j]),
         g.run # r,
         ~(g.workflow \in {new[j].workflow : j \in Opportunities(new, r)} /\ g.sha = ShaOf[r])
  PROVE  Evidence(new, g) = Evidence(view, g)
<1>1. CASE g.signal = "rerun_recovery"
  <2>1. \A j \in Job : RunOf[j] = g.run => new[j] = view[j]
    OBVIOUS
  <2>2. Opportunities(new, g.run) = Opportunities(view, g.run)
    BY <2>1 DEF Opportunities
  <2>3. \A j \in Opportunities(view, g.run) : new[j] = view[j]
    BY <2>1 DEF Opportunities
  <2>4. Recovered(new, g.run) = Recovered(view, g.run)
    <3> DEFINE O == Opportunities(view, g.run)
               Near(a, b) == /\ AttemptOf[a] < AttemptOf[b]
                             /\ \A o \in O : ~(/\ AttemptOf[a] < AttemptOf[o]
                                               /\ AttemptOf[o] < AttemptOf[b])
               Old(a, b) == Near(a, b) /\ ~Succeeded(view[a]) /\ Succeeded(view[b])
               New(a, b) == Near(a, b) /\ ~Succeeded(new[a]) /\ Succeeded(new[b])
    <3>1. Recovered(view, g.run) = {b \in O : \E a \in O : Old(a, b) \/ Old(b, a)}
      BY DEF Recovered
    <3>2. Recovered(new, g.run) = {b \in O : \E a \in O : New(a, b) \/ New(b, a)}
      BY <2>2 DEF Recovered
    <3>3. \A a, b \in O : Old(a, b) <=> New(a, b)
      BY <2>3 DEF Succeeded
    <3> HIDE DEF O, Old, New
    <3> QED
      BY <3>1, <3>2, <3>3
  <2> QED
    BY <1>1, <2>4 DEF Evidence
<1>2. CASE g.signal # "rerun_recovery"
  <2> DEFINE f == g.workflow
             s == g.sha
             O(v) == {j \in Job : Eligible(v[j]) /\ v[j].workflow = f /\ ShaOf[RunOf[j]] = s}
  <2>1. f # None
    BY <1>2, NoneIsNoData DEF Group
  <2>2. ASSUME NEW j \in Job, RunOf[j] = r, ShaOf[RunOf[j]] = s
        PROVE  j \notin O(new) /\ j \notin O(view)
    <3>1. ~(Eligible(new[j]) /\ new[j].workflow = f)
      BY <2>2 DEF Opportunities
    <3>2. Eligible(view[j]) /\ view[j].workflow = f => Eligible(new[j]) /\ new[j].workflow = f
      BY <2>1, EligibleIsConcluded DEF Gains, Eligible
    <3> QED
      BY <3>1, <3>2
  <2>3. O(new) = O(view) /\ \A j \in O(view) : new[j] = view[j]
    BY <2>2
  <2>4. \A v : Disagreeing(v, f, s) = IF (\E j \in O(v) : Succeeded(v[j]))
                                         /\ (\E j \in O(v) : ~Succeeded(v[j]))
                                      THEN O(v) ELSE {}
    BY DEF Disagreeing
  <2>5. Disagreeing(new, f, s) = Disagreeing(view, f, s)
    <3> HIDE DEF O
    <3> QED
      BY <2>3, <2>4
  <2> QED
    BY <1>2, <2>5 DEF Evidence
<1> QED
  BY <1>1, <1>2

(* The recompute of the touched groups is a recompute of all of them.      *)
LEMMA EventsFollowFacts ==
  ASSUME NEW view, NEW new, NEW r \in Run, NEW g \in Group,
         \A j \in Job : RunOf[j] # r => new[j] = view[j],
         \A j \in Job : Gains(view[j], new[j])
  PROVE  Evidence(new, g) = IF g \in DOMAIN NewEvents(new, r) THEN NewEvents(new, r)[g]
                            ELSE Evidence(view, g)
<1> DEFINE known == {new[j].workflow : j \in Opportunities(new, r)}
           touched == {h \in Group : h.run = r \/ (h.workflow \in known /\ h.sha = ShaOf[r])}
<1>1. DOMAIN NewEvents(new, r) = {h \in touched : Evidence(new, h) # {}}
  BY DEF NewEvents
<1>2. CASE g \in DOMAIN NewEvents(new, r)
  BY <1>2, NewEventsAreTyped
<1>3. CASE g \in touched /\ Evidence(new, g) = {}
  <2>1. Evidence(view, g) = {}
    BY <1>3, EvidenceStays
  <2> QED
    BY <1>1, <1>3, <2>1
<1>4. CASE g \notin touched
  <2>1. Evidence(new, g) = Evidence(view, g)
    BY <1>4, EvidenceIsLocal
  <2> QED
    BY <1>1, <1>4, <2>1
<1> QED
  BY <1>1, <1>2, <1>3, <1>4

LEMMA InitSInv == Init => SInv
<1> SUFFICES ASSUME Init PROVE SInv
  OBVIOUS
<1>1. \A w \in Worker : txn[w].step = "idle"
  BY DEF Init, Idle
<1>2. \A j \in Job : ~Eligible(jobs[j])
  BY AbsentIsTyped DEF Init
<1>3. \A g \in Group : Evidence(jobs, g) = {}
  BY <1>2 DEF Evidence, Recovered, Opportunities, Disagreeing
<1> QED
  BY <1>1, <1>3 DEF Init, SInv, Serial, Busy, FlakesMatchFacts

LEMMA WriteSInv ==
  ASSUME ~Overlap, IInv, SInv, NEW w \in Worker, NEW p \in Payload, Write(w, p)
  PROVE  SInv'
<1>1. /\ ~Busy(w) /\ UNCHANGED <<jobs, flakes>>
      /\ txn' = [txn EXCEPT ![w] = [payload |-> p, step |-> "written", runs |-> RunWrites(p),
                                    jobs |-> JobWrites(p), events |-> <<>>]]
  BY DEF Write
<1>2. /\ txn'[w].step = "written" /\ \A v \in Worker \ {w} : txn'[v] = txn[v]
  BY <1>1 DEF IInv, TxnsOK
<1>3. \A v \in Worker : ~Busy(v)
  BY DEF Write, Blocked
<1>4. Serial' /\ \A v \in Worker : txn'[v].step # "evaluated"
  BY <1>2, <1>3 DEF Serial, Busy
<1> QED
  BY <1>1, <1>4 DEF SInv, FlakesMatchFacts

LEMMA EvaluateSInv == ASSUME IInv, SInv, NEW w \in Worker, Evaluate(w) PROVE SInv'
<1> DEFINE E == IF DOMAIN txn[w].jobs = {} THEN <<>>
                ELSE NewEvents(Override(jobs, txn[w].jobs), txn[w].payload.run)
           t == [txn[w] EXCEPT !.step = "evaluated", !.events = E]
<1>1. /\ txn' = [txn EXCEPT ![w] = t] /\ txn[w].step = "written"
      /\ UNCHANGED <<jobs, flakes>>
  BY DEF Evaluate
<1>2. DOMAIN txn[w] = {"payload", "step", "runs", "jobs", "events"}
  BY DEF IInv, TxnsOK, TxnOK
<1>3. /\ t.step = "evaluated" /\ t.payload = txn[w].payload
      /\ t.jobs = txn[w].jobs /\ t.events = E
  BY <1>2
<1>4. txn'[w] = t /\ \A v \in Worker \ {w} : txn'[v] = txn[v]
  BY <1>1 DEF IInv, TxnsOK
<1> HIDE DEF t
<1>5. Evaluated(w)'
  BY <1>1, <1>3, <1>4 DEF Evaluated
<1>6. \A v \in Worker \ {w} : Evaluated(v)' <=> Evaluated(v)
  BY <1>1, <1>4 DEF Evaluated
<1>7. Serial'
  BY <1>1, <1>3, <1>4 DEF SInv, Serial, Busy
<1> QED
  BY <1>1, <1>4, <1>5, <1>6, <1>7 DEF SInv, FlakesMatchFacts

LEMMA RollbackSInv == ASSUME IInv, SInv, NEW w \in Worker, Rollback(w) PROVE SInv'
<1>1. UNCHANGED <<jobs, flakes>>
  BY DEF Rollback
<1>2. txn'[w].step = "idle" /\ \A v \in Worker \ {w} : txn'[v] = txn[v]
  BY IdleIsTyped DEF Rollback, IInv, TxnsOK
<1>3. \A v \in Worker \ {w} : Evaluated(v)' <=> Evaluated(v)
  BY <1>1, <1>2 DEF Evaluated
<1>4. Serial'
  BY <1>2 DEF SInv, Serial, Busy
<1> QED
  BY <1>1, <1>2, <1>3, <1>4 DEF SInv, FlakesMatchFacts

LEMMA CommitSInv == ASSUME IInv, SInv, NEW w \in Worker, Commit(w) PROVE SInv'
<1> DEFINE r == txn[w].payload.run
           E == txn[w].events
<1>1. txn[w].step = "evaluated" /\ TxnOK(txn[w]) /\ Evaluated(w)
  BY DEF Commit, SInv, IInv, TxnsOK
<1>2. r \in Run
  BY CommitWrites, PayloadIsTyped
<1>3. \A j \in Job : /\ Gains(jobs[j], jobs'[j])
                     /\ RunOf[j] # r => jobs'[j] = jobs[j]
                     /\ j \notin DOMAIN txn[w].jobs => jobs'[j] = jobs[j]
  BY <1>1, CommitWrites DEF Written, Gains, TxnOK
<1>4. \A g \in Group : flakes[g] = Evidence(jobs, g)
  BY DEF SInv, FlakesMatchFacts
<1>5. \A g \in Group : flakes'[g] = IF g \in DOMAIN E THEN E[g] ELSE flakes[g]
  BY OverrideIsPointwise DEF Commit, IInv, TablesOK
<1>6. \A g \in Group : flakes'[g] = Evidence(jobs', g)
  <2>1. CASE DOMAIN txn[w].jobs = {}
    <3>1. jobs' = jobs
      BY <1>3, <2>1, CommitWrites DEF Override, IInv, TablesOK
    <3>2. DOMAIN E = {}
      BY <1>1, <2>1 DEF Evaluated
    <3> QED
      BY <1>4, <1>5, <3>1, <3>2
  <2>2. CASE DOMAIN txn[w].jobs # {}
    <3>1. E = NewEvents(jobs', r)
      BY <1>1, <2>2, CommitWrites DEF Evaluated
    <3> HIDE DEF E, r
    <3> QED
      BY <1>2, <1>3, <1>4, <1>5, <3>1, EventsFollowFacts
  <2> QED
    BY <2>1, <2>2
<1>7. \A v \in Worker : txn'[v].step = "idle"
  <2>1. /\ txn'[w].step = "idle" /\ \A v \in Worker \ {w} : txn'[v] = txn[v]
    BY IdleIsTyped DEF Commit, IInv, TxnsOK
  <2>2. \A v \in Worker \ {w} : txn[v].step = "idle"
    BY <1>1 DEF SInv, Serial, Busy
  <2> QED
    BY <2>1, <2>2
<1> QED
  BY <1>6, <1>7 DEF SInv, Serial, Busy, FlakesMatchFacts

LEMMA NextSInv == ASSUME ~Overlap, IInv, SInv, [Next]_vars PROVE SInv'
<1>1. ASSUME NEW w \in Worker, NEW p \in Payload, Write(w, p) PROVE SInv'
  BY <1>1, WriteSInv
<1>2. ASSUME NEW w \in Worker, Evaluate(w) \/ Commit(w) \/ Rollback(w) PROVE SInv'
  BY <1>2, EvaluateSInv, CommitSInv, RollbackSInv
<1>3. CASE UNCHANGED vars
  BY <1>3 DEF vars, SInv, Serial, Busy, Evaluated, FlakesMatchFacts
<1> QED
  BY <1>1, <1>2, <1>3 DEF Next

(* The stored flake events are at every moment those that the stored jobs  *)
(* call for, although evaluate_job looks only at the groups of one run and *)
(* never deletes an event.                                                 *)
THEOREM FlakesFollowFacts ==
  ASSUME ~Overlap
  PROVE  Spec => []FlakesMatchFacts
<1>1. IInv /\ SInv => FlakesMatchFacts
  BY DEF SInv
<1>2. IInv /\ SInv /\ [Next]_vars => (IInv /\ SInv)'
  BY NextIInv, NextSInv
<1>3. Init => IInv /\ SInv
  BY InitIInv, InitSInv
<1> QED
  BY <1>1, <1>2, <1>3, PTL DEF Spec
-------------------------------------------------------------------------------
(* Workflows.  A job's payload does not name the workflow of its run; what  *)
(* does, a run event or a page of history, comes before or after it.        *)
KnownRun(r) == \E n \in Attempt : runs[<<r, n>>].workflow # None

(* What an open transaction is to write is still what its payload calls     *)
(* for, and what it follows from has been handled.                          *)
Current(w) ==
  /\ txn[w].runs = RunWrites(txn[w].payload)
  /\ txn[w].jobs = JobWrites(txn[w].payload)
  /\ Queued(txn[w].payload)

Named(p) ==
  /\ NamesWorkflow(p) => KnownRun(p.run)
  /\ p.kind = "run" => \A j \in Job : RunOf[j] = p.run /\ jobs[j] # Absent
                                        => jobs[j].workflow # None
  /\ p.kind = "jobs" => \A j \in Own(p) : jobs[j].workflow # None

WInv ==
  /\ \A w \in Worker : Busy(w) => Current(w)
  /\ \A p \in handled : Named(p)

(* What the payloads are assumed to be: every job's last is among them, and *)
(* a job's run is told of, or the job is told of by the history of its run. *)
AllTold ==
  /\ \A j \in Job : \E p \in Payload : j \in Own(p) /\ p.status = "completed"
  /\ \A j \in Job : \/ \E p \in Payload : p.kind = "run" /\ p.run = RunOf[j]
                    \/ \A p \in Payload : j \in Own(p) => p.kind = "jobs"

LEMMA UpsertKeepsWorkflow ==
  ASSUME NEW old, NEW new
  PROVE  /\ old.workflow # None /\ old # Absent
              => Upsert(old, new).workflow = old.workflow
         /\ new.workflow # None => Upsert(old, new).workflow # None
  BY DEF Upsert, Coalesce

LEMMA CommitNames ==
  ASSUME IInv, WInv, NEW w \in Worker, Commit(w)
  PROVE  LET p == txn[w].payload
         IN /\ \A k \in Run \X Attempt : runs[k].workflow # None => runs'[k].workflow # None
            /\ NamesWorkflow(p) => runs'[<<p.run, p.attempt>>].workflow # None
            /\ \A j \in Job : jobs[j].workflow # None => jobs'[j].workflow # None
            /\ p.kind = "run" => \A j \in Job : RunOf[j] = p.run /\ jobs'[j] # Absent
                                                  => jobs'[j].workflow # None
            /\ KnownRun(p.run) => \A j \in Own(p) : jobs'[j].workflow # None
            /\ \A j \in Job : jobs'[j] = jobs[j] \/ RunOf[j] = p.run
            /\ Queued(p)
<1> DEFINE p == txn[w].payload
<1>1. /\ p \in Payload /\ txn[w].step = "evaluated" /\ Current(w)
      /\ jobs' = Override(jobs, JobWrites(p)) /\ runs' = Override(runs, RunWrites(p))
      /\ DOMAIN jobs = Job /\ DOMAIN runs = Run \X Attempt
  BY CommitWrites DEF Commit, WInv, Busy, Current, IInv, TablesOK
<1> HIDE DEF p
<1>2. /\ p.run \in Run /\ p.attempt \in Attempt
      /\ \A r \in Run : WorkflowOf[r] # None
  BY <1>1, PayloadIsTyped, NoneIsNoData
<1>3. /\ \A k \in Run \X Attempt : runs'[k] = IF k \in DOMAIN RunWrites(p) THEN RunWrites(p)[k]
                                              ELSE runs[k]
      /\ \A j \in Job : jobs'[j] = IF j \in DOMAIN JobWrites(p) THEN JobWrites(p)[j] ELSE jobs[j]
  BY <1>1, OverrideIsPointwise
<1> DEFINE key == <<p.run, p.attempt>>
           own == Upsert(runs[key], RunRow(p))
           fill == IF p.kind = "run" THEN {n \in Attempt : runs[p.run, n] # Absent
                                                           /\ runs[p.run, n].workflow = None}
                   ELSE {}
<1>4. /\ DOMAIN RunWrites(p) = {p.run} \X (fill \cup {p.attempt})
      /\ \A k \in DOMAIN RunWrites(p) :
           RunWrites(p)[k] = IF k[2] = p.attempt THEN own
                             ELSE [runs[k] EXCEPT !.workflow = WorkflowOf[p.run]]
  BY DEF RunWrites
<1> HIDE DEF own, fill
<1>5. Absent.workflow = None
  BY AbsentIsTyped
<1>6. ASSUME NEW k \in Run \X Attempt, runs[k].workflow # None
      PROVE  runs'[k].workflow # None
  <2>1. CASE k \notin DOMAIN RunWrites(p)
    BY <1>3, <1>6, <2>1
  <2>2. CASE k \in DOMAIN RunWrites(p)
    <3>1. k = <<p.run, k[2]>> /\ k[2] \in fill \cup {p.attempt}
      BY <1>4, <2>2
    <3>2. k[2] = p.attempt /\ k = key
      BY <1>6, <3>1 DEF fill
    <3>3. runs'[k] = Upsert(runs[k], RunRow(p))
      BY <1>3, <1>4, <2>2, <3>2 DEF own
    <3> QED
      BY <1>5, <1>6, <3>3, UpsertKeepsWorkflow
  <2> QED
    BY <2>1, <2>2
<1>7. NamesWorkflow(p) => runs'[<<p.run, p.attempt>>].workflow # None
  <2>1. <<p.run, p.attempt>> \in DOMAIN RunWrites(p)
    BY <1>4
  <2>2. runs'[key] = own /\ key \in Run \X Attempt
    BY <1>2, <1>3, <1>4, <2>1
  <2>3. NamesWorkflow(p) => RunRow(p).workflow = WorkflowOf[p.run]
    BY DEF RunRow, RowOf
  <2> QED
    BY <1>2, <2>2, <2>3, UpsertKeepsWorkflow DEF own
<1>8. \A j \in Job : jobs[j].workflow # None => jobs'[j].workflow # None
  BY CommitWrites DEF Written, Gains
<1> DEFINE left == {j \in Job : p.kind = "run" /\ RunOf[j] = p.run
                                /\ jobs[j] # Absent /\ jobs[j].workflow = None}
<1>9. /\ DOMAIN JobWrites(p) = Own(p) \cup left
      /\ \A j \in Own(p) : JobWrites(p)[j] = Upsert(jobs[j], JobRow(p, j))
      /\ \A j \in left \ Own(p) :
           JobWrites(p)[j] = [jobs[j] EXCEPT !.workflow = WorkflowOf[p.run]]
  BY DEF JobWrites, Own
<1>10. ASSUME p.kind = "run", NEW j \in Job, RunOf[j] = p.run, jobs'[j] # Absent
       PROVE  jobs'[j].workflow # None
  <2>1. Own(p) = {}
    BY <1>10 DEF Own, NamesJob
  <2>2. CASE j \in left
    <3>1. jobs'[j] = [jobs[j] EXCEPT !.workflow = WorkflowOf[p.run]]
      BY <1>3, <1>9, <2>1, <2>2
    <3>2. "workflow" \in DOMAIN jobs[j]
      BY DEF IInv, TablesOK, JobRowOK
    <3> QED
      BY <1>2, <3>1, <3>2
  <2>3. CASE j \notin left
    <3>1. jobs'[j] = jobs[j]
      BY <1>3, <1>9, <2>1, <2>3
    <3> QED
      BY <1>10, <2>3, <3>1
  <2> QED
    BY <2>2, <2>3
<1>11. ASSUME KnownRun(p.run), NEW j \in Own(p)
       PROVE  jobs'[j].workflow # None
  <2>1. KnownWorkflow(runs, p.run) # None
    <3> DEFINE known == {runs[p.run, n].workflow : n \in Attempt} \ {None}
    <3>1. known # {}
      BY <1>11 DEF KnownRun
    <3>2. KnownWorkflow(runs, p.run) = CHOOSE f \in known : TRUE
      BY <3>1 DEF KnownWorkflow
    <3> QED
      BY <3>1, <3>2
  <2>2. JobRow(p, j).workflow # None
    BY <2>1 DEF JobRow, RowOf
  <2>3. j \in Job /\ jobs'[j] = Upsert(jobs[j], JobRow(p, j))
    BY <1>3, <1>9 DEF Own
  <2> QED
    BY <2>2, <2>3, UpsertKeepsWorkflow
<1>12. \A j \in Job : jobs'[j] = jobs[j] \/ RunOf[j] = p.run
  BY <1>3, <1>9 DEF Own
<1>13. Queued(p)
  BY <1>1 DEF Current, p
<1> QED
  BY <1>6, <1>7, <1>8, <1>10, <1>11, <1>12, <1>13 DEF p

LEMMA CommitWInv ==
  ASSUME IInv, SInv, WInv, NEW w \in Worker, Commit(w)
  PROVE  WInv'
<1>0. PICK p \in Payload : p = txn[w].payload
  BY CommitWrites
<1>1. /\ p.run \in Run /\ p.attempt \in Attempt
      /\ handled' = handled \cup {p} /\ handled \subseteq Payload
  BY <1>0, CommitWrites, PayloadIsTyped DEF IInv, TablesOK
<1>2. /\ \A k \in Run \X Attempt : runs[k].workflow # None => runs'[k].workflow # None
      /\ NamesWorkflow(p) => runs'[<<p.run, p.attempt>>].workflow # None
      /\ \A j \in Job : jobs[j].workflow # None => jobs'[j].workflow # None
      /\ p.kind = "run" => \A j \in Job : RunOf[j] = p.run /\ jobs'[j] # Absent
                                            => jobs'[j].workflow # None
      /\ KnownRun(p.run) => \A j \in Own(p) : jobs'[j].workflow # None
      /\ \A j \in Job : jobs'[j] = jobs[j] \/ RunOf[j] = p.run
      /\ Queued(p)
  BY <1>0, CommitNames
<1>3. \A r \in Run : KnownRun(r) => KnownRun(r)'
  BY <1>2 DEF KnownRun
<1>4. ASSUME NEW q \in handled PROVE Named(q)'
  <2>1. Named(q) /\ q \in Payload /\ q.run \in Run
    BY <1>1, PayloadIsTyped DEF WInv
  <2>2. (NamesWorkflow(q) => KnownRun(q.run))'
    BY <1>3, <2>1 DEF Named
  <2>3. q.kind = "run" => \A j \in Job : RunOf[j] = q.run /\ jobs'[j] # Absent
                                           => jobs'[j].workflow # None
    <3> SUFFICES ASSUME q.kind = "run", NEW j \in Job, RunOf[j] = q.run, jobs'[j] # Absent
                 PROVE  jobs'[j].workflow # None
      OBVIOUS
    <3>1. CASE jobs'[j] = jobs[j]
      BY <2>1, <3>1 DEF Named
    <3>2. CASE RunOf[j] = p.run /\ jobs'[j] # jobs[j]
      <4>1. KnownRun(p.run)
        BY <2>1, <3>2 DEF Named, NamesWorkflow
      <4>2. CASE j \in Own(p)
        BY <1>2, <4>1, <4>2
      <4>3. CASE j \notin Own(p)
        <5>1. p.kind = "run" \/ jobs'[j].workflow # None
          <6>1. Written(p, j, jobs[j], jobs'[j])
            BY <1>0, <3>2, CommitWrites
          <6>2. jobs'[j].status = jobs[j].status
            BY <4>3, <6>1 DEF Written
          <6>3. jobs[j] # Absent
            BY <3>2, <6>1, <6>2, AbsentIsTyped DEF Written, JobRowOK
          <6> QED
            BY <1>2, <2>1, <3>2, <6>3 DEF Named
        <5> QED
          BY <1>2, <3>2, <5>1
      <4> QED
        BY <4>2, <4>3
    <3> QED
      BY <1>2, <3>1, <3>2
  <2>4. q.kind = "jobs" => \A j \in Own(q) : jobs'[j].workflow # None
    BY <1>2, <2>1 DEF Named, Own
  <2> QED
    BY <2>2, <2>3, <2>4 DEF Named, Own, NamesWorkflow, NamesJob
<1>5. Named(p)'
  <2>1. (NamesWorkflow(p) => KnownRun(p.run))'
    BY <1>1, <1>2 DEF KnownRun, NamesWorkflow
  <2>2. p.kind = "jobs" => KnownRun(p.run)
    <3> SUFFICES ASSUME p.kind = "jobs" PROVE KnownRun(p.run)
      OBVIOUS
    <3>1. PICK q \in handled : q.kind = "page" /\ q.run = p.run
      BY <1>2 DEF Queued
    <3> QED
      BY <3>1 DEF WInv, Named, NamesWorkflow
  <2> QED
    BY <1>2, <2>1, <2>2 DEF Named, Own, NamesWorkflow, NamesJob
<1>6. \A v \in Worker : ~Busy(v)'
  <2>1. txn'[w].step = "idle" /\ \A v \in Worker \ {w} : txn'[v] = txn[v]
    BY IdleIsTyped DEF Commit, IInv, TxnsOK
  <2>2. \A v \in Worker \ {w} : ~Busy(v)
    BY DEF SInv, Serial, Busy, Commit
  <2> QED
    BY <2>1, <2>2 DEF Busy
<1> QED
  BY <1>1, <1>4, <1>5, <1>6 DEF WInv

(* A step that commits nothing.                                             *)
LEMMA SameWrites ==
  ASSUME UNCHANGED <<runs, jobs, handled>>
  PROVE  \A p : /\ RunWrites(p)' = RunWrites(p) /\ JobWrites(p)' = JobWrites(p)
                /\ Queued(p)' <=> Queued(p)
<1>1. runs' = runs /\ jobs' = jobs /\ handled' = handled
  OBVIOUS
<1> TAKE p
<1>2. RunWrites(p)' = RunWrites(p)
  <2> DEFINE own == Upsert(runs[p.run, p.attempt], RunRow(p))
             fill == IF p.kind = "run" THEN {n \in Attempt : runs[p.run, n] # Absent
                                                             /\ runs[p.run, n].workflow = None}
                     ELSE {}
             writes == [k \in {p.run} \X (fill \cup {p.attempt}) |->
                          IF k[2] = p.attempt THEN own
                          ELSE [runs[k] EXCEPT !.workflow = WorkflowOf[p.run]]]
  <2>1. RunWrites(p) = writes /\ RunWrites(p)' = writes'
    BY Zenon DEF RunWrites
  <2>2. own' = own /\ fill' = fill
    BY <1>1, Zenon
  <2> HIDE DEF own, fill
  <2>3. writes' = writes
    BY <1>1, <2>2
  <2> QED
    BY <2>1, <2>3
<1>3. \A j : JobRow(p, j)' = JobRow(p, j)
  BY <1>1 DEF JobRow
<1>4. JobWrites(p)' = JobWrites(p)
  BY <1>1, <1>3 DEF JobWrites
<1>5. Queued(p)' <=> Queued(p)
  BY <1>1 DEF Queued
<1> QED
  BY <1>2, <1>4, <1>5

LEMMA OpenWInv ==
  ASSUME WInv, IInv, UNCHANGED <<runs, jobs, handled>>, NEW w \in Worker, NEW t,
         txn' = [txn EXCEPT ![w] = t],
         t.step # "idle" => /\ t.runs = RunWrites(t.payload) /\ t.jobs = JobWrites(t.payload)
                            /\ Queued(t.payload)
  PROVE  WInv'
<1>1. \A v \in Worker : txn'[v] = IF v = w THEN t ELSE txn[v]
  BY DEF IInv, TxnsOK
<1>2. \A p : RunWrites(p)' = RunWrites(p) /\ JobWrites(p)' = JobWrites(p)
             /\ (Queued(p)' <=> Queued(p))
  BY SameWrites
<1>3. ASSUME NEW v \in Worker, Busy(v)' PROVE Current(v)'
  <2>1. CASE v = w
    BY <1>1, <1>2, <1>3, <2>1 DEF Busy, Current
  <2>2. CASE v # w
    <3>1. txn'[v] = txn[v] /\ Busy(v) /\ Current(v)
      BY <1>1, <1>3, <2>2 DEF Busy, WInv
    <3> QED
      BY <1>2, <3>1 DEF Current
  <2> QED
    BY <2>1, <2>2
<1>4. \A p \in handled' : Named(p)'
  BY DEF WInv, Named, KnownRun
<1> QED
  BY <1>3, <1>4 DEF WInv
-------------------------------------------------------------------------------
LEMMA NextWInv ==
  ASSUME IInv, SInv, WInv, [Next]_vars
  PROVE  WInv'
<1>1. ASSUME NEW w \in Worker, NEW p \in Payload, Write(w, p) PROVE WInv'
  <2> DEFINE t == [payload |-> p, step |-> "written", runs |-> RunWrites(p),
                   jobs |-> JobWrites(p), events |-> <<>>]
  <2>1. /\ txn' = [txn EXCEPT ![w] = t] /\ UNCHANGED <<runs, jobs, handled>>
        /\ t.payload = p /\ t.runs = RunWrites(p) /\ t.jobs = JobWrites(p) /\ Queued(p)
    BY <1>1 DEF Write
  <2> HIDE DEF t
  <2> QED
    BY <2>1, OpenWInv
<1>2. ASSUME NEW w \in Worker, Evaluate(w) PROVE WInv'
  <2> DEFINE e == IF DOMAIN txn[w].jobs = {} THEN <<>>
                  ELSE NewEvents(Override(jobs, txn[w].jobs), txn[w].payload.run)
             t == [txn[w] EXCEPT !.step = "evaluated", !.events = e]
  <2>1. txn' = [txn EXCEPT ![w] = t] /\ UNCHANGED <<runs, jobs, handled>> /\ Current(w)
    BY <1>2 DEF Evaluate, WInv, Busy
  <2>2. TxnOK(txn[w])
    BY DEF IInv, TxnsOK
  <2>3. t.payload = txn[w].payload /\ t.runs = txn[w].runs /\ t.jobs = txn[w].jobs
    BY <2>2 DEF TxnOK
  <2> HIDE DEF t
  <2> QED
    BY <2>1, <2>3, OpenWInv DEF Current
<1>3. ASSUME NEW w \in Worker, Commit(w) PROVE WInv'
  BY <1>3, CommitWInv
<1>4. ASSUME NEW w \in Worker, Rollback(w) PROVE WInv'
  BY <1>4, IdleIsTyped, OpenWInv DEF Rollback
<1>5. CASE UNCHANGED vars
  <2>1. UNCHANGED <<runs, jobs, handled>> /\ txn' = txn
    BY <1>5 DEF vars
  <2>2. \A w \in Worker : Busy(w)' => Current(w)'
    BY <2>1, SameWrites DEF WInv, Busy, Current
  <2>3. \A p \in handled' : Named(p)'
    BY <2>1 DEF WInv, Named, KnownRun
  <2> QED
    BY <2>2, <2>3 DEF WInv
<1> QED
  BY <1>1, <1>2, <1>3, <1>4, <1>5 DEF Next

(* When all is told, every job is stored as it ended.                       *)
LEMMA JobsEnd ==
  ASSUME IInv, WInv, AllTold, handled = Payload, NEW j \in Job
  PROVE  /\ jobs[j].status = "completed" /\ jobs[j].conclusion = Conclusion[j]
         /\ jobs[j].workflow = WorkflowOf[RunOf[j]]
<1>1. JobRowOK(j, jobs[j]) /\ Remembers(j)
  BY DEF IInv, TablesOK
<1>2. PICK p \in Payload : j \in Own(p) /\ p.status = "completed"
  BY DEF AllTold
<1>3. p \in About(j)
  BY <1>2 DEF About, Own
<1>4. jobs[j].status = "completed"
  <2>1. PICK q \in About(j) : jobs[j].status = q.status
    BY <1>1, <1>3 DEF Remembers
  <2>2. q.status \in Progress
    BY <2>1, PayloadIsTyped DEF About
  <2>3. Rank(p.status) <= Rank(jobs[j].status) /\ Rank(p.status) = 3
    BY <1>1, <1>2, <1>3, RankIsAbsent DEF Remembers, Progress
  <2>4. Rank(q.status) = 3
    BY <2>1, <2>3, RankIsNat
  <2> QED
    BY <2>1, <2>2, <2>4, RankIsAbsent
<1>5. jobs[j] # Absent
  BY <1>4, AbsentIsTyped
<1>6. jobs[j].workflow # None
  <2>1. CASE \E q \in Payload : q.kind = "run" /\ q.run = RunOf[j]
    BY <1>5, <2>1 DEF WInv, Named
  <2>2. CASE \A q \in Payload : j \in Own(q) => q.kind = "jobs"
    BY <1>2, <2>2 DEF WInv, Named
  <2> QED
    BY <2>1, <2>2 DEF AllTold
<1> QED
  BY <1>1, <1>4, <1>6 DEF JobRowOK

LEMMA RowsAsEnded ==
  ASSUME NEW j \in Job, NEW row, row.conclusion = Conclusion[j],
         row.workflow = WorkflowOf[RunOf[j]]
  PROVE  /\ Eligible(row) <=> Eligible(Ended(j))
         /\ Succeeded(row) <=> Succeeded(Ended(j))
         /\ Ended(j).workflow = row.workflow
  BY DEF Ended, RowOf, Eligible, Succeeded

LEMMA EvidenceIsFlaky ==
  ASSUME NEW view, NEW g \in Group,
         \A j \in Job : view[j].conclusion = Conclusion[j]
                        /\ view[j].workflow = WorkflowOf[RunOf[j]]
  PROVE  Evidence(view, g) # {} <=> IsFlaky(g)
<1>1. \A j \in Job : /\ Eligible(view[j]) <=> Eligible(Ended(j))
                     /\ Succeeded(view[j]) <=> Succeeded(Ended(j))
  BY RowsAsEnded
<1>2. CASE g.signal = "rerun_recovery"
  <2> DEFINE O == Opportunities(view, g.run)
             Adjacent(i, j) == /\ AttemptOf[i] < AttemptOf[j]
                               /\ \A o \in O : ~(/\ AttemptOf[i] < AttemptOf[o]
                                                 /\ AttemptOf[o] < AttemptOf[j])
             Pair(i, j) == Adjacent(i, j) /\ ~Succeeded(view[i]) /\ Succeeded(view[j])
             R == {j \in O : \E i \in O : Pair(i, j) \/ Pair(j, i)}
  <2>1. Evidence(view, g) = R
    BY <1>2 DEF Evidence, Recovered
  <2>2. O = {j \in Job : RunOf[j] = g.run /\ Eligible(view[j])}
    BY DEF Opportunities
  <2>3. IsFlaky(g) <=> \E i, j \in O : /\ ~Succeeded(view[i]) /\ Succeeded(view[j])
                                       /\ AttemptOf[i] < AttemptOf[j]
    BY <1>1, <1>2, <2>2 DEF IsFlaky
  <2> HIDE DEF O
  <2>4. R # {} => IsFlaky(g)
    BY <2>3
  <2>5. ASSUME NEW i \in O, NEW j \in O, ~Succeeded(view[i]), Succeeded(view[j]),
               AttemptOf[i] < AttemptOf[j]
        PROVE  R # {}
    <3>1. O \in SUBSET Job
      BY <2>2
    <3>2. PICK a, b \in O :
            /\ ~Succeeded(view[a]) /\ Succeeded(view[b]) /\ AttemptOf[a] < AttemptOf[b]
            /\ \A o \in O : ~(AttemptOf[a] < AttemptOf[o] /\ AttemptOf[o] < AttemptOf[b])
      BY <2>5, <3>1, SomeNeighbours
    <3>3. Pair(a, b)
      BY <3>2
    <3>4. b \in R
      BY <3>2, <3>3
    <3> QED
      BY <3>4
  <2> HIDE DEF R
  <2> QED
    BY <2>1, <2>3, <2>4, <2>5
<1>3. CASE g.signal # "rerun_recovery"
  <2> DEFINE O == {j \in Job : /\ Eligible(view[j]) /\ view[j].workflow = g.workflow
                               /\ ShaOf[RunOf[j]] = g.sha}
  <2>1. Evidence(view, g) = IF (\E j \in O : Succeeded(view[j])) /\ (\E j \in O : ~Succeeded(view[j]))
                            THEN O ELSE {}
    BY <1>3 DEF Evidence, Disagreeing
  <2>2. IsFlaky(g) <=> \E i, j \in O : ~Succeeded(view[i]) /\ Succeeded(view[j])
    BY <1>1, <1>3 DEF IsFlaky
  <2> HIDE DEF O
  <2> QED
    BY <2>1, <2>2
<1> QED
  BY <1>2, <1>3

(* Whichever order the payloads come in, when every one has been handled    *)
(* the stored events are exactly those that the runs as they ended call     *)
(* for: nothing is lost by a job that came before its run's workflow was    *)
(* known, by a late payload or by a repeated one.                           *)
THEOREM NoFlakeIsMissed ==
  ASSUME ~Overlap, AllTold
  PROVE  Spec => []NothingMissed
<1> DEFINE Inv == IInv /\ SInv /\ WInv
<1>1. Init => Inv
  <2> SUFFICES ASSUME Init PROVE Inv
    OBVIOUS
  <2>1. WInv
    BY DEF Init, WInv, Busy, Idle
  <2> QED
    BY <2>1, InitIInv, InitSInv
<1>2. Inv /\ [Next]_vars => Inv'
  BY NextIInv, NextSInv, NextWInv
<1>3. Inv => NothingMissed
  <2> SUFFICES ASSUME Inv, handled = Payload, NEW g \in Group
               PROVE  flakes[g] # {} <=> IsFlaky(g)
    BY DEF NothingMissed
  <2>1. flakes[g] = Evidence(jobs, g)
    BY DEF SInv, FlakesMatchFacts
  <2> QED
    BY <2>1, JobsEnd, EvidenceIsFlaky
<1> QED
  BY <1>1, <1>2, <1>3, PTL DEF Spec
===============================================================================
