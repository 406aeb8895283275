------------------------------ MODULE RollupProofs ------------------------------
(***************************************************************************)
(* Proofs about the daily rollup, for any jobs, days, windows, workers and *)
(* operators, however their rollups overlap or fail.                       *)
(***************************************************************************)
EXTENDS Rollup, FiniteSetTheorems, WellFoundedInduction, TLAPS

(* A transaction or a pass began after the last finished pass did.         *)
ClocksBehind ==
  /\ \A w \in Worker : clock[w] <= since[w]
  /\ \A o \in Operator : clock[o] = 0

(* A rollup writes and deletes only days of its window.                    *)
InsideWindow ==
  \A x \in Roller :
    /\ DOMAIN rollup[x] = {"at", "repo", "from", "rows", "gone"}
    /\ rollup[x].from \in Nat
    /\ \A k \in DOMAIN rollup[x].rows \cup rollup[x].gone : k.day >= rollup[x].from

IInv == TypeOK /\ ClocksBehind /\ InsideWindow
-------------------------------------------------------------------------------
LEMMA ClosedIsTyped ==
  /\ DOMAIN Closed = {"at", "repo", "from", "rows", "gone"}
  /\ Closed.at = "closed" /\ Closed.from \in Nat
  /\ Table(Closed.rows) /\ DOMAIN Closed.rows = {} /\ Closed.gone = {}
  BY DEF Closed, Nothing, Table

LEMMA SinceIsNat == ASSUME today \in Nat, NEW d \in Nat PROVE Since(d) \in Nat
  BY DEF Since

LEMMA CountIsTyped == ASSUME NEW J \in SUBSET Job PROVE CountOf(J) \in Count
<1>1. \A K \in SUBSET J : Cardinality(K) \in Nat
  BY FS_Subset, FS_CardinalityType, ConstantsAssumption DEF ConstantsAssumption
<1> DEFINE opportunities == {j \in J : Eligible(j)}
           failures == {j \in J : Eligible(j) /\ j.verdict = "failure"}
           flakes == {j \in J : Eligible(j) /\ facts[j].flaky}
<1>2. {J, opportunities, failures, flakes} \subseteq SUBSET J
  OBVIOUS
<1>3. CountOf(J) = [runs |-> Cardinality(J), opportunities |-> Cardinality(opportunities),
                    failures |-> Cardinality(failures), flakes |-> Cardinality(flakes)]
  BY DEF CountOf
<1> HIDE DEF opportunities, failures, flakes
<1> QED
  BY <1>1, <1>2, <1>3 DEF Count

(* The rows of a recompute have a place in the table, and in its window.   *)
LEMMA AggregateIsTyped ==
  ASSUME TypeOK, NEW r, NEW from \in Nat
  PROVE  /\ Table(Aggregate(r, from))
         /\ \A k \in DOMAIN Aggregate(r, from) : k.day >= from
<1> DEFINE counted == {j \in JobsOf(r) : Finished(j) /\ j.day >= from}
<1>1. counted \subseteq Job
  BY DEF JobsOf
<1>2. \A j \in counted : KeyOf(j) \in Key /\ KeyOf(j).day = j.day /\ j.day >= from
  <2> TAKE j \in counted
  <2>1. facts[j].workflow \in {None} \cup {i.workflow : i \in Job}
    BY <1>1 DEF TypeOK, Fact
  <2>2. j.day \in 0 .. LastDay
    BY <1>1, ConstantsAssumption DEF ConstantsAssumption
  <2> QED
    BY <1>1, <2>1, <2>2 DEF KeyOf, Key
<1>3. DOMAIN Aggregate(r, from) = {KeyOf(j) : j \in counted}
  BY DEF Aggregate
<1>4. \A k \in DOMAIN Aggregate(r, from) :
        Aggregate(r, from)[k] = CountOf({j \in counted : KeyOf(j) = k})
  BY DEF Aggregate
<1>5. \A k \in DOMAIN Aggregate(r, from) : Aggregate(r, from)[k] \in Count
  <2> TAKE k \in DOMAIN Aggregate(r, from)
  <2>1. {j \in counted : KeyOf(j) = k} \in SUBSET Job
    BY <1>1
  <2> QED
    BY <2>1, <1>4, CountIsTyped
<1> HIDE DEF counted
<1> QED
  BY <1>2, <1>3, <1>5 DEF Table
-------------------------------------------------------------------------------
LEMMA InitIInv == Init => IInv
<1> SUFFICES ASSUME Init PROVE IInv
  OBVIOUS
<1> USE ConstantsAssumption DEF ConstantsAssumption, Init
<1>1. facts \in [Job -> Fact]
  BY DEF Absent, Fact
<1>2. DOMAIN stats = Repo /\ \A r \in Repo : Table(stats[r])
  BY DEF Table, Nothing
<1>3. \A x \in Roller : rollup[x] = Closed
  OBVIOUS
<1>4. TypeOK
  BY <1>1, <1>2, <1>3, ClosedIsTyped DEF TypeOK
<1>5. ClocksBehind
  BY DEF ClocksBehind, Roller
<1>6. InsideWindow
  BY <1>3, ClosedIsTyped DEF InsideWindow
<1> QED
  BY <1>4, <1>5, <1>6 DEF IInv

(* The conjuncts of the invariant that a step of one process leaves alone  *)
(* when it touches neither its transaction nor the tables.                 *)
RollupsUnchanged == UNCHANGED <<facts, stats, today, age, rollup>>

LEMMA BeginWriteIInv == ASSUME IInv, NEW w \in Worker, BeginWrite(w) PROVE IInv'
<1> USE ConstantsAssumption DEF ConstantsAssumption, IInv, BeginWrite
<1>1. TypeOK'
  BY DEF TypeOK, Roller, Table
<1>2. ClocksBehind'
  BY DEF ClocksBehind, TypeOK, Roller
<1> QED
  BY <1>1, <1>2 DEF InsideWindow

(* Whatever a transaction reports of a job, the facts stay well formed.    *)
LEMMA PayloadsAreTyped ==
  ASSUME facts \in [Job -> Fact], NEW j \in Job, NEW table \in Payloads(j)
  PROVE  table \in [Job -> Fact]
<1>1. \A f \in Fact : [f EXCEPT !.workflow = j.workflow] \in Fact
  BY DEF Fact
<1>2. Propagated(j) \in [Job -> Fact]
  BY <1>1 DEF Propagated
<1>3. \A stage \in {"running", "done"}, workflow \in {None, j.workflow} :
        Reported(j, stage, workflow) \in [Job -> Fact]
  <2> TAKE stage \in {"running", "done"}, workflow \in {None, j.workflow}
  <2> DEFINE fact == [stage    |-> IF facts[j].stage = "done" THEN "done" ELSE stage,
                      workflow |-> IF workflow = None THEN facts[j].workflow ELSE workflow,
                      flaky    |-> facts[j].flaky]
  <2>1. fact \in Fact
    BY DEF Fact
  <2>2. Reported(j, stage, workflow) = [facts EXCEPT ![j] = fact]
    BY DEF Reported
  <2> HIDE DEF fact
  <2> QED
    BY <2>1, <2>2
<1> QED
  BY <1>2, <1>3 DEF Payloads

LEMMA ImplicatedIsTyped ==
  ASSUME NEW table \in [Job -> Fact], NEW J
  PROVE  Implicated(table, J) \in [Job -> Fact]
<1>1. \A f \in Fact : [f EXCEPT !.flaky = TRUE] \in Fact
  BY DEF Fact
<1> QED
  BY <1>1 DEF Implicated

LEMMA CommitWriteIInv == ASSUME IInv, NEW w \in Worker, CommitWrite(w) PROVE IInv'
<1> USE ConstantsAssumption DEF ConstantsAssumption, IInv
<1>1. facts \in [Job -> Fact]
  BY DEF TypeOK
<1>2. PICK j \in Job :
        /\ \E table \in Payloads(j), J \in SUBSET {k \in JobsOf(j.repo) : Eligible(k)} :
             facts' = Implicated(table, J)
        /\ age' = [age EXCEPT ![j.repo] = IF @ < clock[w] THEN @ ELSE clock[w]]
  BY Zenon DEF CommitWrite
<1>3. facts' \in [Job -> Fact]
  BY <1>1, <1>2, PayloadsAreTyped, ImplicatedIsTyped
<1>4. age' \in [Repo -> 0 .. Slack + 1]
  <2>1. age \in [Repo -> 0 .. Slack + 1] /\ clock[w] \in Nat
    BY DEF TypeOK, Roller
  <2> DEFINE newest == IF age[j.repo] < clock[w] THEN age[j.repo] ELSE clock[w]
  <2>2. j.repo \in Repo
    BY DEF Repo
  <2>3. newest \in 0 .. Slack + 1
    BY <2>1, <2>2
  <2>4. age' = [age EXCEPT ![j.repo] = newest]
    BY <1>2
  <2> HIDE DEF newest
  <2> QED
    BY <2>1, <2>3, <2>4
<1>5. phase' \in [Roller -> {"idle", "writing", "rolling"}]
  BY DEF CommitWrite, TypeOK
<1>6. UNCHANGED <<stats, today, clock, since, todo, rollup>>
  BY DEF CommitWrite
<1>7. TypeOK'
  BY <1>3, <1>4, <1>5, <1>6 DEF TypeOK, Table
<1> QED
  BY <1>6, <1>7 DEF ClocksBehind, InsideWindow

LEMMA StartPassIInv == ASSUME IInv, NEW w \in Worker, StartPass(w) PROVE IInv'
<1> USE ConstantsAssumption DEF ConstantsAssumption, IInv, StartPass
<1>1. todo' \in [Roller -> SUBSET Repo]
  BY DEF TypeOK
<1>2. TypeOK'
  BY <1>1 DEF TypeOK, Roller, Table
<1>3. ClocksBehind'
  BY DEF ClocksBehind, TypeOK, Roller
<1> QED
  BY <1>2, <1>3 DEF InsideWindow

LEMMA FinishPassIInv == ASSUME IInv, NEW w \in Worker, FinishPass(w) PROVE IInv'
<1> USE ConstantsAssumption DEF ConstantsAssumption, IInv, FinishPass
<1>1. TypeOK'
  BY DEF TypeOK, Roller, Table
<1>2. ClocksBehind'
  BY DEF ClocksBehind, TypeOK, Roller
<1> QED
  BY <1>1, <1>2 DEF InsideWindow

LEMMA OperatorIInv == ASSUME IInv, NEW o \in Operator, Invoke(o) \/ Finish(o) PROVE IInv'
<1> USE ConstantsAssumption DEF ConstantsAssumption, IInv
<1>1. UNCHANGED <<facts, stats, today, age, clock, since, rollup>>
  BY DEF Invoke, Finish
<1>2. /\ phase' \in [Roller -> {"idle", "writing", "rolling"}]
      /\ todo' \in [Roller -> SUBSET Repo]
  <2>1. CASE Invoke(o)
    <3>1. PICK R \in {Repo} \cup {{r} : r \in Repo} : todo' = [todo EXCEPT ![o] = R]
      BY <2>1 DEF Invoke
    <3>2. R \in SUBSET Repo
      OBVIOUS
    <3> QED
      BY <2>1, <3>1, <3>2 DEF Invoke, TypeOK
  <2>2. CASE Finish(o)
    BY <2>2 DEF Finish, TypeOK
  <2> QED
    BY <2>1, <2>2
<1>3. TypeOK'
  BY <1>1, <1>2 DEF TypeOK, Table
<1> QED
  BY <1>1, <1>3 DEF ClocksBehind, InsideWindow
-------------------------------------------------------------------------------
(* A step of rollup_repository: the other transactions stay as they are.    *)
LEMMA RollupStep ==
  ASSUME IInv, NEW x \in Roller, NEW t,
         rollup' = [rollup EXCEPT ![x] = t],
         DOMAIN t = {"at", "repo", "from", "rows", "gone"},
         t.at \in {"closed", "read", "written", "cleared"},
         t.at # "closed" => t.repo \in Repo,
         t.from \in Nat,
         Table(t.rows),
         t.gone \subseteq Key \ DOMAIN t.rows,
         \A k \in DOMAIN t.rows \cup t.gone : k.day >= t.from,
         UNCHANGED <<facts, today, age, clock, since>>,
         phase' \in [Roller -> {"idle", "writing", "rolling"}],
         todo' \in [Roller -> SUBSET Repo],
         DOMAIN stats' = Repo, \A r \in Repo : Table(stats'[r])
  PROVE  IInv'
<1>1. /\ DOMAIN rollup' = Roller
      /\ \A y \in Roller : rollup'[y] = IF y = x THEN t ELSE rollup[y]
  BY DEF IInv, TypeOK
<1>2. TypeOK'
  BY <1>1 DEF IInv, TypeOK, Table
<1>3. ClocksBehind'
  BY DEF IInv, ClocksBehind
<1>4. InsideWindow'
  BY <1>1 DEF IInv, InsideWindow
<1> QED
  BY <1>2, <1>3, <1>4 DEF IInv

LEMMA ReadIInv == ASSUME IInv, NEW x \in Roller, Read(x) PROVE IInv'
<1>1. PICK r \in todo[x], d \in Days(x) :
        /\ rollup' = [rollup EXCEPT ![x] =
             [at |-> "read", repo |-> r, from |-> Since(d),
              rows |-> Aggregate(r, Since(d)), gone |-> {}]]
        /\ todo' = [todo EXCEPT ![x] = @ \ {r}]
  BY DEF Read
<1> DEFINE t == [at |-> "read", repo |-> r, from |-> Since(d),
                 rows |-> Aggregate(r, Since(d)), gone |-> {}]
<1>2. Since(d) \in Nat
  <2>1. d \in Nat
    BY ConstantsAssumption DEF ConstantsAssumption, Days
  <2>2. today \in Nat
    BY ConstantsAssumption DEF ConstantsAssumption, IInv, TypeOK
  <2> QED
    BY <2>1, <2>2, SinceIsNat
<1>3. /\ Table(Aggregate(r, Since(d)))
      /\ \A k \in DOMAIN Aggregate(r, Since(d)) : k.day >= Since(d)
  BY <1>2, AggregateIsTyped DEF IInv
<1>4. r \in Repo /\ todo' \in [Roller -> SUBSET Repo]
  BY <1>1 DEF IInv, TypeOK
<1>5. UNCHANGED <<facts, stats, today, age, phase, clock, since>>
  BY DEF Read
<1>6. /\ phase' \in [Roller -> {"idle", "writing", "rolling"}]
      /\ DOMAIN stats' = Repo /\ \A i \in Repo : Table(stats'[i])
  BY <1>5 DEF IInv, TypeOK
<1>7. /\ rollup' = [rollup EXCEPT ![x] = t]
      /\ DOMAIN t = {"at", "repo", "from", "rows", "gone"}
      /\ t.at = "read" /\ t.repo = r /\ t.from = Since(d)
      /\ t.rows = Aggregate(r, Since(d)) /\ t.gone = {}
  BY <1>1
<1> HIDE DEF t
<1>8. /\ t.at \in {"closed", "read", "written", "cleared"} /\ t.repo \in Repo
      /\ t.from \in Nat /\ Table(t.rows) /\ t.gone \subseteq Key \ DOMAIN t.rows
      /\ \A k \in DOMAIN t.rows \cup t.gone : k.day >= t.from
  BY <1>2, <1>3, <1>4, <1>7
<1> QED
  BY <1>4, <1>5, <1>6, <1>7, <1>8, RollupStep

LEMMA UpsertIInv == ASSUME IInv, NEW x \in Roller, Upsert(x) PROVE IInv'
<1> DEFINE t == [rollup[x] EXCEPT !.at = "written"]
<1>1. /\ rollup' = [rollup EXCEPT ![x] = t] /\ rollup[x].at = "read"
      /\ UNCHANGED <<facts, stats, today, age, phase, clock, since, todo>>
  BY DEF Upsert
<1>2. /\ DOMAIN t = {"at", "repo", "from", "rows", "gone"} /\ t.at = "written"
      /\ t.repo = rollup[x].repo /\ t.from = rollup[x].from
      /\ t.rows = rollup[x].rows /\ t.gone = rollup[x].gone
  BY DEF IInv, InsideWindow
<1> HIDE DEF t
<1>3. /\ t.at \in {"closed", "read", "written", "cleared"} /\ t.repo \in Repo
      /\ t.from \in Nat /\ Table(t.rows) /\ t.gone \subseteq Key \ DOMAIN t.rows
      /\ \A k \in DOMAIN t.rows \cup t.gone : k.day >= t.from
  BY <1>1, <1>2 DEF IInv, TypeOK, InsideWindow
<1>4. /\ phase' \in [Roller -> {"idle", "writing", "rolling"}]
      /\ todo' \in [Roller -> SUBSET Repo]
      /\ DOMAIN stats' = Repo /\ \A i \in Repo : Table(stats'[i])
  BY <1>1 DEF IInv, TypeOK
<1> QED
  BY <1>1, <1>2, <1>3, <1>4, RollupStep

LEMMA DeleteIInv == ASSUME IInv, NEW x \in Roller, Delete(x) PROVE IInv'
<1> DEFINE t == [rollup[x] EXCEPT !.at = "cleared", !.gone = Stale(x)]
<1>1. /\ rollup' = [rollup EXCEPT ![x] = t] /\ rollup[x].at = "written"
      /\ UNCHANGED <<facts, stats, today, age, phase, clock, since, todo>>
  BY DEF Delete
<1>2. /\ DOMAIN t = {"at", "repo", "from", "rows", "gone"} /\ t.at = "cleared"
      /\ t.repo = rollup[x].repo /\ t.from = rollup[x].from
      /\ t.rows = rollup[x].rows /\ t.gone = Stale(x)
  BY DEF IInv, InsideWindow
<1> HIDE DEF t
<1>3. rollup[x].repo \in Repo
  BY <1>1 DEF IInv, TypeOK
<1>4. DOMAIN stats[rollup[x].repo] \subseteq Key
  BY <1>3 DEF IInv, TypeOK, Table
<1>5. /\ Stale(x) \subseteq Key \ DOMAIN rollup[x].rows
      /\ \A k \in Stale(x) : k.day >= rollup[x].from
  BY <1>4 DEF Stale
<1>6. /\ t.at \in {"closed", "read", "written", "cleared"} /\ t.repo \in Repo
      /\ t.from \in Nat /\ Table(t.rows) /\ t.gone \subseteq Key \ DOMAIN t.rows
      /\ \A k \in DOMAIN t.rows \cup t.gone : k.day >= t.from
  BY <1>2, <1>3, <1>5 DEF IInv, TypeOK, InsideWindow
<1>7. /\ phase' \in [Roller -> {"idle", "writing", "rolling"}]
      /\ todo' \in [Roller -> SUBSET Repo]
      /\ DOMAIN stats' = Repo /\ \A i \in Repo : Table(stats'[i])
  BY <1>1 DEF IInv, TypeOK
<1> QED
  BY <1>1, <1>2, <1>6, <1>7, RollupStep

(* What a commit leaves in the table of the repository it was for.         *)
LEMMA CommitMerges ==
  ASSUME IInv, NEW x \in Roller, Commit(x)
  PROVE  /\ rollup[x].at = "cleared" /\ rollup[x].repo \in Repo
         /\ DOMAIN stats' = Repo
         /\ \A r \in Repo \ {rollup[x].repo} : stats'[r] = stats[r]
         /\ LET old == stats[rollup[x].repo]
                new == stats'[rollup[x].repo]
            IN /\ DOMAIN new = (DOMAIN old \ rollup[x].gone) \cup DOMAIN rollup[x].rows
               /\ \A k \in DOMAIN new :
                    new[k] = IF k \in DOMAIN rollup[x].rows THEN rollup[x].rows[k] ELSE old[k]
<1> DEFINE t == rollup[x]
           old == stats[t.repo]
           merged == [k \in (DOMAIN old \ t.gone) \cup DOMAIN t.rows |->
                        IF k \in DOMAIN t.rows THEN t.rows[k] ELSE old[k]]
<1>1. t.at = "cleared" /\ stats' = [stats EXCEPT ![t.repo] = merged]
  BY DEF Commit
<1>2. t.repo \in Repo /\ DOMAIN stats = Repo
  BY <1>1 DEF IInv, TypeOK
<1>3. stats'[t.repo] = merged
  BY <1>1, <1>2
<1> QED
  BY <1>1, <1>2, <1>3

LEMMA CommitIInv == ASSUME IInv, NEW x \in Roller, Commit(x) PROVE IInv'
<1>1. /\ rollup' = [rollup EXCEPT ![x] = Closed]
      /\ UNCHANGED <<facts, today, age, phase, clock, since, todo>>
  BY DEF Commit
<1>2. DOMAIN stats' = Repo /\ \A r \in Repo : Table(stats'[r])
  <2>1. Table(rollup[x].rows) /\ \A r \in Repo : Table(stats[r])
    BY DEF IInv, TypeOK
  <2>2. Table(stats'[rollup[x].repo])
    BY <2>1, CommitMerges DEF Table
  <2> QED
    BY <2>1, <2>2, CommitMerges
<1> QED
  BY <1>1, <1>2, ClosedIsTyped, RollupStep DEF IInv, TypeOK

LEMMA FailIInv == ASSUME IInv, NEW x \in Roller, Fail(x) PROVE IInv'
<1> USE DEF IInv
<1>1. /\ rollup' = [rollup EXCEPT ![x] = Closed]
      /\ phase' = [phase EXCEPT ![x] = "idle"]
      /\ clock' = [clock EXCEPT ![x] = 0]
      /\ todo' = [todo EXCEPT ![x] = {}]
      /\ UNCHANGED <<facts, stats, today, age, since>>
  BY DEF Fail
<1>2. /\ DOMAIN rollup' = Roller
      /\ \A y \in Roller : rollup'[y] = IF y = x THEN Closed ELSE rollup[y]
  BY <1>1 DEF TypeOK
<1>3. TypeOK'
  BY <1>1, <1>2, ClosedIsTyped, ConstantsAssumption DEF TypeOK, Table, ConstantsAssumption
<1>4. ClocksBehind'
  BY <1>1 DEF ClocksBehind, TypeOK, Roller
<1>5. InsideWindow'
  BY <1>1, <1>2, ClosedIsTyped DEF InsideWindow
<1> QED
  BY <1>3, <1>4, <1>5

LEMMA TickIInv == ASSUME IInv, Tick PROVE IInv'
<1> USE ConstantsAssumption DEF ConstantsAssumption, IInv, Tick
<1>1. age' \in [Repo -> 0 .. Slack + 1]
  BY DEF TypeOK
<1>2. since' \in [Worker -> 0 .. Delay]
  BY DEF TypeOK
<1>3. ClocksBehind'
  <2>1. \A w \in Worker : clock[w] \in Nat /\ since[w] \in Nat
    BY DEF TypeOK, Roller
  <2> QED
    BY <2>1 DEF ClocksBehind, Roller
<1>4. clock' \in [Roller -> 0 .. Delay]
  <2> SUFFICES ASSUME NEW x \in Roller PROVE clock'[x] \in 0 .. Delay
    OBVIOUS
  <2>1. clock[x] \in 0 .. Delay
    BY DEF TypeOK
  <2>2. CASE x \in Worker
    <3>1. clock[x] <= since[x] /\ since[x] < Delay /\ since[x] \in Nat
      BY <2>2 DEF ClocksBehind, TypeOK
    <3> QED
      BY <2>1, <3>1
  <2>3. CASE x \notin Worker
    BY <2>1, <2>3
  <2> QED
    BY <2>2, <2>3
<1>5. UNCHANGED <<facts, stats, today, phase, todo, rollup>>
  OBVIOUS
<1> QED
  BY <1>1, <1>2, <1>3, <1>4, <1>5 DEF TypeOK, Table, InsideWindow

LEMMA MidnightIInv == ASSUME IInv, Midnight PROVE IInv'
<1>1. today' \in 0 .. LastDay /\ UNCHANGED <<facts, stats, age, phase, clock, since, todo, rollup>>
  BY ConstantsAssumption DEF ConstantsAssumption, IInv, TypeOK, Midnight
<1> QED
  BY <1>1 DEF IInv, TypeOK, Table, ClocksBehind, InsideWindow

LEMMA NextIInv == IInv /\ [Next]_vars => IInv'
<1> SUFFICES ASSUME IInv, [Next]_vars PROVE IInv'
  OBVIOUS
<1>1. ASSUME NEW w \in Worker,
             BeginWrite(w) \/ CommitWrite(w) \/ StartPass(w) \/ FinishPass(w)
      PROVE IInv'
  BY <1>1, BeginWriteIInv, CommitWriteIInv, StartPassIInv, FinishPassIInv
<1>2. ASSUME NEW o \in Operator, Invoke(o) \/ Finish(o) PROVE IInv'
  BY <1>2, OperatorIInv
<1>3. ASSUME NEW x \in Roller, Read(x) \/ Upsert(x) \/ Delete(x) \/ Commit(x) \/ Fail(x)
      PROVE IInv'
  BY <1>3, ReadIInv, UpsertIInv, DeleteIInv, CommitIInv, FailIInv
<1>4. CASE Tick \/ Midnight
  BY <1>4, TickIInv, MidnightIInv
<1>5. CASE UNCHANGED vars
  BY <1>5 DEF vars, IInv, TypeOK, Table, ClocksBehind, InsideWindow
<1> QED
  BY <1>1, <1>2, <1>3, <1>4, <1>5 DEF Next

(* The tables, clocks and open transactions are well formed, and no rollup *)
(* deletes a row it wrote.                                                 *)
THEOREM TypeCorrectness == Spec => []TypeOK
<1>1. IInv => TypeOK
  BY DEF IInv
<1> QED
  BY <1>1, InitIInv, NextIInv, PTL DEF Spec
-------------------------------------------------------------------------------
(* A row of a day before the window of every open rollup survives a commit. *)
LEMMA CommitSparesOldDays ==
  ASSUME IInv, NEW x \in Roller, Commit(x), NEW r \in Repo,
         NEW k \in DOMAIN stats[r], Before(k, r)
  PROVE  k \in DOMAIN stats'[r] /\ stats'[r][k] = stats[r][k]
<1>1. CASE r # rollup[x].repo
  BY <1>1, CommitMerges
<1>2. CASE r = rollup[x].repo
  <2>1. k.day \in Nat /\ rollup[x].from \in Nat
    BY ConstantsAssumption
    DEF ConstantsAssumption, IInv, TypeOK, Table, Key, InsideWindow
  <2>2. k.day < rollup[x].from
    BY <1>2, CommitMerges DEF Before
  <2>3. k \notin DOMAIN rollup[x].rows \cup rollup[x].gone
    BY <2>1, <2>2 DEF IInv, InsideWindow
  <2> QED
    BY <1>2, <2>3, CommitMerges
<1> QED
  BY <1>1, <1>2

(* Old days are what a rollup of any window, on any day, leaves alone.     *)
THEOREM OldDaysAreKept == Spec => OldDaysStay
<1> DEFINE Stay == \A r \in Repo : \A k \in DOMAIN stats[r] :
                     Before(k, r) => k \in DOMAIN stats'[r] /\ stats'[r][k] = stats[r][k]
<1>1. IInv /\ [Next]_vars => [Stay]_vars
  <2> SUFFICES ASSUME IInv, Next PROVE Stay
    OBVIOUS
  <2>1. CASE \E x \in Roller : Commit(x)
    BY <2>1, CommitSparesOldDays
  <2>2. CASE UNCHANGED stats
    BY <2>2
  <2>3. Next => (\E x \in Roller : Commit(x)) \/ UNCHANGED stats
    BY DEF Next, BeginWrite, CommitWrite, StartPass, FinishPass, Invoke, Finish, Read,
           Upsert, Delete, Fail, Tick, Midnight
  <2> QED
    BY <2>1, <2>2, <2>3
<1> QED
  BY <1>1, InitIInv, NextIInv, PTL DEF Spec, OldDaysStay

(* Rows for sets that have nothing in common: A[k] is what row k counts.   *)
Apart(A, K) ==
  /\ \A k \in K : IsFiniteSet(A[k])
  /\ \A k, l \in K : k # l => A[k] \cap A[l] = {}

Counted(A, s) == UNION {A[k] : k \in s}

LEMMA CountedOneMore ==
  ASSUME NEW K, IsFiniteSet(K), NEW A, Apart(A, K), NEW s \in SUBSET K, NEW x \in s
  PROVE  /\ IsFiniteSet(Counted(A, s))
         /\ Cardinality(Counted(A, s))
              = Cardinality(A[x]) + Cardinality(Counted(A, s \ {x}))
<1>1. \A v \in SUBSET K : IsFiniteSet(Counted(A, v))
  <2> SUFFICES ASSUME NEW v \in SUBSET K PROVE IsFiniteSet(Counted(A, v))
    OBVIOUS
  <2>1. IsFiniteSet(v)
    BY FS_Subset
  <2> DEFINE parts == {A[k] : k \in v}
  <2>2. IsFiniteSet(parts)
    <3> DEFINE f == [k \in v |-> A[k]]
    <3>1. f \in Surjection(v, parts)
      BY DEF Surjection
    <3> QED
      BY <2>1, <3>1, FS_Surjection
  <2>3. \A p \in parts : IsFiniteSet(p)
    BY DEF Apart
  <2>4. IsFiniteSet(UNION parts)
    BY <2>2, <2>3, FS_UNION
  <2> QED
    BY <2>4 DEF Counted
<1>2. Counted(A, s) = A[x] \cup Counted(A, s \ {x})
  BY DEF Counted
<1>3. A[x] \cap Counted(A, s \ {x}) = {}
  BY DEF Counted, Apart
<1>4. IsFiniteSet(A[x]) /\ IsFiniteSet(Counted(A, s \ {x})) /\ IsFiniteSet(Counted(A, s))
  BY <1>1 DEF Apart
<1> DEFINE rest == Counted(A, s \ {x})
<1> HIDE DEF rest
<1>5. Cardinality(A[x] \cup rest)
        = Cardinality(A[x]) + Cardinality(rest) - Cardinality(A[x] \cap rest)
  BY <1>4, FS_Union DEF rest
<1>6. Cardinality(A[x] \cap rest) = 0
  BY <1>3, FS_EmptySet DEF rest
<1>7. Cardinality(A[x]) \in Nat /\ Cardinality(rest) \in Nat
  BY <1>4, FS_CardinalityType DEF rest
<1> QED
  BY <1>2, <1>4, <1>5, <1>6, <1>7 DEF rest

(* h[s] is the sum of a column over the rows s of t, taken off one by one. *)
SumsUp(h, t, column, K) ==
  h = [s \in SUBSET K |->
         IF s = {} THEN 0
         ELSE t[CHOOSE x \in s : TRUE][column] + h[s \ {CHOOSE x \in s : TRUE}]]

LEMMA FoldStep ==
  ASSUME NEW K, NEW t, NEW column, NEW h, SumsUp(h, t, column, K), NEW s \in SUBSET K
  PROVE  /\ s = {} => h[s] = 0
         /\ s # {} => \E x \in s : h[s] = t[x][column] + h[s \ {x}]
<1>1. h[s] = IF s = {} THEN 0
             ELSE t[CHOOSE x \in s : TRUE][column] + h[s \ {CHOOSE x \in s : TRUE}]
  BY Zenon DEF SumsUp
<1>2. s # {} => (CHOOSE x \in s : TRUE) \in s
  OBVIOUS
<1> QED
  BY <1>1, <1>2

LEMMA FoldIsTheCount ==
  ASSUME NEW K, IsFiniteSet(K), NEW A, Apart(A, K), NEW t, NEW column,
         \A k \in K : t[k][column] = Cardinality(A[k]),
         NEW g, g = [s \in SUBSET K |-> Cardinality(Counted(A, s))]
  PROVE  SumsUp(g, t, column, K) /\ \A h : SumsUp(h, t, column, K) => h = g
<1>1. \A s \in SUBSET K : s = {} => g[s] = 0
  BY FS_EmptySet DEF Counted
<1>2. \A s \in SUBSET K : \A x \in s : g[s] = t[x][column] + g[s \ {x}]
  <2> TAKE s \in SUBSET K
  <2> TAKE x \in s
  <2>1. Cardinality(Counted(A, s)) = Cardinality(A[x]) + Cardinality(Counted(A, s \ {x}))
    BY CountedOneMore
  <2>2. s \ {x} \in SUBSET K /\ x \in K
    OBVIOUS
  <2> QED
    BY <2>1, <2>2
<1>3. \A s \in SUBSET K :
        g[s] = IF s = {} THEN 0
               ELSE t[CHOOSE x \in s : TRUE][column] + g[s \ {CHOOSE x \in s : TRUE}]
  <2> SUFFICES ASSUME NEW s \in SUBSET K, s # {}
               PROVE g[s] = t[CHOOSE x \in s : TRUE][column] + g[s \ {CHOOSE x \in s : TRUE}]
    BY <1>1
  <2>1. (CHOOSE x \in s : TRUE) \in s
    OBVIOUS
  <2> QED
    BY <2>1, <1>2
<1>4. ASSUME NEW h, SumsUp(h, t, column, K) PROVE h = g
  <2> DEFINE Bad == {s \in SUBSET K : h[s] # g[s]}
             sizes == {Cardinality(s) : s \in Bad}
  <2>1. CASE Bad = {}
    BY <2>1, <1>4 DEF SumsUp
  <2>2. CASE Bad # {}
    <3>0. \A s \in SUBSET K :
            /\ s = {} => h[s] = 0
            /\ s # {} => \E x \in s : h[s] = t[x][column] + h[s \ {x}]
      BY <1>4, FoldStep
    <3>1. \A s \in SUBSET K : IsFiniteSet(s) /\ Cardinality(s) \in Nat
      BY FS_Subset, FS_CardinalityType
    <3>2. sizes \subseteq Nat /\ sizes # {}
      BY <2>2, <3>1
    <3>3. PICK n \in sizes : \A m \in sizes : ~(<<m, n>> \in OpToRel(<, Nat))
      BY <3>2, NatLessThanWellFounded, WFMin
    <3>4. \A m \in sizes : ~(m < n)
      BY <3>2, <3>3 DEF OpToRel
    <3>5. PICK s \in Bad : n = Cardinality(s)
      OBVIOUS
    <3>6. s # {} /\ \E x \in s : h[s] = t[x][column] + h[s \ {x}]
      BY <1>1, <3>0, <3>5
    <3>7. PICK x \in s : h[s] = t[x][column] + h[s \ {x}]
      BY <3>6
    <3>8. s \ {x} \in SUBSET K /\ Cardinality(s \ {x}) = Cardinality(s) - 1
      BY <3>1, FS_RemoveElement
    <3>9. h[s \ {x}] = g[s \ {x}]
      <4>1. Cardinality(s \ {x}) < n
        BY <3>1, <3>5, <3>8
      <4>2. s \ {x} \notin Bad
        BY <3>4, <4>1
      <4> QED
        BY <3>8, <4>2
    <3> QED
      BY <1>2, <3>5, <3>7, <3>9
  <2> QED
    BY <2>1, <2>2
<1> QED
  BY <1>3, <1>4 DEF SumsUp

(* The four columns of the rows K of a table, summed.                      *)
RunsIn(K, t) == SumOf(K, t, LAMBDA c : c.runs)
OpportunitiesIn(K, t) == SumOf(K, t, LAMBDA c : c.opportunities)
FailuresIn(K, t) == SumOf(K, t, LAMBDA c : c.failures)
FlakesIn(K, t) == SumOf(K, t, LAMBDA c : c.flakes)

LEMMA SumIsTheCount ==
  ASSUME NEW K, IsFiniteSet(K), NEW A, Apart(A, K), NEW t
  PROVE  /\ (\A k \in K : t[k].runs = Cardinality(A[k]))
             => RunsIn(K, t) = Cardinality(Counted(A, K))
         /\ (\A k \in K : t[k].opportunities = Cardinality(A[k]))
             => OpportunitiesIn(K, t) = Cardinality(Counted(A, K))
         /\ (\A k \in K : t[k].failures = Cardinality(A[k]))
             => FailuresIn(K, t) = Cardinality(Counted(A, K))
         /\ (\A k \in K : t[k].flakes = Cardinality(A[k]))
             => FlakesIn(K, t) = Cardinality(Counted(A, K))
<1> DEFINE g == [s \in SUBSET K |-> Cardinality(Counted(A, s))]
<1>1. \A column : (\A k \in K : t[k][column] = Cardinality(A[k]))
                    => SumsUp(g, t, column, K) /\ \A h : SumsUp(h, t, column, K) => h = g
  BY FoldIsTheCount
<1>2. g[K] = Cardinality(Counted(A, K))
  OBVIOUS
<1> HIDE DEF g
<1>3. (\A k \in K : t[k].runs = Cardinality(A[k])) => RunsIn(K, t) = g[K]
  <2> HAVE \A k \in K : t[k].runs = Cardinality(A[k])
  <2>1. SumsUp(g, t, "runs", K) /\ \A h : SumsUp(h, t, "runs", K) => h = g
    BY <1>1
  <2> QED
    BY <2>1 DEF RunsIn, SumsUp, SumOf, MapThenSumSet, MapThenFoldSet
<1>4. (\A k \in K : t[k].opportunities = Cardinality(A[k]))
        => OpportunitiesIn(K, t) = g[K]
  <2> HAVE \A k \in K : t[k].opportunities = Cardinality(A[k])
  <2>1. SumsUp(g, t, "opportunities", K) /\ \A h : SumsUp(h, t, "opportunities", K) => h = g
    BY <1>1
  <2> QED
    BY <2>1 DEF OpportunitiesIn, SumsUp, SumOf, MapThenSumSet, MapThenFoldSet
<1>5. (\A k \in K : t[k].failures = Cardinality(A[k]))
        => FailuresIn(K, t) = g[K]
  <2> HAVE \A k \in K : t[k].failures = Cardinality(A[k])
  <2>1. SumsUp(g, t, "failures", K) /\ \A h : SumsUp(h, t, "failures", K) => h = g
    BY <1>1
  <2> QED
    BY <2>1 DEF FailuresIn, SumsUp, SumOf, MapThenSumSet, MapThenFoldSet
<1>6. (\A k \in K : t[k].flakes = Cardinality(A[k]))
        => FlakesIn(K, t) = g[K]
  <2> HAVE \A k \in K : t[k].flakes = Cardinality(A[k])
  <2>1. SumsUp(g, t, "flakes", K) /\ \A h : SumsUp(h, t, "flakes", K) => h = g
    BY <1>1
  <2> QED
    BY <2>1 DEF FlakesIn, SumsUp, SumOf, MapThenSumSet, MapThenFoldSet
<1> QED
  BY <1>2, <1>3, <1>4, <1>5, <1>6

(* The executions a row is about, and a table that says of them what is    *)
(* so, from a day on.                                                      *)
At(r, k) == {j \in JobsOf(r) : Finished(j) /\ KeyOf(j) = k}

Truth(r) == [k \in {k \in Key : At(r, k) # {}} |-> CountOf(At(r, k))]

Agree(t, u, from) ==
  \A k \in Key : k.day >= from => /\ k \in DOMAIN t <=> k \in DOMAIN u
                                  /\ k \in DOMAIN t => t[k] = u[k]

Right(t, r, from) == Agree(t, Truth(r), from)

LEMMA RightSays ==
  ASSUME NEW t, NEW r, NEW from
  PROVE  Right(t, r, from) <=>
           \A k \in Key : k.day >= from => /\ k \in DOMAIN t <=> At(r, k) # {}
                                           /\ k \in DOMAIN t => t[k] = CountOf(At(r, k))
  BY DEF Right, Agree, Truth

LEMMA KeyOfIsKey ==
  ASSUME TypeOK, NEW j \in Job
  PROVE  KeyOf(j) \in Key /\ KeyOf(j).day = j.day /\ j.day \in Nat
<1>1. facts[j].workflow \in {None} \cup {i.workflow : i \in Job}
  BY DEF TypeOK, Fact
<1>2. j.day \in 0 .. LastDay /\ j.day \in Nat
  BY ConstantsAssumption DEF ConstantsAssumption
<1> QED
  BY <1>1, <1>2 DEF KeyOf, Key

LEMMA AggregateIsRight ==
  ASSUME TypeOK, NEW r, NEW from \in Nat
  PROVE  Right(Aggregate(r, from), r, from)
<1> DEFINE counted == {j \in JobsOf(r) : Finished(j) /\ j.day >= from}
<1>1. /\ DOMAIN Aggregate(r, from) = {KeyOf(j) : j \in counted}
      /\ \A k \in DOMAIN Aggregate(r, from) :
           Aggregate(r, from)[k] = CountOf({j \in counted : KeyOf(j) = k})
  BY DEF Aggregate
<1>2. \A k \in Key : k.day >= from => {j \in counted : KeyOf(j) = k} = At(r, k)
  BY KeyOfIsKey DEF At, JobsOf
<1>3. \A k \in Key : k.day >= from => (k \in {KeyOf(j) : j \in counted} <=> At(r, k) # {})
  BY <1>2
<1> HIDE DEF counted
<1> QED
  BY <1>1, <1>2, <1>3, RightSays

LEMMA RightFromLater ==
  ASSUME NEW t, NEW r, NEW from \in Nat, NEW later \in Nat, from <= later, Right(t, r, from)
  PROVE  Right(t, r, later)
<1>1. \A k \in Key : k.day \in Nat
  BY ConstantsAssumption DEF Key, ConstantsAssumption
<1> QED
  BY <1>1 DEF Right, Agree

(* A table that is right makes a board that is right.                      *)
RowsOf(r, b) ==
  {k \in DOMAIN stats[r] : /\ k.workflow = b.workflow /\ k.name = b.name
                           /\ k.day >= Since(BoardDays)}

DoneOf(r, b) ==
  {j \in JobsOf(r) : /\ Finished(j) /\ facts[j].workflow = b.workflow /\ j.name = b.name
                     /\ j.day >= Since(BoardDays)}

LEMMA RowsCoverBoard ==
  ASSUME TypeOK, NEW r \in Repo, Right(stats[r], r, Since(BoardDays)), NEW b
  PROVE  /\ IsFiniteSet(RowsOf(r, b))
         /\ \A k \in RowsOf(r, b) : stats[r][k] = CountOf(At(r, k))
         /\ \A j \in JobsOf(r) :
              j \in DoneOf(r, b) <=> \E k \in RowsOf(r, b) : j \in At(r, k)
<1>1. RowsOf(r, b) \subseteq Key
  BY DEF RowsOf, TypeOK, Table
<1>2. \A k \in RowsOf(r, b) : stats[r][k] = CountOf(At(r, k)) /\ At(r, k) # {}
  BY <1>1, RightSays DEF RowsOf
<1>3. IsFiniteSet(RowsOf(r, b))
  <2> DEFINE told == {KeyOf(j) : j \in Job}
             f == [j \in Job |-> KeyOf(j)]
  <2>1. f \in Surjection(Job, told)
    BY DEF Surjection
  <2>2. IsFiniteSet(told)
    BY <2>1, FS_Surjection, ConstantsAssumption DEF ConstantsAssumption
  <2>3. RowsOf(r, b) \subseteq told
    BY <1>2 DEF At, JobsOf
  <2> HIDE DEF told
  <2> QED
    BY <2>2, <2>3, FS_Subset
<1>4. ASSUME NEW j \in DoneOf(r, b)
      PROVE  KeyOf(j) \in RowsOf(r, b) /\ j \in At(r, KeyOf(j))
  <2>1. j \in JobsOf(r) /\ j \in Job /\ j \in At(r, KeyOf(j))
    BY DEF DoneOf, JobsOf, At
  <2>2. KeyOf(j) \in Key /\ KeyOf(j).day = j.day
    BY <2>1, KeyOfIsKey
  <2>3. KeyOf(j) \in DOMAIN stats[r]
    BY <2>1, <2>2, RightSays DEF DoneOf
  <2> QED
    BY <2>1, <2>2, <2>3 DEF RowsOf, DoneOf, KeyOf
<1>5. ASSUME NEW k \in RowsOf(r, b), NEW j \in At(r, k) PROVE j \in DoneOf(r, b)
  BY DEF RowsOf, DoneOf, At, KeyOf
<1> QED
  BY <1>2, <1>3, <1>4, <1>5

(* The rows of a board count all its executions of a kind, each once.      *)
LEMMA RowsCountOnce ==
  ASSUME TypeOK, NEW r \in Repo, Right(stats[r], r, Since(BoardDays)), NEW b, NEW G
  PROVE  LET A == [k \in RowsOf(r, b) |-> At(r, k) \cap G]
         IN  Apart(A, RowsOf(r, b)) /\ Counted(A, RowsOf(r, b)) = DoneOf(r, b) \cap G
<1> DEFINE A == [k \in RowsOf(r, b) |-> At(r, k) \cap G]
<1>1. \A k \in RowsOf(r, b) : A[k] = At(r, k) \cap G
  OBVIOUS
<1>2. \A k \in RowsOf(r, b) : IsFiniteSet(A[k])
  <2> SUFFICES ASSUME NEW k \in RowsOf(r, b) PROVE IsFiniteSet(A[k])
    OBVIOUS
  <2>1. At(r, k) \cap G \subseteq Job
    BY DEF At, JobsOf
  <2> QED
    BY <2>1, <1>1, FS_Subset, ConstantsAssumption DEF ConstantsAssumption
<1> HIDE DEF A
<1>3. Apart(A, RowsOf(r, b))
  BY <1>1, <1>2 DEF Apart, At
<1>4. Counted(A, RowsOf(r, b)) = UNION {At(r, k) \cap G : k \in RowsOf(r, b)}
  BY <1>1 DEF Counted
<1>5. DoneOf(r, b) \subseteq JobsOf(r) /\ \A k \in RowsOf(r, b) : At(r, k) \subseteq JobsOf(r)
  BY DEF DoneOf, At
<1>6. Counted(A, RowsOf(r, b)) = DoneOf(r, b) \cap G
  BY <1>4, <1>5, RowsCoverBoard
<1> QED
  BY <1>3, <1>6 DEF A

LEMMA BoardIsRight ==
  ASSUME TypeOK, NEW r \in Repo, Right(stats[r], r, Since(BoardDays))
  PROVE  Board(r) = BoardFromFacts(r) /\ Minutes(r) = MinutesFromFacts(r)
<1> DEFINE E == {j \in Job : Eligible(j)}
           Bad == {j \in E : j.verdict = "failure"}
           Flaky == {j \in E : facts[j].flaky}
<1>1. \A b : /\ RunsIn(RowsOf(r, b), stats[r])
                  = Cardinality(DoneOf(r, b) \cap Job)
             /\ OpportunitiesIn(RowsOf(r, b), stats[r])
                  = Cardinality(DoneOf(r, b) \cap E)
             /\ FailuresIn(RowsOf(r, b), stats[r])
                  = Cardinality(DoneOf(r, b) \cap Bad)
             /\ FlakesIn(RowsOf(r, b), stats[r])
                  = Cardinality(DoneOf(r, b) \cap Flaky)
  <2> TAKE b
  <2> DEFINE K == RowsOf(r, b)
             Of(G) == [k \in K |-> At(r, k) \cap G]
  <2>1. /\ \A k \in K : stats[r][k] = CountOf(At(r, k))
        /\ IsFiniteSet(K)
    BY RowsCoverBoard
  <2>2. \A k \in K : /\ At(r, k) = Of(Job)[k]
                     /\ {j \in At(r, k) : Eligible(j)} = Of(E)[k]
                     /\ {j \in At(r, k) : Eligible(j) /\ j.verdict = "failure"} = Of(Bad)[k]
                     /\ {j \in At(r, k) : Eligible(j) /\ facts[j].flaky} = Of(Flaky)[k]
    BY DEF At, JobsOf
  <2>3. \A k \in K : /\ stats[r][k].runs = Cardinality(Of(Job)[k])
                     /\ stats[r][k].opportunities = Cardinality(Of(E)[k])
                     /\ stats[r][k].failures = Cardinality(Of(Bad)[k])
                     /\ stats[r][k].flakes = Cardinality(Of(Flaky)[k])
    <3> TAKE k \in K
    <3>1. stats[r][k] = CountOf(At(r, k))
      BY <2>1
    <3>2. /\ CountOf(At(r, k)).runs = Cardinality(At(r, k))
          /\ CountOf(At(r, k)).opportunities
               = Cardinality({j \in At(r, k) : Eligible(j)})
          /\ CountOf(At(r, k)).failures
               = Cardinality({j \in At(r, k) : Eligible(j) /\ j.verdict = "failure"})
          /\ CountOf(At(r, k)).flakes
               = Cardinality({j \in At(r, k) : Eligible(j) /\ facts[j].flaky})
      BY DEF CountOf
    <3> HIDE DEF Of, E, Bad, Flaky
    <3> QED
      BY <3>1, <3>2, <2>2
  <2>4. \A G : Apart(Of(G), K) /\ Counted(Of(G), K) = DoneOf(r, b) \cap G
    BY RowsCountOnce
  <2> HIDE DEF Of, K, E, Bad, Flaky
  <2> PICK t : t = stats[r]
    OBVIOUS
  <2>5. RunsIn(K, stats[r]) = Cardinality(DoneOf(r, b) \cap Job)
    <3>1. PICK A : A = Of(Job)
      OBVIOUS
    <3>2. /\ Apart(A, K) /\ Counted(A, K) = DoneOf(r, b) \cap Job
          /\ IsFiniteSet(K) /\ \A k \in K : t[k].runs = Cardinality(A[k])
      BY <2>1, <2>3, <2>4, <3>1
    <3>3. RunsIn(K, t) = Cardinality(Counted(A, K))
      BY <3>2, SumIsTheCount
    <3> QED
      BY <3>2, <3>3
  <2>6. OpportunitiesIn(K, stats[r]) = Cardinality(DoneOf(r, b) \cap E)
    <3>1. PICK A : A = Of(E)
      OBVIOUS
    <3>2. /\ Apart(A, K) /\ Counted(A, K) = DoneOf(r, b) \cap E
          /\ IsFiniteSet(K) /\ \A k \in K : t[k].opportunities = Cardinality(A[k])
      BY <2>1, <2>3, <2>4, <3>1
    <3>3. OpportunitiesIn(K, t) = Cardinality(Counted(A, K))
      BY <3>2, SumIsTheCount
    <3> QED
      BY <3>2, <3>3
  <2>7. FailuresIn(K, stats[r]) = Cardinality(DoneOf(r, b) \cap Bad)
    <3>1. PICK A : A = Of(Bad)
      OBVIOUS
    <3>2. /\ Apart(A, K) /\ Counted(A, K) = DoneOf(r, b) \cap Bad
          /\ IsFiniteSet(K) /\ \A k \in K : t[k].failures = Cardinality(A[k])
      BY <2>1, <2>3, <2>4, <3>1
    <3>3. FailuresIn(K, t) = Cardinality(Counted(A, K))
      BY <3>2, SumIsTheCount
    <3> QED
      BY <3>2, <3>3
  <2>8. FlakesIn(K, stats[r]) = Cardinality(DoneOf(r, b) \cap Flaky)
    <3>1. PICK A : A = Of(Flaky)
      OBVIOUS
    <3>2. /\ Apart(A, K) /\ Counted(A, K) = DoneOf(r, b) \cap Flaky
          /\ IsFiniteSet(K) /\ \A k \in K : t[k].flakes = Cardinality(A[k])
      BY <2>1, <2>3, <2>4, <3>1
    <3>3. FlakesIn(K, t) = Cardinality(Counted(A, K))
      BY <3>2, SumIsTheCount
    <3> QED
      BY <3>2, <3>3
  <2> QED
    BY <2>5, <2>6, <2>7, <2>8 DEF K
<1> DEFINE J(b) == {j \in JobsOf(r) : /\ Finished(j) /\ Eligible(j)
                                      /\ facts[j].workflow = b.workflow /\ j.name = b.name
                                      /\ j.day >= Since(BoardDays)}
<1>2. \A b : /\ DoneOf(r, b) \cap Job
                  = {j \in JobsOf(r) : /\ Finished(j) /\ facts[j].workflow = b.workflow
                                       /\ j.name = b.name /\ j.day >= Since(BoardDays)}
             /\ DoneOf(r, b) \cap E = J(b)
             /\ DoneOf(r, b) \cap Bad = {j \in J(b) : j.verdict = "failure"}
             /\ DoneOf(r, b) \cap Flaky = {j \in J(b) : facts[j].flaky}
  BY DEF DoneOf, JobsOf
<1>3. Board(r) = [b \in Boards |->
         [opportunities |-> OpportunitiesIn(RowsOf(r, b), stats[r]),
          failures      |-> FailuresIn(RowsOf(r, b), stats[r]),
          flakes        |-> FlakesIn(RowsOf(r, b), stats[r])]]
  BY DEF Board, RowsOf, OpportunitiesIn, FailuresIn, FlakesIn
<1>4. BoardFromFacts(r) = [b \in Boards |->
         [opportunities |-> Cardinality(J(b)),
          failures      |-> Cardinality({j \in J(b) : j.verdict = "failure"}),
          flakes        |-> Cardinality({j \in J(b) : facts[j].flaky})]]
  BY DEF BoardFromFacts
<1>5. Minutes(r) = [b \in Boards |-> RunsIn(RowsOf(r, b), stats[r])]
  BY DEF Minutes, RowsOf, RunsIn
<1> HIDE DEF J, E, Bad, Flaky
<1>6. Board(r) = BoardFromFacts(r)
  BY <1>1, <1>2, <1>3, <1>4
<1>7. Minutes(r) = MinutesFromFacts(r)
  BY <1>1, <1>2, <1>5 DEF MinutesFromFacts
<1> QED
  BY <1>6, <1>7

(* Nothing runs beside a worker that is alone.  Elsewhere a rollup may have *)
(* read what a transaction, begun up to Delay ago, then changed.           *)
Alone == Operator = {} /\ \E w : Worker = {w}

Lag == IF Alone THEN 0 ELSE Delay

(* The sweep looks back far enough for passes that are Delay apart.        *)
SweptInTime == Worker # {} /\ Delay + Lag <= Slack

(* No transaction that is still open shows its time in r's last write.     *)
Past(r) == Alone \/ age[r] > Delay

(* The table of a repository says what its facts say.                      *)
Correct(r) == Right(stats[r], r, Since(RollupDays))

(* What a rollup has read is still so, if the last write is long past.     *)
ReadsHold ==
  \A x \in Roller :
    rollup[x].at # "closed" /\ Past(rollup[x].repo) =>
      Right(rollup[x].rows, rollup[x].repo, rollup[x].from)

(* And it misses no row that another may have written since it deleted.    *)
NoneLeftOver ==
  \A x \in Roller :
    rollup[x].at = "cleared" /\ Past(rollup[x].repo) =>
      \A k \in DOMAIN stats[rollup[x].repo] :
        k.day >= rollup[x].from => k \in DOMAIN rollup[x].rows \cup rollup[x].gone

WholeWindow ==
  \A w \in Worker : rollup[w].at # "closed" => rollup[w].from <= Since(RollupDays)

ClosedOutside == \A x \in Roller : phase[x] # "rolling" => rollup[x].at = "closed"

(* A write that a pass found past its transaction is rolled up by it.      *)
InPass ==
  \A w \in Worker, r \in Repo :
    phase[w] = "rolling" /\ age[r] <= Slack /\ (Alone \/ age[r] > clock[w] + Delay) =>
      r \in todo[w] \/ (rollup[w].at # "closed" /\ rollup[w].repo = r) \/ Correct(r)

AfterPass ==
  \A w \in Worker, r \in Repo :
    age[r] <= Slack /\ age[r] > since[w] + Lag => Correct(r)

Settled == \A r \in Repo : age[r] > Slack => Correct(r)

CInv == /\ IInv
        /\ ReadsHold /\ NoneLeftOver /\ WholeWindow /\ ClosedOutside
        /\ InPass /\ AfterPass /\ Settled
-------------------------------------------------------------------------------
LEMMA Bounds ==
  ASSUME IInv
  PROVE  /\ RollupDays \in Nat /\ BoardDays \in Nat /\ Slack \in Nat /\ Delay \in Nat
         /\ today \in Nat /\ Since(RollupDays) \in Nat
         /\ \A r \in Repo : age[r] \in Nat /\ age[r] <= Slack + 1
         /\ \A w \in Worker : /\ clock[w] \in Nat /\ since[w] \in Nat
                              /\ clock[w] <= Delay /\ since[w] <= Delay
         /\ \A x \in Roller : rollup[x].from \in Nat
         /\ \A k \in Key : k.day \in Nat
<1>1. /\ RollupDays \in Nat /\ BoardDays \in Nat /\ Slack \in Nat /\ Delay \in Nat
      /\ LastDay \in Nat
  BY ConstantsAssumption DEF ConstantsAssumption
<1>2. today \in Nat
  BY <1>1 DEF IInv, TypeOK
<1>3. \A k \in Key : k.day \in Nat
  BY <1>1 DEF Key
<1>4. \A w \in Worker : /\ clock[w] \in Nat /\ since[w] \in Nat
                        /\ clock[w] <= Delay /\ since[w] <= Delay
  BY <1>1 DEF IInv, TypeOK, Roller
<1>5. \A r \in Repo : age[r] \in Nat /\ age[r] <= Slack + 1
  BY <1>1 DEF IInv, TypeOK
<1> QED
  BY <1>1, <1>2, <1>3, <1>4, <1>5, SinceIsNat DEF IInv, InsideWindow

LEMMA SameTruth ==
  ASSUME NEW r, \A j \in JobsOf(r) : facts'[j] = facts[j]
  PROVE  Truth(r)' = Truth(r)
<1>1. \A k : At(r, k)' = At(r, k)
  BY DEF At, Finished, KeyOf, JobsOf
<1>2. \A k : CountOf(At(r, k))' = CountOf(At(r, k))
  <2> TAKE k
  <2>1. At(r, k)' \subseteq JobsOf(r) /\ At(r, k)' = At(r, k)
    BY <1>1 DEF At
  <2>2. {j \in At(r, k)' : Eligible(j) /\ facts'[j].flaky}
          = {j \in At(r, k) : Eligible(j) /\ facts[j].flaky}
    BY <2>1
  <2> QED
    BY <2>1, <2>2 DEF CountOf
<1> QED
  BY <1>1, <1>2 DEF Truth

LEMMA SameRight ==
  ASSUME UNCHANGED facts, NEW r PROVE Truth(r)' = Truth(r)
  BY SameTruth

LEMMA SameCorrect ==
  ASSUME UNCHANGED <<facts, today>>, NEW r, stats'[r] = stats[r]
  PROVE  Correct(r)' <=> Correct(r)
  BY SameRight DEF Correct, Right, Since

-------------------------------------------------------------------------------
LEMMA InitCInv == Init => CInv
<1> SUFFICES ASSUME Init PROVE CInv
  OBVIOUS
<1>1. IInv
  BY InitIInv
<1>2. \A r \in Repo : Correct(r)
  <2> TAKE r \in Repo
  <2>1. stats[r] = Nothing
    BY DEF Init
  <2>2. \A k : At(r, k) = {}
    BY DEF Init, At, Finished, JobsOf, Absent
  <2> QED
    BY <2>1, <2>2, RightSays DEF Correct, Nothing
<1>3. \A x \in Roller : rollup[x].at = "closed"
  BY ClosedIsTyped DEF Init
<1>4. \A w \in Worker : phase[w] = "idle"
  BY DEF Init, Roller
<1> QED
  BY <1>1, <1>2, <1>3, <1>4
  DEF CInv, ReadsHold, NoneLeftOver, WholeWindow, ClosedOutside, InPass, AfterPass, Settled, Roller

LEMMA BeginWriteCInv == ASSUME CInv, NEW w \in Worker, BeginWrite(w) PROVE CInv'
<1>1. IInv /\ IInv'
  BY BeginWriteIInv DEF CInv
<1>2. /\ UNCHANGED <<facts, stats, today, age, since, todo, rollup>>
      /\ phase' = [phase EXCEPT ![w] = "writing"] /\ clock' = [clock EXCEPT ![w] = 0]
  BY DEF BeginWrite
<1>3. \A r : (Correct(r)' <=> Correct(r)) /\ Truth(r)' = Truth(r)
  BY <1>2, SameCorrect, SameRight
<1>4. Since(RollupDays)' = Since(RollupDays)
  BY <1>2 DEF Since
<1>5. \A v \in Worker : phase'[v] = "rolling" => phase[v] = "rolling" /\ clock'[v] = clock[v]
  BY <1>1, <1>2 DEF IInv, TypeOK, Roller
<1>6. ClosedOutside'
  BY <1>1, <1>2 DEF BeginWrite, CInv, ClosedOutside, IInv, TypeOK
<1> QED
  BY <1>1, <1>2, <1>3, <1>4, <1>5, <1>6
  DEF CInv, ReadsHold, NoneLeftOver, WholeWindow, Past, InPass, AfterPass, Settled, Right

(* A write makes its repository young, and touches no other.               *)
LEMMA WriteIsLocal ==
  ASSUME IInv, NEW w \in Worker, CommitWrite(w)
  PROVE  \E i \in Repo : /\ age'[i] <= clock[w]
                         /\ \A r \in Repo \ {i} : age'[r] = age[r] /\ Truth(r)' = Truth(r)
<1>1. PICK j \in Job :
        /\ \E table \in Payloads(j), J \in SUBSET {k \in JobsOf(j.repo) : Eligible(k)} :
             facts' = Implicated(table, J)
        /\ age' = [age EXCEPT ![j.repo] = IF @ < clock[w] THEN @ ELSE clock[w]]
  BY Zenon DEF CommitWrite
<1>2. PICK table \in Payloads(j), J \in SUBSET {k \in JobsOf(j.repo) : Eligible(k)} :
        facts' = Implicated(table, J)
  BY <1>1
<1>3. j.repo \in Repo
  BY DEF Repo
<1>4. age'[j.repo] <= clock[w]
  <2>1. age \in [Repo -> 0 .. Slack + 1] /\ clock[w] \in Nat /\ clock[w] <= Delay
        /\ age[j.repo] \in Nat
    BY <1>3, Bounds DEF IInv, TypeOK
  <2>2. age'[j.repo] = IF age[j.repo] < clock[w] THEN age[j.repo] ELSE clock[w]
    BY <1>1, <1>3, <2>1
  <2> QED
    BY <2>1, <2>2, Bounds
<1>5. ASSUME NEW i \in Job, i.repo # j.repo PROVE facts'[i] = facts[i]
  <2>1. table[i] = facts[i]
    <3>1. CASE table = Propagated(j)
      BY <1>5, <3>1 DEF Propagated
    <3>2. CASE \E stage \in {"running", "done"}, workflow \in {None, j.workflow} :
                 table = Reported(j, stage, workflow)
      <4>1. i # j /\ facts \in [Job -> Fact]
        BY <1>5 DEF IInv, TypeOK
      <4> QED
        BY <3>2, <4>1 DEF Reported
    <3> QED
      BY <3>1, <3>2 DEF Payloads
  <2>2. i \notin J
    BY <1>5 DEF JobsOf
  <2> QED
    BY <1>2, <2>1, <2>2 DEF Implicated
<1>6. \A r \in Repo \ {j.repo} : age'[r] = age[r] /\ Truth(r)' = Truth(r)
  <2> TAKE r \in Repo \ {j.repo}
  <2>1. age'[r] = age[r]
    BY <1>1 DEF IInv, TypeOK
  <2>2. \A i \in JobsOf(r) : facts'[i] = facts[i]
    BY <1>5 DEF JobsOf
  <2> QED
    BY <2>1, <2>2, SameTruth
<1> QED
  BY <1>3, <1>4, <1>6

LEMMA CommitWriteCInv ==
  ASSUME SweptInTime, CInv, NEW w \in Worker, CommitWrite(w) PROVE CInv'
<1>1. IInv /\ IInv'
  BY CommitWriteIInv DEF CInv
<1>2. /\ UNCHANGED <<stats, today, clock, since, todo, rollup>>
      /\ phase[w] = "writing" /\ phase' = [phase EXCEPT ![w] = "idle"]
  BY DEF CommitWrite
<1>3. PICK i \in Repo : /\ age'[i] <= clock[w]
                        /\ \A r \in Repo \ {i} : age'[r] = age[r] /\ Truth(r)' = Truth(r)
  BY <1>1, WriteIsLocal
<1>4. Since(RollupDays)' = Since(RollupDays)
  BY <1>2 DEF Since
<1>5. \A r \in Repo \ {i} : Correct(r)' <=> Correct(r)
  BY <1>2, <1>3, <1>4 DEF Correct, Right
<1>6. \A v \in Worker : phase'[v] = "rolling" => phase[v] = "rolling" /\ v # w
  BY <1>1, <1>2 DEF IInv, TypeOK, Roller
<1>7. \A x \in Roller : rollup[x].at # "closed" => rollup[x].repo \in Repo
  BY <1>1 DEF IInv, TypeOK
<1>8. /\ age'[i] \in Nat /\ Delay \in Nat /\ Slack \in Nat /\ Delay + Lag <= Slack
      /\ \A v \in Worker : /\ clock[v] \in Nat /\ since[v] \in Nat
                           /\ clock[v] <= Delay
      /\ clock[w] <= since[w]
  <2>1. Delay \in Nat /\ Slack \in Nat
    BY <1>1, Bounds
  <2>2. age' \in [Repo -> 0 .. Slack + 1]
    BY <1>1 DEF IInv, TypeOK
  <2>3. clock[w] <= since[w]
    BY <1>1 DEF IInv, ClocksBehind
  <2> QED
    BY <1>1, <2>1, <2>2, <2>3, Bounds DEF SweptInTime
<1>9. Alone => Worker = {w} /\ Roller = {w} /\ rollup[w].at = "closed"
  <2> HAVE Alone
  <2>1. Worker = {w} /\ Roller = {w}
    BY DEF Alone, Roller
  <2> QED
    BY <1>2, <2>1 DEF CInv, ClosedOutside
<1>10. ~Alone => ~(age'[i] > Delay)
  BY <1>3, <1>8
<1>11. ReadsHold'
  BY <1>2, <1>3, <1>7, <1>9, <1>10 DEF CInv, ReadsHold, Right, Past
<1>12. NoneLeftOver'
  BY <1>2, <1>3, <1>7, <1>9, <1>10 DEF CInv, NoneLeftOver, Past
<1>13. WholeWindow' /\ ClosedOutside'
  <2>1. ClosedOutside'
    BY <1>1, <1>2 DEF CInv, ClosedOutside, IInv, TypeOK
  <2> QED
    BY <1>2, <1>4, <2>1 DEF CInv, WholeWindow
<1>14. InPass'
  BY <1>2, <1>3, <1>5, <1>6, <1>8, <1>9 DEF CInv, InPass
<1>15. AfterPass'
  <2> SUFFICES ASSUME NEW v \in Worker, NEW r \in Repo,
                      age'[r] <= Slack, age'[r] > since'[v] + Lag
               PROVE  Correct(r)'
    BY DEF AfterPass
  <2>1. CASE r # i
    BY <1>2, <1>3, <1>5, <2>1 DEF CInv, AfterPass
  <2>2. CASE r = i
    <3>1. CASE Alone
      BY <1>2, <1>3, <1>8, <1>9, <2>2, <3>1 DEF Lag
    <3>2. CASE ~Alone
      BY <1>2, <1>3, <1>8, <1>10, <2>2, <3>2 DEF Lag
    <3> QED
      BY <3>1, <3>2
  <2> QED
    BY <2>1, <2>2
<1>16. Settled'
  <2>1. Lag \in Nat
    BY <1>8 DEF Lag
  <2>2. age'[i] <= Slack
    BY <1>3, <1>8, <2>1
  <2> QED
    BY <1>3, <1>5, <1>8, <2>2 DEF CInv, Settled
<1> QED
  BY <1>1, <1>11, <1>12, <1>13, <1>14, <1>15, <1>16 DEF CInv

LEMMA StartPassCInv == ASSUME CInv, NEW w \in Worker, StartPass(w) PROVE CInv'
<1>1. IInv /\ IInv'
  BY StartPassIInv DEF CInv
<1>2. /\ UNCHANGED <<facts, stats, today, age, since, rollup>>
      /\ phase' = [phase EXCEPT ![w] = "rolling"] /\ clock' = [clock EXCEPT ![w] = 0]
      /\ todo' = [todo EXCEPT ![w] = {r \in Repo : RecentlyActive(r)}]
  BY DEF StartPass
<1>3. \A r : (Correct(r)' <=> Correct(r)) /\ Truth(r)' = Truth(r)
  BY <1>2, SameCorrect, SameRight
<1>4. Since(RollupDays)' = Since(RollupDays)
  BY <1>2 DEF Since
<1>5. \A v \in Worker \ {w} : /\ phase'[v] = phase[v] /\ clock'[v] = clock[v]
                              /\ todo'[v] = todo[v]
  BY <1>1, <1>2 DEF IInv, TypeOK, Roller
<1>6. \A r \in Repo : age[r] <= Slack => r \in todo'[w]
  BY <1>1, <1>2 DEF IInv, TypeOK, Roller, RecentlyActive
<1>7. InPass'
  BY <1>2, <1>3, <1>5, <1>6 DEF CInv, InPass
<1>8. ClosedOutside'
  BY <1>1, <1>2 DEF StartPass, CInv, ClosedOutside, IInv, TypeOK
<1> QED
  BY <1>1, <1>2, <1>3, <1>4, <1>7, <1>8
  DEF CInv, ReadsHold, NoneLeftOver, WholeWindow, AfterPass, Settled, Right, Past

LEMMA FinishPassCInv == ASSUME CInv, NEW w \in Worker, FinishPass(w) PROVE CInv'
<1>1. IInv /\ IInv'
  BY FinishPassIInv DEF CInv
<1>2. /\ phase[w] = "rolling" /\ todo[w] = {} /\ rollup[w] = Closed
      /\ UNCHANGED <<facts, stats, today, age, todo, rollup>>
      /\ phase' = [phase EXCEPT ![w] = "idle"] /\ clock' = [clock EXCEPT ![w] = 0]
      /\ since' = [since EXCEPT ![w] = clock[w]]
  BY DEF FinishPass
<1>3. \A r : (Correct(r)' <=> Correct(r)) /\ Truth(r)' = Truth(r)
  BY <1>2, SameCorrect, SameRight
<1>4. Since(RollupDays)' = Since(RollupDays)
  BY <1>2 DEF Since
<1>5. \A v \in Worker \ {w} : /\ phase'[v] = phase[v] /\ clock'[v] = clock[v]
                              /\ since'[v] = since[v]
  BY <1>1, <1>2 DEF IInv, TypeOK, Roller
<1>6. phase'[w] = "idle" /\ since'[w] = clock[w] /\ rollup[w].at = "closed"
  BY <1>1, <1>2, ClosedIsTyped DEF IInv, TypeOK, Roller
<1>7. InPass'
  BY <1>2, <1>3, <1>5, <1>6 DEF CInv, InPass
<1>8. AfterPass'
  BY <1>2, <1>3, <1>5, <1>6 DEF CInv, InPass, AfterPass, Lag
<1>9. ClosedOutside'
  BY <1>1, <1>2, <1>6 DEF CInv, ClosedOutside, IInv, TypeOK
<1> QED
  BY <1>1, <1>2, <1>3, <1>4, <1>7, <1>8, <1>9
  DEF CInv, ReadsHold, NoneLeftOver, WholeWindow, Settled, Right, Past

LEMMA OperatorCInv == ASSUME CInv, NEW o \in Operator, Invoke(o) \/ Finish(o) PROVE CInv'
<1>1. IInv /\ IInv'
  BY OperatorIInv DEF CInv
<1>2. UNCHANGED <<facts, stats, today, age, clock, since, rollup>>
  BY DEF Invoke, Finish
<1>3. \A r : (Correct(r)' <=> Correct(r)) /\ Truth(r)' = Truth(r)
  BY <1>2, SameCorrect, SameRight
<1>4. Since(RollupDays)' = Since(RollupDays)
  BY <1>2 DEF Since
<1>5. \A w \in Worker : phase'[w] = phase[w] /\ todo'[w] = todo[w]
  <2>1. \A w \in Worker : w # o
    BY ConstantsAssumption DEF ConstantsAssumption
  <2> QED
    BY <1>1, <2>1 DEF Invoke, Finish, IInv, TypeOK, Roller
<1>6. ClosedOutside'
  BY <1>1, <1>2, ClosedIsTyped DEF Invoke, Finish, CInv, ClosedOutside, IInv, TypeOK
<1> QED
  BY <1>1, <1>2, <1>3, <1>4, <1>5, <1>6
  DEF CInv, ReadsHold, NoneLeftOver, WholeWindow, InPass, AfterPass, Settled, Right, Past

(* One transaction goes on; the tables, the ages and the clocks stay.      *)
LEMMA OpenStep ==
  ASSUME CInv, NEW x \in Roller, NEW t,
         rollup' = [rollup EXCEPT ![x] = t],
         UNCHANGED <<facts, stats, today, age>>,
         t.at # "closed" /\ Past(t.repo) => Right(t.rows, t.repo, t.from),
         t.at = "cleared" /\ Past(t.repo) =>
           \A k \in DOMAIN stats[t.repo] : k.day >= t.from => k \in DOMAIN t.rows \cup t.gone,
         x \in Worker /\ t.at # "closed" => t.from <= Since(RollupDays)
  PROVE  ReadsHold' /\ NoneLeftOver' /\ WholeWindow'
<1>1. \A y \in Roller : rollup'[y] = IF y = x THEN t ELSE rollup[y]
  BY DEF CInv, IInv, TypeOK
<1>2. \A r : Truth(r)' = Truth(r)
  BY SameRight
<1>3. Since(RollupDays)' = Since(RollupDays)
  BY DEF Since
<1>4. ReadsHold'
  BY <1>1, <1>2 DEF CInv, ReadsHold, Right, Past
<1>5. NoneLeftOver'
  BY <1>1 DEF CInv, NoneLeftOver, Past
<1>6. WholeWindow'
  BY <1>1, <1>3 DEF CInv, WholeWindow, Roller
<1> QED
  BY <1>4, <1>5, <1>6

LEMMA ReadCInv == ASSUME CInv, NEW x \in Roller, Read(x) PROVE CInv'
<1>1. IInv /\ IInv'
  BY ReadIInv DEF CInv
<1>2. PICK r \in todo[x], d \in Days(x) :
        /\ rollup' = [rollup EXCEPT ![x] =
             [at |-> "read", repo |-> r, from |-> Since(d),
              rows |-> Aggregate(r, Since(d)), gone |-> {}]]
        /\ todo' = [todo EXCEPT ![x] = @ \ {r}]
  BY DEF Read
<1>3. rollup[x] = Closed /\ UNCHANGED <<facts, stats, today, age, phase, clock, since>>
  BY DEF Read
<1> DEFINE t == [at |-> "read", repo |-> r, from |-> Since(d),
                 rows |-> Aggregate(r, Since(d)), gone |-> {}]
<1>4. /\ rollup' = [rollup EXCEPT ![x] = t]
      /\ t.at = "read" /\ t.repo = r /\ t.from = Since(d)
      /\ t.rows = Aggregate(r, Since(d))
  BY <1>2
<1> HIDE DEF t
<1>5. d \in Nat /\ Since(d) \in Nat
  <2>1. d \in Nat
    BY ConstantsAssumption DEF ConstantsAssumption, Days
  <2> QED
    BY <1>1, <2>1, Bounds, SinceIsNat
<1>6. Right(t.rows, t.repo, t.from)
  BY <1>1, <1>4, <1>5, AggregateIsRight DEF IInv
<1>7. x \in Worker => t.from <= Since(RollupDays)
  BY <1>1, <1>2, <1>4, Bounds DEF Days
<1>8. ReadsHold' /\ NoneLeftOver' /\ WholeWindow'
  BY <1>3, <1>4, <1>6, <1>7, OpenStep
<1>9. \A i : Correct(i)' <=> Correct(i)
  BY <1>3, SameCorrect
<1>10. InPass'
  <2> SUFFICES ASSUME NEW w \in Worker, NEW i \in Repo,
                      phase'[w] = "rolling", age'[i] <= Slack, Alone \/ age'[i] > clock'[w] + Delay
               PROVE  \/ i \in todo'[w]
                      \/ rollup'[w].at # "closed" /\ rollup'[w].repo = i
                      \/ Correct(i)'
    BY DEF InPass
  <2>1. \/ i \in todo[w] \/ (rollup[w].at # "closed" /\ rollup[w].repo = i) \/ Correct(i)
    BY <1>3 DEF CInv, InPass
  <2>2. CASE w # x
    <3>1. rollup'[w] = rollup[w] /\ todo'[w] = todo[w]
      BY <1>1, <1>2, <1>4, <2>2 DEF IInv, TypeOK, Roller
    <3> QED
      BY <1>9, <2>1, <3>1
  <2>3. CASE w = x
    <3>1. rollup'[w] = t /\ todo'[w] = todo[w] \ {r} /\ rollup[w].at = "closed"
      BY <1>1, <1>2, <1>3, <1>4, <2>3, ClosedIsTyped DEF IInv, TypeOK, Roller
    <3> QED
      BY <1>4, <1>9, <2>1, <3>1
  <2> QED
    BY <2>2, <2>3
<1>11. AfterPass' /\ Settled'
  BY <1>3, <1>9 DEF CInv, AfterPass, Settled
<1>12. ClosedOutside'
  BY <1>1, <1>2 DEF Read, CInv, ClosedOutside, IInv, TypeOK
<1> QED
  BY <1>12, <1>1, <1>8, <1>10, <1>11 DEF CInv

(* Upsert and Delete leave the pass where it is.                           *)
LEMMA HeldStep ==
  ASSUME CInv, NEW x \in Roller, NEW t,
         rollup' = [rollup EXCEPT ![x] = t],
         t.at # "closed", t.repo = rollup[x].repo,
         UNCHANGED <<facts, stats, today, age, phase, clock, since, todo>>
  PROVE  InPass' /\ AfterPass' /\ Settled'
<1>1. \A y \in Roller : rollup'[y] = IF y = x THEN t ELSE rollup[y]
  BY DEF CInv, IInv, TypeOK
<1>2. \A i : Correct(i)' <=> Correct(i)
  BY SameCorrect
<1>3. InPass'
  BY <1>1, <1>2 DEF CInv, InPass, Roller
<1> QED
  BY <1>2, <1>3 DEF CInv, AfterPass, Settled

LEMMA UpsertCInv == ASSUME CInv, NEW x \in Roller, Upsert(x) PROVE CInv'
<1> DEFINE t == [rollup[x] EXCEPT !.at = "written"]
<1>1. /\ rollup' = [rollup EXCEPT ![x] = t] /\ rollup[x].at = "read"
      /\ UNCHANGED <<facts, stats, today, age, phase, clock, since, todo>>
  BY DEF Upsert
<1>2. /\ t.at = "written" /\ t.repo = rollup[x].repo /\ t.from = rollup[x].from
      /\ t.rows = rollup[x].rows
  BY DEF CInv, IInv, InsideWindow
<1> HIDE DEF t
<1>3. ReadsHold' /\ NoneLeftOver' /\ WholeWindow'
  BY <1>1, <1>2, OpenStep DEF CInv, ReadsHold, WholeWindow
<1>4. InPass' /\ AfterPass' /\ Settled'
  BY <1>1, <1>2, HeldStep
<1>5. ClosedOutside'
  BY <1>1, <1>2 DEF Upsert, CInv, ClosedOutside, IInv, TypeOK
<1> QED
  BY <1>5, <1>3, <1>4, UpsertIInv DEF CInv

LEMMA DeleteCInv == ASSUME CInv, NEW x \in Roller, Delete(x) PROVE CInv'
<1> DEFINE t == [rollup[x] EXCEPT !.at = "cleared", !.gone = Stale(x)]
<1>1. /\ rollup' = [rollup EXCEPT ![x] = t] /\ rollup[x].at = "written"
      /\ UNCHANGED <<facts, stats, today, age, phase, clock, since, todo>>
  BY DEF Delete
<1>2. /\ t.at = "cleared" /\ t.repo = rollup[x].repo /\ t.from = rollup[x].from
      /\ t.rows = rollup[x].rows /\ t.gone = Stale(x)
  BY DEF CInv, IInv, InsideWindow
<1> HIDE DEF t
<1>3. \A k \in DOMAIN stats[t.repo] : k.day >= t.from => k \in DOMAIN t.rows \cup t.gone
  BY <1>2 DEF Stale
<1>4. ReadsHold' /\ NoneLeftOver' /\ WholeWindow'
  BY <1>1, <1>2, <1>3, OpenStep DEF CInv, ReadsHold, WholeWindow
<1>5. InPass' /\ AfterPass' /\ Settled'
  BY <1>1, <1>2, HeldStep
<1>6. ClosedOutside'
  BY <1>1, <1>2 DEF Delete, CInv, ClosedOutside, IInv, TypeOK
<1> QED
  BY <1>6, <1>4, <1>5, DeleteIInv DEF CInv

LEMMA FailCInv == ASSUME CInv, NEW x \in Roller, Fail(x) PROVE CInv'
<1>1. IInv /\ IInv'
  BY FailIInv DEF CInv
<1>2. /\ rollup' = [rollup EXCEPT ![x] = Closed]
      /\ phase' = [phase EXCEPT ![x] = "idle"]
      /\ clock' = [clock EXCEPT ![x] = 0]
      /\ todo' = [todo EXCEPT ![x] = {}]
      /\ UNCHANGED <<facts, stats, today, age, since>>
  BY DEF Fail
<1>3. ReadsHold' /\ NoneLeftOver' /\ WholeWindow'
  BY <1>2, ClosedIsTyped, OpenStep
<1>4. \A i : Correct(i)' <=> Correct(i)
  BY <1>2, SameCorrect
<1>5. \A w \in Worker : phase'[w] = "rolling" =>
        /\ phase[w] = "rolling" /\ clock'[w] = clock[w] /\ todo'[w] = todo[w]
        /\ rollup'[w] = rollup[w]
  BY <1>1, <1>2 DEF IInv, TypeOK, Roller
<1>6. InPass'
  BY <1>2, <1>4, <1>5 DEF CInv, InPass
<1>7. AfterPass' /\ Settled'
  BY <1>2, <1>4 DEF CInv, AfterPass, Settled
<1>8. ClosedOutside'
  BY <1>1, <1>2, ClosedIsTyped DEF CInv, ClosedOutside, IInv, TypeOK
<1> QED
  BY <1>8, <1>1, <1>3, <1>6, <1>7 DEF CInv
-------------------------------------------------------------------------------
(* The merge of a commit: what it read goes in, what it missed goes out.   *)
LEMMA CommitTells ==
  ASSUME CInv, NEW x \in Roller, Commit(x), NEW r, r = rollup[x].repo, Past(r)
  PROVE  /\ Agree(stats'[r], Truth(r), rollup[x].from)
         /\ Correct(r) => Correct(r)'
<1> PICK old, new, rows, gone, from, truth :
      /\ old = stats[r] /\ new = stats'[r] /\ rows = rollup[x].rows
      /\ gone = rollup[x].gone /\ from = rollup[x].from /\ truth = Truth(r)
  OBVIOUS
<1>1. /\ rollup[x].at = "cleared" /\ r \in Repo
      /\ DOMAIN new = (DOMAIN old \ gone) \cup DOMAIN rows
      /\ \A k \in DOMAIN new : new[k] = IF k \in DOMAIN rows THEN rows[k] ELSE old[k]
  BY CommitMerges DEF CInv
<1>2. UNCHANGED <<facts, today>>
  BY DEF Commit
<1>3. /\ from \in Nat /\ Since(RollupDays) \in Nat
      /\ \A k \in Key : k.day \in Nat
  BY Bounds DEF CInv
<1>4. DOMAIN old \subseteq Key /\ DOMAIN rows \subseteq Key /\ gone \cap DOMAIN rows = {}
  BY <1>1 DEF CInv, IInv, TypeOK, Table
<1>5. \A k \in DOMAIN rows \cup gone : k.day >= from
  BY DEF CInv, IInv, InsideWindow
<1>6. Agree(rows, truth, from)
  BY <1>1 DEF CInv, ReadsHold, Right
<1>7. \A k \in DOMAIN old : k.day >= from => k \in DOMAIN rows \cup gone
  BY <1>1 DEF CInv, NoneLeftOver
<1>8. /\ Agree(new, truth, from)
      /\ \A d \in Nat : Agree(old, truth, d) => Agree(new, truth, d)
  <2>1. \A k \in Key : k.day >= from =>
          /\ k \in DOMAIN new <=> k \in DOMAIN rows
          /\ k \in DOMAIN new => new[k] = rows[k]
    BY <1>1, <1>4, <1>7
  <2>2. \A k \in Key : ~(k.day >= from) =>
          /\ k \in DOMAIN new <=> k \in DOMAIN old
          /\ k \in DOMAIN new => new[k] = old[k]
    BY <1>1, <1>4, <1>5
  <2>3. Agree(new, truth, from)
    BY <2>1, <1>6 DEF Agree
  <2> QED
    BY <2>2, <2>3 DEF Agree
<1>9. Truth(r)' = Truth(r) /\ Since(RollupDays)' = Since(RollupDays)
  BY <1>2, SameRight DEF Since
<1> QED
  BY <1>3, <1>8, <1>9 DEF Correct, Right

LEMMA CommitCInv == ASSUME SweptInTime, CInv, NEW x \in Roller, Commit(x) PROVE CInv'
<1>1. IInv /\ IInv'
  BY CommitIInv DEF CInv
<1>2. /\ rollup' = [rollup EXCEPT ![x] = Closed]
      /\ UNCHANGED <<facts, today, age, phase, clock, since, todo>>
  BY DEF Commit
<1> PICK r : r = rollup[x].repo
  OBVIOUS
<1>3. /\ rollup[x].at = "cleared" /\ r \in Repo
      /\ \A i \in Repo \ {r} : stats'[i] = stats[i]
      /\ DOMAIN stats'[r] = (DOMAIN stats[r] \ rollup[x].gone) \cup DOMAIN rollup[x].rows
  BY <1>1, CommitMerges
<1>4. /\ rollup'[x].at = "closed"
      /\ \A y \in Roller \ {x} : rollup'[y] = rollup[y]
  BY <1>1, <1>2, ClosedIsTyped DEF IInv, TypeOK
<1>5. \A i : Truth(i)' = Truth(i)
  BY <1>2, SameRight
<1>6. Since(RollupDays)' = Since(RollupDays)
  BY <1>2 DEF Since
<1>7. \A i \in Repo : Past(i) => (Correct(i) => Correct(i)')
  <2>1. \A i \in Repo \ {r} : Correct(i)' <=> Correct(i)
    BY <1>2, <1>3, SameCorrect
  <2>2. Past(r) => (Correct(r) => Correct(r)')
    BY CommitTells
  <2> QED
    BY <2>1, <2>2
<1>8. x \in Worker /\ Past(r) => Correct(r)'
  <2> SUFFICES ASSUME x \in Worker, Past(r) PROVE Correct(r)'
    OBVIOUS
  <2>1. Agree(stats'[r], Truth(r), rollup[x].from)
    BY CommitTells
  <2>2. rollup[x].from <= Since(RollupDays)
    BY <1>3 DEF CInv, WholeWindow
  <2>3. rollup[x].from \in Nat /\ Since(RollupDays) \in Nat /\ \A k \in Key : k.day \in Nat
    BY <1>1, Bounds
  <2>4. Agree(stats'[r], Truth(r), Since(RollupDays))
    BY <2>1, <2>2, <2>3 DEF Agree
  <2> QED
    BY <1>5, <1>6, <2>4 DEF Correct, Right
<1>9. ReadsHold'
  BY <1>2, <1>4, <1>5 DEF CInv, ReadsHold, Right, Past
<1>10. WholeWindow'
  BY <1>4, <1>6 DEF CInv, WholeWindow, Roller
<1>11. NoneLeftOver'
  <2> SUFFICES ASSUME NEW y \in Roller, rollup'[y].at = "cleared", NEW i, i = rollup'[y].repo,
                      Past(i)', NEW k \in DOMAIN stats'[i], k.day >= rollup'[y].from
               PROVE  k \in DOMAIN rollup'[y].rows \cup rollup'[y].gone
    BY DEF NoneLeftOver
  <2>1. y # x /\ rollup'[y] = rollup[y]
    BY <1>4
  <2>2. i \in Repo
    BY <1>1, <2>1 DEF IInv, TypeOK
  <2>3. k \in DOMAIN stats[i] => k \in DOMAIN rollup[y].rows \cup rollup[y].gone
    BY <1>2, <2>1 DEF CInv, NoneLeftOver, Past
  <2>4. CASE k \notin DOMAIN stats[i]
    <3>1. i = r /\ k \in DOMAIN rollup[x].rows
      BY <1>3, <2>2, <2>4
    <3>2. k \in Key /\ k.day >= rollup[x].from
      BY <1>1, <3>1 DEF IInv, TypeOK, Table, InsideWindow
    <3>3. /\ Agree(rollup[x].rows, Truth(r), rollup[x].from)
          /\ Agree(rollup[y].rows, Truth(r), rollup[y].from)
      BY <1>2, <1>3, <2>1, <3>1 DEF CInv, ReadsHold, Right, Past
    <3>4. k \in DOMAIN rollup[y].rows
      BY <2>1, <3>1, <3>2, <3>3 DEF Agree
    <3> QED
      BY <2>1, <3>4
  <2> QED
    BY <2>1, <2>3, <2>4
<1>12. /\ Delay \in Nat /\ Slack \in Nat /\ Delay + Lag <= Slack
       /\ \A i \in Repo : age[i] \in Nat
       /\ \A w \in Worker : clock[w] \in Nat /\ since[w] \in Nat
  BY <1>1, Bounds DEF SweptInTime
<1>13. InPass'
  <2> SUFFICES ASSUME NEW w \in Worker, NEW i \in Repo,
                      phase'[w] = "rolling", age'[i] <= Slack, Alone \/ age'[i] > clock'[w] + Delay
               PROVE  \/ i \in todo'[w]
                      \/ rollup'[w].at # "closed" /\ rollup'[w].repo = i
                      \/ Correct(i)'
    BY DEF InPass
  <2>1. \/ i \in todo[w] \/ (rollup[w].at # "closed" /\ rollup[w].repo = i) \/ Correct(i)
    BY <1>2 DEF CInv, InPass
  <2>2. Past(i)
    BY <1>2, <1>12 DEF Past
  <2>3. Correct(i) => Correct(i)'
    BY <1>7, <2>2
  <2>4. CASE w # x
    BY <1>2, <1>4, <2>1, <2>3, <2>4 DEF Roller
  <2>5. CASE w = x
    BY <1>2, <1>8, <2>1, <2>2, <2>3, <2>5
  <2> QED
    BY <2>4, <2>5
<1>14. AfterPass' /\ Settled'
  BY <1>2, <1>7, <1>12 DEF CInv, AfterPass, Settled, Past, Lag
<1>15. ClosedOutside'
  BY <1>1, <1>2, <1>4 DEF CInv, ClosedOutside
<1> QED
  BY <1>15, <1>1, <1>9, <1>10, <1>11, <1>13, <1>14 DEF CInv
-------------------------------------------------------------------------------
LEMMA TickCInv == ASSUME SweptInTime, CInv, Tick PROVE CInv'
<1>1. IInv /\ IInv'
  BY TickIInv DEF CInv
<1>2. /\ UNCHANGED <<facts, stats, today, phase, todo, rollup>>
      /\ \A x \in Roller : rollup[x].at = "closed"
      /\ \A w \in Worker : since[w] < Delay /\ since'[w] = since[w] + 1
      /\ \A r \in Repo : age'[r] = IF age[r] <= Slack THEN age[r] + 1 ELSE age[r]
      /\ \A w \in Worker : phase[w] = "rolling" => clock'[w] = clock[w] + 1
  BY ClosedIsTyped DEF Tick, Roller
<1>3. \A r : Correct(r)' <=> Correct(r)
  BY <1>2, SameCorrect
<1>4. /\ Delay \in Nat /\ Slack \in Nat /\ Delay + Lag <= Slack /\ Lag \in Nat
      /\ \A r \in Repo : age[r] \in Nat
      /\ \A w \in Worker : clock[w] \in Nat /\ since[w] \in Nat
  BY <1>1, Bounds DEF SweptInTime, Lag
<1>5. ReadsHold' /\ NoneLeftOver' /\ WholeWindow' /\ ClosedOutside'
  BY <1>2 DEF ReadsHold, NoneLeftOver, WholeWindow, ClosedOutside, Roller
<1>6. InPass'
  BY <1>2, <1>3, <1>4 DEF CInv, InPass
<1>7. AfterPass'
  BY <1>2, <1>3, <1>4 DEF CInv, AfterPass
<1>8. Settled'
  <2> SUFFICES ASSUME NEW r \in Repo, age'[r] > Slack PROVE Correct(r)'
    BY DEF Settled
  <2>1. CASE age[r] > Slack
    BY <1>3, <2>1 DEF CInv, Settled
  <2>2. CASE age[r] <= Slack
    <3>1. PICK w \in Worker : TRUE
      BY DEF SweptInTime
    <3>2. age[r] = Slack /\ since[w] < Delay
      BY <1>2, <1>4, <2>2
    <3>3. age[r] > since[w] + Lag
      BY <1>4, <3>1, <3>2
    <3> QED
      BY <1>3, <2>2, <3>3 DEF CInv, AfterPass
  <2> QED
    BY <1>4, <2>1, <2>2
<1> QED
  BY <1>1, <1>5, <1>6, <1>7, <1>8 DEF CInv

LEMMA MidnightCInv == ASSUME CInv, Midnight PROVE CInv'
<1>1. IInv /\ IInv'
  BY MidnightIInv DEF CInv
<1>2. today' = today + 1 /\ UNCHANGED <<facts, stats, age, phase, clock, since, todo, rollup>>
  BY DEF Midnight
<1> PICK now, next : now = Since(RollupDays) /\ next = Since(RollupDays)'
  OBVIOUS
<1>3. now \in Nat /\ next \in Nat /\ now <= next
  BY <1>1, <1>2, Bounds DEF Since
<1>4. \A k \in Key : k.day \in Nat
  BY <1>1, Bounds
<1>5. \A r : Truth(r)' = Truth(r) /\ (Correct(r) => Correct(r)')
  <2> TAKE r
  <2>1. Truth(r)' = Truth(r)
    BY <1>2, SameRight
  <2>2. Agree(stats[r], Truth(r), now) => Agree(stats[r], Truth(r), next)
    BY <1>3, <1>4 DEF Agree
  <2> QED
    BY <1>2, <2>1, <2>2 DEF Correct, Right
<1>6. ReadsHold' /\ NoneLeftOver' /\ ClosedOutside'
  BY <1>2, <1>5 DEF CInv, ReadsHold, NoneLeftOver, ClosedOutside, Right, Past
<1>7. WholeWindow'
  BY <1>1, <1>2, <1>3, Bounds DEF CInv, WholeWindow, Roller
<1>8. InPass' /\ AfterPass' /\ Settled'
  BY <1>2, <1>5 DEF CInv, InPass, AfterPass, Settled
<1> QED
  BY <1>1, <1>6, <1>7, <1>8 DEF CInv

LEMMA NextCInv == ASSUME SweptInTime PROVE CInv /\ [Next]_vars => CInv'
<1> SUFFICES ASSUME CInv, [Next]_vars PROVE CInv'
  OBVIOUS
<1>1. ASSUME NEW w \in Worker,
             BeginWrite(w) \/ CommitWrite(w) \/ StartPass(w) \/ FinishPass(w)
      PROVE CInv'
  BY <1>1, BeginWriteCInv, CommitWriteCInv, StartPassCInv, FinishPassCInv
<1>2. ASSUME NEW o \in Operator, Invoke(o) \/ Finish(o) PROVE CInv'
  BY <1>2, OperatorCInv
<1>3. ASSUME NEW x \in Roller, Read(x) \/ Upsert(x) \/ Delete(x) \/ Commit(x) \/ Fail(x)
      PROVE CInv'
  BY <1>3, ReadCInv, UpsertCInv, DeleteCInv, CommitCInv, FailCInv
<1>4. CASE Tick \/ Midnight
  BY <1>4, TickCInv, MidnightCInv
<1>5. CASE UNCHANGED vars
  <2>1. \A r : Truth(r)' = Truth(r) /\ (Correct(r)' <=> Correct(r))
    BY <1>5, SameRight, SameCorrect DEF vars
  <2>2. IInv'
    BY <1>5, NextIInv DEF CInv
  <2>3. Since(RollupDays)' = Since(RollupDays)
    BY <1>5 DEF vars, Since
  <2> QED
    BY <1>5, <2>1, <2>2, <2>3
    DEF vars, CInv, ReadsHold, NoneLeftOver, WholeWindow, ClosedOutside, InPass, AfterPass,
        Settled, Right, Past
<1> QED
  BY <1>1, <1>2, <1>3, <1>4, <1>5 DEF Next

(* Whatever rollups and writes overlap or fail on the way, a repository    *)
(* whose last write the sweep no longer looks back to has a board and      *)
(* minutes that say what its facts say, if the sweep looks back over the   *)
(* time between passes, twice over unless the worker is alone, and the     *)
(* board is no longer than the window rolled up.                           *)
THEOREM StatisticsCatchUp ==
  ASSUME SweptInTime, BoardDays <= RollupDays PROVE Spec => []StatsCatchUp
<1>1. CInv => StatsCatchUp
  <2> SUFFICES ASSUME CInv, NEW r \in Repo, ~RecentlyActive(r)
               PROVE  Board(r) = BoardFromFacts(r) /\ Minutes(r) = MinutesFromFacts(r)
    BY DEF StatsCatchUp
  <2>1. age[r] > Slack
    BY Bounds DEF CInv, RecentlyActive
  <2>2. Right(stats[r], r, Since(RollupDays))
    BY <2>1 DEF CInv, Settled, Correct
  <2> PICK t, window, shown : /\ t = stats[r] /\ window = Since(RollupDays)
                              /\ shown = Since(BoardDays)
    OBVIOUS
  <2>3. window \in Nat /\ shown \in Nat /\ window <= shown
    BY Bounds DEF CInv, Since
  <2>4. Right(t, r, shown)
    BY <2>2, <2>3, RightFromLater
  <2> QED
    BY <2>4, BoardIsRight DEF CInv, IInv
<1>2. CInv /\ [Next]_vars => CInv'
  BY NextCInv
<1> QED
  BY <1>1, <1>2, InitCInv, PTL DEF Spec
===============================================================================
