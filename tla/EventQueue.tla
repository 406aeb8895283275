------------------------------ MODULE EventQueue ------------------------------
(***************************************************************************)
(* The event_queue table and the workers that drain it: backend/app/       *)
(* queue.py and run_once, sweep and run_forever of backend/app/worker.py.  *)
(*                                                                         *)
(* A worker claims a batch and commits the claim, then takes the claimed   *)
(* rows one by one, each handled in a transaction that also marks it done. *)
(* One handler commits its writes itself, before that: discover_band.      *)
(* When something raises, what is not committed yet is rolled back, and a  *)
(* second transaction records what becomes of the row.  Between batches a  *)
(* worker may sweep: it reaps the claims older than the reaper timeout and *)
(* dead-letters spent rows.                                                *)
(*                                                                         *)
(* Each action is one committed transaction or one step of a worker        *)
(* between two of them.  Clock time is abstract: Age(r) makes the claim of *)
(* r older than the timeout, BackoffElapses(r) passes its next_attempt_at. *)
(***************************************************************************)
EXTENDS Naturals, FiniteSets

CONSTANTS Row,          \* rows of event_queue
          Worker,       \* worker processes
          None,         \* no row
          MaxAttempts,  \* event_queue.max_attempts
          BatchSize,    \* worker_batch_size
          Rank,         \* place of a row in ORDER BY priority, created_at
          Committing,   \* rows of discover_band: its handler calls commit itself
          Fault         \* the faults below that may happen

(***************************************************************************)
(* queue.py asks that the reaper timeout exceed the processing time.       *)
(* "handling": a claim may pass the timeout while its row is being handled *)
(*             or its outcome recorded, or its worker stands still;        *)
(* "waiting":  a claim may pass it while its worker is busy with another   *)
(*             row of the same batch;                                      *)
(* "ack":      a COMMIT may take effect although the worker sees it fail.  *)
(***************************************************************************)
ASSUME ConstantsAssumption ==
  /\ IsFiniteSet(Worker)
  /\ None \notin Row
  /\ MaxAttempts \in Nat \ {0}
  /\ BatchSize \in Nat \ {0}
  /\ Rank \in [Row -> Nat]
  /\ Committing \subseteq Row
  /\ Fault \subseteq {"handling", "waiting", "ack"}

VARIABLES status,     \* event_queue.status, "absent" before the insert
          attempts,   \* event_queue.attempts
          lockedAt,   \* event_queue.locked_at: null, fresh, or past the timeout
          backoff,    \* rows whose next_attempt_at lies in the future
          batch,      \* batch[w]: rows w claimed and has not released yet
          snapshot,   \* snapshot[w][r]: ClaimedJob.attempts of r in w's batch
          current,    \* current[w]: the row whose turn it is
          phase,      \* phase[w]: what w is doing with it
          applied,    \* history: how often writes of r's handler were committed
          charged     \* history: claims of r that ended other than by defer

table  == <<status, attempts, lockedAt, backoff>>
worker == <<batch, snapshot, current, phase>>
vars   == <<table, worker, applied, charged>>

Status  == {"absent", "pending", "processing", "done", "failed"}
Settled == {"done", "failed"}
Phase   == {"idle", "handling", "committed", "failing", "deferring"}

Holders(r) == {w \in Worker : r \in batch[w]}

TypeOK ==
  /\ status \in [Row -> Status]
  /\ attempts \in [Row -> 0 .. MaxAttempts]
  /\ lockedAt \in [Row -> {"null", "fresh", "old"}]
  /\ backoff \subseteq Row
  /\ batch \in [Worker -> SUBSET Row]
  /\ snapshot \in [Worker -> [Row -> 0 .. MaxAttempts]]
  /\ current \in [Worker -> Row \cup {None}]
  /\ phase \in [Worker -> Phase]
  /\ applied \in [Row -> Nat]
  /\ charged \in [Row -> Nat]

Init ==
  /\ status = [r \in Row |-> "absent"]
  /\ attempts = [r \in Row |-> 0]
  /\ lockedAt = [r \in Row |-> "null"]
  /\ backoff = {}
  /\ batch = [w \in Worker |-> {}]
  /\ snapshot = [w \in Worker |-> [r \in Row |-> 0]]
  /\ current = [w \in Worker |-> None]
  /\ phase = [w \in Worker |-> "idle"]
  /\ applied = [r \in Row |-> 0]
  /\ charged = [r \in Row |-> 0]
-------------------------------------------------------------------------------
(* A webhook, a handler or an operator's command commits new rows.          *)
Enqueue(S) ==
  /\ S # {}
  /\ \A r \in S : status[r] = "absent"
  /\ status' = [r \in Row |-> IF r \in S THEN "pending" ELSE status[r]]
  /\ UNCHANGED <<attempts, lockedAt, backoff, worker, applied, charged>>

(* Mutant: the ceiling is left to fail_exhausted.                            *)
Claimable_NoCeiling == {r \in Row : status[r] = "pending" /\ r \notin backoff}

Claimable == {r \in Row : /\ status[r] = "pending"
                          /\ attempts[r] < MaxAttempts
                          /\ r \notin backoff}

(* Mutant: LIMIT without ORDER BY.                                          *)
FirstInLine_Unordered(S) ==
  /\ S \subseteq Claimable
  /\ Cardinality(S) <= BatchSize
  /\ S = Claimable \/ Cardinality(S) = BatchSize

(* The first BatchSize claimable rows by Rank, ties broken either way.      *)
FirstInLine(S) ==
  /\ S \subseteq Claimable
  /\ Cardinality(S) <= BatchSize
  /\ S = Claimable \/ Cardinality(S) = BatchSize
  /\ \A r \in S, q \in Claimable \ S : Rank[r] <= Rank[q]

(* claim_batch is one statement; the rows come back in no particular order. *)
Claim(w) ==
  /\ batch[w] = {}
  /\ \E S \in SUBSET Row :
       /\ S # {}
       /\ FirstInLine(S)
       /\ status' = [r \in Row |-> IF r \in S THEN "processing" ELSE status[r]]
       /\ lockedAt' = [r \in Row |-> IF r \in S THEN "fresh" ELSE lockedAt[r]]
       /\ attempts' = [r \in Row |-> IF r \in S THEN attempts[r] + 1
                                               ELSE attempts[r]]
       /\ batch' = [batch EXCEPT ![w] = S]
       /\ snapshot' = [snapshot EXCEPT ![w] =
                         [r \in Row |-> IF r \in S THEN attempts[r] + 1 ELSE 0]]
  /\ UNCHANGED <<backoff, current, phase, applied, charged>>

Start(w, r) ==
  /\ phase[w] = "idle"
  /\ r \in batch[w]
  /\ current' = [current EXCEPT ![w] = r]
  /\ phase' = [phase EXCEPT ![w] = "handling"]
  /\ UNCHANGED <<table, batch, snapshot, applied, charged>>

(* The worker goes on to the next row of its batch.                         *)
Release(w) ==
  /\ batch' = [batch EXCEPT ![w] = @ \ {current[w]}]
  /\ snapshot' = [snapshot EXCEPT ![w] =
                    [r \in Row |-> IF r = current[w] THEN 0 ELSE snapshot[w][r]]]
  /\ current' = [current EXCEPT ![w] = None]
  /\ phase' = [phase EXCEPT ![w] = "idle"]

Charge(r) == charged' = [charged EXCEPT ![r] = @ + 1]

Apply(r) == applied' = [applied EXCEPT ![r] = @ + 1]

(* discover commits the band on the worker's own session and returns: what *)
(* it stored is in the table while the row is still being processed.       *)
CommitInside(w) ==
  /\ phase[w] = "handling"
  /\ current[w] \in Committing
  /\ Apply(current[w])
  /\ phase' = [phase EXCEPT ![w] = "committed"]
  /\ UNCHANGED <<table, batch, snapshot, current, charged>>

(* mark_done and COMMIT.  The transaction is that of the handler's own     *)
(* writes, unless the handler has committed those before.                  *)
MarkDone(w) ==
  /\ \/ phase[w] = "handling" /\ current[w] \notin Committing /\ Apply(current[w])
     \/ phase[w] = "committed" /\ UNCHANGED applied
  /\ status' = [status EXCEPT ![current[w]] = "done"]
  /\ lockedAt' = [lockedAt EXCEPT ![current[w]] = "null"]
  /\ UNCHANGED <<attempts, backoff>>

Complete(w) ==
  /\ MarkDone(w)
  /\ Release(w)
  /\ Charge(current[w])

(* Mutant: what the handler wrote before it raised is committed.            *)
Raise_NoRollback(w) ==
  /\ phase[w] \in {"handling", "committed"}
  /\ phase' = [phase EXCEPT ![w] = "failing"]
  /\ Apply(current[w])
  /\ UNCHANGED <<table, batch, snapshot, current, charged>>

(* The handler, mark_done or COMMIT raises.  The transaction is rolled     *)
(* back; what the handler committed before is not in it any more.          *)
Raise(w) ==
  /\ phase[w] \in {"handling", "committed"}
  /\ phase' = [phase EXCEPT ![w] = "failing"]
  /\ UNCHANGED <<table, batch, snapshot, current, applied, charged>>

(* A COMMIT, the worker's or the handler's own, took effect and yet raised: *)
(* the connection died before the answer.                                   *)
LoseAck(w) ==
  /\ "ack" \in Fault
  /\ \/ MarkDone(w)
     \/ /\ phase[w] = "handling"
        /\ current[w] \in Committing
        /\ Apply(current[w])
        /\ UNCHANGED table
  /\ phase' = [phase EXCEPT ![w] = "failing"]
  /\ UNCHANGED <<batch, snapshot, current, charged>>

(* discover asks GitHub for nothing after its commit, so a deferred pass    *)
(* has committed nothing.                                                   *)
RateLimited(w) ==
  /\ phase[w] = "handling"
  /\ phase' = [phase EXCEPT ![w] = "deferring"]
  /\ UNCHANGED <<table, batch, snapshot, current, applied, charged>>

(* Mutant: the ceiling is met one attempt early.                            *)
Exhausted_Early(w) == snapshot[w][current[w]] + 1 >= MaxAttempts

Exhausted(w) == snapshot[w][current[w]] >= MaxAttempts

(* Mutant: locked_at survives the failure.                                  *)
MarkForRetry_KeepsLock(w) ==
  /\ phase[w] = "failing"
  /\ \/ /\ Exhausted(w)
        /\ status' = [status EXCEPT ![current[w]] = "failed"]
        /\ UNCHANGED backoff
     \/ /\ ~Exhausted(w)
        /\ status' = [status EXCEPT ![current[w]] = "pending"]
        /\ backoff' = backoff \cup {current[w]}
  /\ Release(w)
  /\ Charge(current[w])
  /\ UNCHANGED <<attempts, lockedAt, applied>>

(* mark_for_retry: the ceiling is judged on the claim's own attempt count.  *)
MarkForRetry(w) ==
  /\ phase[w] = "failing"
  /\ lockedAt' = [lockedAt EXCEPT ![current[w]] = "null"]
  /\ \/ /\ Exhausted(w)
        /\ status' = [status EXCEPT ![current[w]] = "failed"]
        /\ UNCHANGED backoff
     \/ /\ ~Exhausted(w)
        /\ status' = [status EXCEPT ![current[w]] = "pending"]
        /\ backoff' = backoff \cup {current[w]}
  /\ Release(w)
  /\ Charge(current[w])
  /\ UNCHANGED <<attempts, applied>>

(* Mutant: a deferral costs an attempt, as mark_for_retry would make it.    *)
Defer_KeepsAttempt(w) ==
  /\ phase[w] = "deferring"
  /\ status' = [status EXCEPT ![current[w]] = "pending"]
  /\ lockedAt' = [lockedAt EXCEPT ![current[w]] = "null"]
  /\ backoff' = backoff \cup {current[w]}
  /\ Release(w)
  /\ UNCHANGED <<attempts, applied, charged>>

(* defer gives the attempt back.                                            *)
Defer(w) ==
  /\ phase[w] = "deferring"
  /\ status' = [status EXCEPT ![current[w]] = "pending"]
  /\ lockedAt' = [lockedAt EXCEPT ![current[w]] = "null"]
  /\ attempts' = [attempts EXCEPT ![current[w]] = @ - 1]
  /\ backoff' = backoff \cup {current[w]}
  /\ Release(w)
  /\ UNCHANGED <<applied, charged>>

(* The process dies or is killed, also when recording an outcome fails, and  *)
(* comes back with empty hands.  Its claims stay behind in the table, and   *)
(* so does what a handler has committed by then.                            *)
Crash(w) ==
  /\ batch[w] # {}
  /\ batch' = [batch EXCEPT ![w] = {}]
  /\ snapshot' = [snapshot EXCEPT ![w] = [r \in Row |-> 0]]
  /\ current' = [current EXCEPT ![w] = None]
  /\ phase' = [phase EXCEPT ![w] = "idle"]
  /\ charged' = [r \in Row |-> IF r \in batch[w] THEN charged[r] + 1
                                                 ELSE charged[r]]
  /\ UNCHANGED <<table, applied>>

(* Mutant: the reaper does not look at the age of a claim.                  *)
Stuck_NoClock == {r \in Row : status[r] = "processing"}

Stuck == {r \in Row : status[r] = "processing" /\ lockedAt[r] = "old"}

(* Mutants: the sweep forgets to ask for pending; the ceiling is off by one. *)
Spent_AnyStatus(reaped) == {r \in Row : /\ status[r] # "failed"
                                        /\ attempts[r] >= MaxAttempts}
Spent_PastCeiling(reaped) == {r \in Row : /\ r \in reaped \/ status[r] = "pending"
                                          /\ attempts[r] > MaxAttempts}

Spent(reaped) == {r \in Row : /\ r \in reaped \/ status[r] = "pending"
                              /\ attempts[r] >= MaxAttempts}

(* reap_stuck, then fail_exhausted, in one transaction; run_forever calls   *)
(* it only when the worker is done with its batch.                          *)
Sweep(w) ==
  LET reaped == Stuck
      spent  == Spent(reaped)
  IN /\ batch[w] = {}
     /\ reaped \cup spent # {}
     /\ status' = [r \in Row |-> IF r \in spent THEN "failed"
                                 ELSE IF r \in reaped THEN "pending"
                                 ELSE status[r]]
     /\ lockedAt' = [r \in Row |-> IF r \in reaped \cup spent THEN "null"
                                                             ELSE lockedAt[r]]
     /\ backoff' = backoff \ reaped
     /\ UNCHANGED <<attempts, worker, applied, charged>>
-------------------------------------------------------------------------------
(* Time: the claim of r passes the reaper timeout, but not under a live      *)
(* worker unless Fault allows it.                                           *)
Age(r) ==
  /\ lockedAt[r] = "fresh"
  /\ \A w \in Holders(r) :
       IF current[w] \in {r, None} THEN "handling" \in Fault
                                   ELSE "waiting" \in Fault
  /\ lockedAt' = [lockedAt EXCEPT ![r] = "old"]
  /\ UNCHANGED <<status, attempts, backoff, worker, applied, charged>>

BackoffElapses(r) ==
  /\ r \in backoff
  /\ backoff' = backoff \ {r}
  /\ UNCHANGED <<status, attempts, lockedAt, worker, applied, charged>>

(* Every row is settled: run_forever finds nothing, waits and polls again.  *)
Poll ==
  /\ \A r \in Row : status[r] \in Settled
  /\ \A w \in Worker : batch[w] = {}
  /\ UNCHANGED vars

WorkerStep(w) ==
  \/ Claim(w) \/ (\E r \in Row : Start(w, r))
  \/ CommitInside(w) \/ Complete(w)
  \/ Raise(w) \/ LoseAck(w) \/ RateLimited(w)
  \/ MarkForRetry(w) \/ Defer(w)
  \/ Sweep(w) \/ Crash(w)

Next ==
  \/ \E S \in SUBSET Row : Enqueue(S)
  \/ \E r \in Row : Age(r) \/ BackoffElapses(r)
  \/ \E w \in Worker : WorkerStep(w)
  \/ Poll

Outcome(w, r) == current[w] = r /\ (CommitInside(w) \/ Complete(w) \/ Raise(w))

(***************************************************************************)
(* A worker's own steps are a sequential loop, so each is weakly fair.     *)
(* The loop tests the sweep timer before every claim, so it cannot pass    *)
(* over Sweep for ever although Claim keeps disabling it: strong fairness. *)
(* A rate limit clears when its window resets, so a row that keeps being   *)
(* started is some day not deferred.  Nothing is fair about a crash.       *)
(***************************************************************************)
Fairness ==
  /\ \A w \in Worker :
       /\ WF_vars(Claim(w))
       /\ WF_vars(\E r \in Row : Start(w, r))
       /\ WF_vars(CommitInside(w) \/ Complete(w) \/ Raise(w) \/ RateLimited(w))
       /\ WF_vars(MarkForRetry(w) \/ Defer(w))
       /\ SF_vars(Sweep(w))
  /\ \A r \in Row :
       /\ WF_vars(Age(r))
       /\ WF_vars(BackoffElapses(r))
       /\ SF_vars(\E w \in Worker : Outcome(w, r))

Safety == Init /\ [][Next]_vars

Spec == Safety /\ Fairness
-------------------------------------------------------------------------------
(***************************************************************************)
(* Properties under every fault.                                           *)
(***************************************************************************)
(* The attempt count of a row is the claims that hold it plus the claims   *)
(* that ended otherwise than by being told to wait.  So a deferral never   *)
(* costs an attempt (test_deferral.py), no attempt is ever given back for  *)
(* a failure, a crash or a reap, and the ceiling bounds live claims too.   *)
AttemptsAccounted ==
  \A r \in Row : attempts[r] = charged[r] + Cardinality(Holders(r))

(* A row is processing exactly while it has a locked_at: reap_stuck cannot *)
(* see a processing row without one, and it would stay so for ever.        *)
ProcessingIsLocked ==
  \A r \in Row : status[r] = "processing" <=> lockedAt[r] # "null"

(* Whatever overlaps and however often, each row enqueued is in the end    *)
(* done or failed and is not revived after that.                           *)
SettlesForGood ==
  \A r \in Row : status[r] # "absent" ~> [](status[r] \in Settled)

(***************************************************************************)
(* Properties of the documented regime, Fault = {}.                        *)
(***************************************************************************)
(* A claimed row belongs to one worker: the table says processing, the     *)
(* worker's copy of the attempt count is current and nobody else holds it. *)
(* The reaper and SKIP LOCKED have to agree for this to hold.              *)
ExclusiveClaim ==
  \A w \in Worker : \A r \in batch[w] :
    /\ status[r] = "processing"
    /\ snapshot[w][r] = attempts[r]
    /\ \A v \in Worker \ {w} : r \notin batch[v]

(* The handler's writes are committed once for a row that is done and      *)
(* never for any other row: not for a failed one, nor before a retry.  A   *)
(* discover_band row commits by itself, so a failure or a crash after that *)
(* leaves its writes behind and the retry commits more: at most one pass   *)
(* for each attempt, so none for a deferral, and at least one if it is     *)
(* done.                                                                   *)
ExactlyOnce ==
  \A r \in Row :
    IF r \in Committing
      THEN applied[r] <= attempts[r] /\ (status[r] = "done" => applied[r] > 0)
      ELSE applied[r] = IF status[r] = "done" THEN 1 ELSE 0

(* A dead-lettered row really used up every attempt: MaxAttempts claims    *)
(* of it raised or died with their worker; no deferral was among them.     *)
DeadLetterIsSpent ==
  \A r \in Row : status[r] = "failed" => charged[r] = MaxAttempts

(* Nothing revives a row that is done or failed, or turns one into the other. *)
SettledIsFinal ==
  [][\A r \in Row : status[r] \in Settled => status'[r] = status[r]]_vars

(* The queue keeps the promise of WorkList: claims, retries, deferrals,    *)
(* crashes and reaps are invisible, and every row owed is settled.  Only a *)
(* discover_band row shows what it has committed so far.                   *)
Stage(r) == CASE status[r] \in {"pending", "processing"} -> "owed"
              [] status[r] = "failed" -> "dead"
              [] OTHER -> status[r]

Work == INSTANCE WorkList WITH Partial <- Committing,
                               stage <- [r \in Row |-> Stage(r)],
                               effects <- applied

ImplementsWorkList == Work!Spec

(***************************************************************************)
(* What the repository says and the code does not do (a violation run).    *)
(***************************************************************************)
(* queue.py:161 names one condition for a row never being handed to a      *)
(* second worker: no row is processed for longer than the timeout.         *)
NoDoubleHandling ==
  \A w, v \in Worker : w # v /\ current[w] # None => current[w] # current[v]
===============================================================================
