--------------------------- MODULE EventQueueProofs ---------------------------
(***************************************************************************)
(* Proofs about EventQueue for any number of rows, any finite number of    *)
(* workers, any ceiling and any batch size.                                *)
(***************************************************************************)
EXTENDS EventQueue, FiniteSetTheorems, TLAPS

(* A worker that is not idle works on a row of its batch.                   *)
InHand == \A w \in Worker : IF phase[w] = "idle" THEN current[w] = None
                                                 ELSE current[w] \in batch[w]

(* Inductive under every fault.                                             *)
Base == TypeOK /\ InHand /\ AttemptsAccounted /\ ProcessingIsLocked
-------------------------------------------------------------------------------
LEMMA HoldersFinite ==
  ASSUME NEW r \in Row
  PROVE  IsFiniteSet(Holders(r)) /\ Cardinality(Holders(r)) \in Nat
<1>1. Holders(r) \subseteq Worker
  BY DEF Holders
<1> QED
  BY <1>1, FS_Subset, FS_CardinalityType, ConstantsAssumption

(* Releasing the row in hand takes one holder from it and none from others. *)
LEMMA ReleaseHolders ==
  ASSUME TypeOK, NEW w \in Worker, current[w] \in batch[w], Release(w),
         NEW r \in Row
  PROVE  /\ r = current[w] =>
              /\ Cardinality(Holders(r)) >= 1
              /\ Cardinality(Holders(r))' = Cardinality(Holders(r)) - 1
         /\ r # current[w] => Holders(r)' = Holders(r)
<1>1. CASE r = current[w]
  <2>1. w \in Holders(r)
    BY <1>1 DEF Holders
  <2>2. Holders(r)' = Holders(r) \ {w}
    BY <1>1 DEF Holders, Release, TypeOK
  <2>3. Cardinality(Holders(r) \ {w}) = Cardinality(Holders(r)) - 1
    BY <2>1, HoldersFinite, FS_RemoveElement
  <2>4. Cardinality(Holders(r)) # 0
    BY <2>1, HoldersFinite, FS_EmptySet
  <2> QED
    BY <1>1, <2>2, <2>3, <2>4, HoldersFinite
<1>2. CASE r # current[w]
  <2>1. Holders(r)' = Holders(r)
    BY <1>2 DEF Holders, Release, TypeOK
  <2> QED
    BY <1>2, <2>1
<1> QED
  BY <1>1, <1>2

(* Release leaves every other worker alone and this one empty-handed.       *)
LEMMA ReleaseShape ==
  ASSUME TypeOK, InHand, NEW w \in Worker, Release(w)
  PROVE  /\ batch' \in [Worker -> SUBSET Row]
         /\ snapshot' \in [Worker -> [Row -> 0 .. MaxAttempts]]
         /\ current' \in [Worker -> Row \cup {None}]
         /\ phase' \in [Worker -> Phase]
         /\ InHand'
<1>1. batch' \in [Worker -> SUBSET Row]
  BY DEF Release, TypeOK
<1>2. snapshot' \in [Worker -> [Row -> 0 .. MaxAttempts]]
  BY ConstantsAssumption DEF Release, TypeOK
<1>3. current' \in [Worker -> Row \cup {None}]
  BY DEF Release, TypeOK
<1>4. phase' \in [Worker -> Phase]
  BY DEF Release, TypeOK, Phase
<1>5. InHand'
  BY DEF Release, TypeOK, InHand
<1> QED
  BY <1>1, <1>2, <1>3, <1>4, <1>5

LEMMA InitBase == Init => Base
<1> SUFFICES ASSUME Init PROVE Base
  OBVIOUS
<1>1. TypeOK
  BY ConstantsAssumption DEF Init, TypeOK, Status, Phase
<1>2. InHand /\ ProcessingIsLocked
  BY DEF Init, InHand, ProcessingIsLocked
<1>3. AttemptsAccounted
  <2> SUFFICES ASSUME NEW r \in Row
               PROVE  attempts[r] = charged[r] + Cardinality(Holders(r))
    BY DEF AttemptsAccounted
  <2>1. Holders(r) = {}
    BY DEF Init, Holders
  <2> QED
    BY <2>1, FS_EmptySet DEF Init
<1> QED
  BY <1>1, <1>2, <1>3 DEF Base
-------------------------------------------------------------------------------
(* Steps that move no claim: the accounting carries over as it stands.      *)
LEMMA SameClaims ==
  ASSUME AttemptsAccounted, batch' = batch, attempts' = attempts,
         charged' = charged
  PROVE  AttemptsAccounted'
<1>1. \A r \in Row : Holders(r)' = Holders(r)
  BY DEF Holders
<1> QED
  BY <1>1 DEF AttemptsAccounted

LEMMA EnqueueBase == ASSUME Base, NEW S \in SUBSET Row, Enqueue(S) PROVE Base'
<1> USE DEF Base, Enqueue, worker
<1>1. TypeOK'
  BY DEF TypeOK, Status
<1>2. InHand' /\ ProcessingIsLocked'
  BY DEF TypeOK, InHand, ProcessingIsLocked
<1> QED
  BY <1>1, <1>2, SameClaims

LEMMA StartBase ==
  ASSUME Base, NEW w \in Worker, NEW r \in Row, Start(w, r) PROVE Base'
<1> USE DEF Base, Start, table
<1>1. TypeOK'
  BY DEF TypeOK, Phase
<1>2. InHand' /\ ProcessingIsLocked'
  BY DEF TypeOK, InHand, ProcessingIsLocked
<1> QED
  BY <1>1, <1>2, SameClaims

LEMMA RaiseBase ==
  ASSUME Base, NEW w \in Worker, CommitInside(w) \/ Raise(w) \/ RateLimited(w)
  PROVE  Base'
<1> USE DEF Base, CommitInside, Raise, RateLimited, table
<1>1. TypeOK'
  <2>1. applied' \in [Row -> Nat]
    BY DEF TypeOK, Apply
  <2> QED
    BY <2>1 DEF TypeOK, Phase
<1>2. InHand' /\ ProcessingIsLocked'
  BY DEF TypeOK, InHand, ProcessingIsLocked
<1> QED
  BY <1>1, <1>2, SameClaims

LEMMA LoseAckBase == ASSUME Base, NEW w \in Worker, LoseAck(w) PROVE Base'
<1> USE DEF Base
<1>1. /\ phase' = [phase EXCEPT ![w] = "failing"]
      /\ UNCHANGED <<batch, snapshot, current, charged, attempts, backoff>>
  BY DEF LoseAck, MarkDone, table
<1>2. phase[w] # "idle" /\ current[w] \in batch[w] /\ current[w] \in Row
  BY DEF LoseAck, MarkDone, InHand, TypeOK
<1>3. /\ applied' \in [Row -> Nat]
      /\ \/ UNCHANGED <<status, lockedAt>>
         \/ /\ status' = [status EXCEPT ![current[w]] = "done"]
            /\ lockedAt' = [lockedAt EXCEPT ![current[w]] = "null"]
  BY <1>2 DEF LoseAck, MarkDone, Apply, table, TypeOK
<1>4. TypeOK'
  <2>1. status' \in [Row -> Status] /\ lockedAt' \in [Row -> {"null", "fresh", "old"}]
    <3>1. CASE UNCHANGED <<status, lockedAt>>
      BY <3>1 DEF TypeOK
    <3>2. CASE /\ status' = [status EXCEPT ![current[w]] = "done"]
               /\ lockedAt' = [lockedAt EXCEPT ![current[w]] = "null"]
      BY <3>2 DEF TypeOK, Status
    <3> QED
      BY <1>3, <3>1, <3>2
  <2>2. phase' \in [Worker -> Phase]
    BY <1>1 DEF TypeOK, Phase
  <2> QED
    BY <1>1, <1>3, <2>1, <2>2 DEF TypeOK
<1>5. InHand' /\ ProcessingIsLocked'
  BY <1>1, <1>2, <1>3 DEF TypeOK, InHand, ProcessingIsLocked
<1> QED
  BY <1>1, <1>4, <1>5, SameClaims

LEMMA SweepBase == ASSUME Base, NEW w \in Worker, Sweep(w) PROVE Base'
<1> USE DEF Base, Sweep, worker
<1>1. TypeOK'
  BY DEF TypeOK, Status, Stuck, Spent
<1>2. InHand'
  BY DEF TypeOK, InHand
<1>3. ProcessingIsLocked'
  BY DEF TypeOK, ProcessingIsLocked, Stuck, Spent
<1> QED
  BY <1>1, <1>2, <1>3, SameClaims

LEMMA TimeBase ==
  ASSUME Base, NEW r \in Row, Age(r) \/ BackoffElapses(r) PROVE Base'
<1> USE DEF Base, Age, BackoffElapses, worker
<1>1. TypeOK'
  BY DEF TypeOK
<1>2. InHand' /\ ProcessingIsLocked'
  BY DEF TypeOK, InHand, ProcessingIsLocked
<1> QED
  BY <1>1, <1>2, SameClaims

(* A claim adds this worker to the holders of each row it takes.            *)
LEMMA ClaimBase == ASSUME Base, NEW w \in Worker, Claim(w) PROVE Base'
<1> USE DEF Base
<1>1. PICK S \in SUBSET Row :
        /\ S \subseteq Claimable
        /\ status' = [r \in Row |-> IF r \in S THEN "processing" ELSE status[r]]
        /\ lockedAt' = [r \in Row |-> IF r \in S THEN "fresh" ELSE lockedAt[r]]
        /\ attempts' = [r \in Row |-> IF r \in S THEN attempts[r] + 1
                                                ELSE attempts[r]]
        /\ batch' = [batch EXCEPT ![w] = S]
        /\ snapshot' = [snapshot EXCEPT ![w] =
                          [r \in Row |-> IF r \in S THEN attempts[r] + 1 ELSE 0]]
  BY DEF Claim, FirstInLine
<1>2. /\ batch[w] = {}
      /\ UNCHANGED <<backoff, current, phase, applied, charged>>
  BY DEF Claim
<1>3. TypeOK'
  <2>1. \A r \in S : attempts[r] + 1 \in 0 .. MaxAttempts
    BY <1>1, ConstantsAssumption DEF Claimable, TypeOK
  <2>2. attempts' \in [Row -> 0 .. MaxAttempts]
    BY <1>1, <2>1 DEF TypeOK
  <2>3. snapshot' \in [Worker -> [Row -> 0 .. MaxAttempts]]
    <3>1. [r \in Row |-> IF r \in S THEN attempts[r] + 1 ELSE 0]
            \in [Row -> 0 .. MaxAttempts]
      BY <2>1, ConstantsAssumption
    <3> QED
      BY <1>1, <3>1 DEF TypeOK
  <2>4. /\ status' \in [Row -> Status]
        /\ lockedAt' \in [Row -> {"null", "fresh", "old"}]
        /\ batch' \in [Worker -> SUBSET Row]
    BY <1>1 DEF TypeOK, Status
  <2> QED
    BY <1>2, <2>2, <2>3, <2>4 DEF TypeOK
<1>4. InHand'
  BY <1>1, <1>2 DEF InHand, TypeOK
<1>5. ProcessingIsLocked'
  BY <1>1 DEF ProcessingIsLocked, TypeOK
<1>6. AttemptsAccounted'
  <2> SUFFICES ASSUME NEW r \in Row
               PROVE  attempts'[r] = charged'[r] + Cardinality(Holders(r))'
    BY DEF AttemptsAccounted
  <2>1. attempts[r] = charged[r] + Cardinality(Holders(r))
    BY DEF AttemptsAccounted
  <2>2. CASE r \in S
    <3>1. w \notin Holders(r)
      BY <1>2 DEF Holders
    <3>2. Holders(r)' = Holders(r) \cup {w}
      BY <1>1, <2>2 DEF Holders, TypeOK
    <3>3. Cardinality(Holders(r) \cup {w}) = Cardinality(Holders(r)) + 1
      BY <3>1, HoldersFinite, FS_AddElement
    <3> QED
      BY <1>1, <1>2, <2>1, <2>2, <3>2, <3>3, HoldersFinite DEF TypeOK
  <2>3. CASE r \notin S
    <3>1. Holders(r)' = Holders(r)
      BY <1>1, <1>2, <2>3 DEF Holders, TypeOK
    <3> QED
      BY <1>1, <1>2, <2>1, <2>3, <3>1
  <2> QED
    BY <2>2, <2>3
<1> QED
  BY <1>3, <1>4, <1>5, <1>6

(* A claim that ends and is charged moves from the holders to the charges.  *)
LEMMA ChargedRelease ==
  ASSUME TypeOK, AttemptsAccounted, NEW w \in Worker, current[w] \in batch[w],
         Release(w), Charge(current[w]), attempts' = attempts
  PROVE  AttemptsAccounted'
<1> SUFFICES ASSUME NEW r \in Row
             PROVE  attempts'[r] = charged'[r] + Cardinality(Holders(r))'
  BY DEF AttemptsAccounted
<1>1. attempts[r] = charged[r] + Cardinality(Holders(r))
  BY DEF AttemptsAccounted
<1>2. CASE r = current[w]
  <2>1. Cardinality(Holders(r))' = Cardinality(Holders(r)) - 1
    BY <1>2, ReleaseHolders
  <2>2. charged'[r] = charged[r] + 1 /\ charged[r] \in Nat
    BY <1>2 DEF TypeOK, Charge
  <2> QED
    BY <1>1, <2>1, <2>2, HoldersFinite
<1>3. CASE r # current[w]
  BY <1>1, <1>3, ReleaseHolders DEF TypeOK, Charge
<1> QED
  BY <1>2, <1>3

LEMMA CompleteBase == ASSUME Base, NEW w \in Worker, Complete(w) PROVE Base'
<1> USE DEF Base
<1>1. current[w] \in batch[w] /\ current[w] \in Row
  BY DEF InHand, TypeOK, Complete, MarkDone
<1>2. Release(w) /\ MarkDone(w) /\ Charge(current[w])
  BY DEF Complete
<1>3. TypeOK'
  <2>1. applied' \in [Row -> Nat]
    BY <1>1, <1>2 DEF TypeOK, MarkDone, Apply
  <2>2. /\ status' \in [Row -> Status]
        /\ lockedAt' \in [Row -> {"null", "fresh", "old"}]
        /\ UNCHANGED <<attempts, backoff>>
    BY <1>1, <1>2 DEF TypeOK, MarkDone, Status
  <2>3. charged' \in [Row -> Nat]
    BY <1>1, <1>2 DEF TypeOK, Charge
  <2> QED
    BY <1>2, <2>1, <2>2, <2>3, ReleaseShape DEF TypeOK
<1>4. InHand' /\ ProcessingIsLocked'
  BY <1>1, <1>2, ReleaseShape DEF TypeOK, ProcessingIsLocked, MarkDone
<1>5. AttemptsAccounted'
  BY <1>1, <1>2, ChargedRelease DEF MarkDone
<1> QED
  BY <1>3, <1>4, <1>5

LEMMA MarkForRetryBase ==
  ASSUME Base, NEW w \in Worker, MarkForRetry(w) PROVE Base'
<1> USE DEF Base
<1>1. current[w] \in batch[w] /\ current[w] \in Row
  BY DEF InHand, TypeOK, MarkForRetry
<1>2. /\ Release(w) /\ Charge(current[w])
      /\ attempts' = attempts /\ applied' = applied
      /\ lockedAt' = [lockedAt EXCEPT ![current[w]] = "null"]
  BY DEF MarkForRetry
<1>3. PICK s \in {"failed", "pending"} :
        status' = [status EXCEPT ![current[w]] = s]
  BY DEF MarkForRetry
<1>4. backoff' \subseteq backoff \cup {current[w]}
  BY DEF MarkForRetry
<1>5. TypeOK'
  <2>1. status' \in [Row -> Status] /\ backoff' \subseteq Row
    BY <1>1, <1>3, <1>4 DEF TypeOK, Status
  <2>2. /\ lockedAt' \in [Row -> {"null", "fresh", "old"}]
        /\ charged' \in [Row -> Nat]
    BY <1>1, <1>2 DEF TypeOK, Charge
  <2> QED
    BY <1>2, <2>1, <2>2, ReleaseShape DEF TypeOK
<1>6. InHand' /\ ProcessingIsLocked'
  BY <1>1, <1>2, <1>3, ReleaseShape DEF TypeOK, ProcessingIsLocked
<1>7. AttemptsAccounted'
  BY <1>1, <1>2, ChargedRelease
<1> QED
  BY <1>5, <1>6, <1>7

(* The holder that defers is counted in attempts, which stays a natural.    *)
LEMMA DeferBase == ASSUME Base, NEW w \in Worker, Defer(w) PROVE Base'
<1> USE DEF Base
<1>1. current[w] \in batch[w] /\ current[w] \in Row
  BY DEF InHand, TypeOK, Defer
<1>2. Release(w)
  BY DEF Defer
<1>3. attempts[current[w]] - 1 \in 0 .. MaxAttempts
  BY <1>1, <1>2, ReleaseHolders, HoldersFinite, ConstantsAssumption
  DEF TypeOK, AttemptsAccounted
<1>4. TypeOK'
  <2>1. attempts' \in [Row -> 0 .. MaxAttempts]
    BY <1>1, <1>3 DEF TypeOK, Defer
  <2> QED
    BY <1>1, <1>2, <2>1, ReleaseShape DEF TypeOK, Defer, Status
<1>5. InHand' /\ ProcessingIsLocked'
  BY <1>1, <1>2, ReleaseShape DEF TypeOK, ProcessingIsLocked, Defer
<1>6. AttemptsAccounted'
  <2> SUFFICES ASSUME NEW r \in Row
               PROVE  attempts'[r] = charged'[r] + Cardinality(Holders(r))'
    BY DEF AttemptsAccounted
  <2>1. attempts[r] = charged[r] + Cardinality(Holders(r))
    BY DEF AttemptsAccounted
  <2>2. CASE r = current[w]
    BY <1>1, <1>2, <2>1, <2>2, ReleaseHolders, HoldersFinite DEF TypeOK, Defer
  <2>3. CASE r # current[w]
    BY <1>1, <1>2, <2>1, <2>3, ReleaseHolders DEF TypeOK, Defer
  <2> QED
    BY <2>2, <2>3
<1> QED
  BY <1>4, <1>5, <1>6

(* A crash turns each claim of the worker into a charged one.               *)
LEMMA CrashBase == ASSUME Base, NEW w \in Worker, Crash(w) PROVE Base'
<1> USE DEF Base, Crash, table
<1>1. TypeOK'
  <2>1. snapshot' \in [Worker -> [Row -> 0 .. MaxAttempts]]
    BY ConstantsAssumption DEF TypeOK
  <2> QED
    BY <2>1 DEF TypeOK, Phase
<1>2. InHand' /\ ProcessingIsLocked'
  BY DEF TypeOK, InHand, ProcessingIsLocked
<1>3. AttemptsAccounted'
  <2> SUFFICES ASSUME NEW r \in Row
               PROVE  attempts'[r] = charged'[r] + Cardinality(Holders(r))'
    BY DEF AttemptsAccounted
  <2>1. attempts[r] = charged[r] + Cardinality(Holders(r))
    BY DEF AttemptsAccounted
  <2>2. CASE r \in batch[w]
    <3>1. w \in Holders(r)
      BY <2>2 DEF Holders
    <3>2. Holders(r)' = Holders(r) \ {w}
      BY DEF Holders, TypeOK
    <3>3. Cardinality(Holders(r) \ {w}) = Cardinality(Holders(r)) - 1
      BY <3>1, HoldersFinite, FS_RemoveElement
    <3> QED
      BY <2>1, <2>2, <3>2, <3>3, HoldersFinite DEF TypeOK
  <2>3. CASE r \notin batch[w]
    <3>1. Holders(r)' = Holders(r)
      BY <2>3 DEF Holders, TypeOK
    <3> QED
      BY <2>1, <2>3, <3>1
  <2> QED
    BY <2>2, <2>3
<1> QED
  BY <1>1, <1>2, <1>3

LEMMA StutterBase == ASSUME Base, UNCHANGED vars PROVE Base'
<1>1. \A r \in Row : Holders(r)' = Holders(r)
  BY DEF Holders, vars, worker
<1> QED
  BY <1>1 DEF Base, TypeOK, InHand, AttemptsAccounted, ProcessingIsLocked,
              vars, table, worker

LEMMA NextBase == Base /\ [Next]_vars => Base'
<1> SUFFICES ASSUME Base, [Next]_vars PROVE Base'
  OBVIOUS
<1>1. ASSUME NEW S \in SUBSET Row, Enqueue(S) PROVE Base'
  BY <1>1, EnqueueBase
<1>2. ASSUME NEW r \in Row, Age(r) \/ BackoffElapses(r) PROVE Base'
  BY <1>2, TimeBase
<1>3. ASSUME NEW w \in Worker, WorkerStep(w) PROVE Base'
  BY <1>3, ClaimBase, StartBase, CompleteBase, RaiseBase, LoseAckBase,
     MarkForRetryBase, DeferBase, SweepBase, CrashBase
  DEF WorkerStep
<1>4. CASE Poll \/ UNCHANGED vars
  BY <1>4, StutterBase DEF Poll
<1> QED
  BY <1>1, <1>2, <1>3, <1>4 DEF Next

LEMMA BaseInvariant == Safety => []Base
  BY InitBase, NextBase, PTL DEF Safety
-------------------------------------------------------------------------------
(* Under every fault the state is well typed: in particular the attempt    *)
(* count stays within 0 .. max_attempts whatever overlaps.                 *)
THEOREM TypeCorrectness == Safety => []TypeOK
  BY BaseInvariant, PTL DEF Base

(* Under every fault an attempt is a live claim or one that ended otherwise *)
(* than by being told to wait.                                             *)
THEOREM AttemptAccounting == Safety => []AttemptsAccounted
  BY BaseInvariant, PTL DEF Base

(* Under every fault the reaper can see each processing row.                *)
THEOREM ReaperSeesClaims == Safety => []ProcessingIsLocked
  BY BaseInvariant, PTL DEF Base
-------------------------------------------------------------------------------
(***************************************************************************)
(* The documented regime, Fault = {}: no claim outlives the reaper timeout  *)
(* under a live worker and no acknowledged COMMIT is lost.                 *)
(***************************************************************************)
(* A claim past the timeout has no holder left: its worker died.            *)
OldIsOrphaned == \A r \in Row : lockedAt[r] = "old" => Holders(r) = {}

Regime == Base /\ ExclusiveClaim /\ OldIsOrphaned

(* What a worker may rely on for the row in its hand.                       *)
LEMMA HandFacts ==
  ASSUME Regime, NEW w \in Worker, phase[w] # "idle"
  PROVE  /\ current[w] \in batch[w] /\ current[w] \in Row
         /\ status[current[w]] = "processing"
         /\ snapshot[w][current[w]] = attempts[current[w]]
         /\ attempts[current[w]] = charged[current[w]] + 1
<1>1. current[w] \in batch[w] /\ current[w] \in Row
  BY DEF Regime, Base, InHand, TypeOK
<1>2. /\ status[current[w]] = "processing"
      /\ snapshot[w][current[w]] = attempts[current[w]]
      /\ \A v \in Worker \ {w} : current[w] \notin batch[v]
  BY <1>1 DEF Regime, ExclusiveClaim
<1>3. Cardinality(Holders(current[w])) = 1
  <2>1. Holders(current[w]) = {w}
    BY <1>1, <1>2 DEF Holders
  <2> QED
    BY <2>1, FS_Singleton
<1>4. attempts[current[w]] = charged[current[w]] + 1
  BY <1>1, <1>3 DEF Regime, Base, AttemptsAccounted
<1> QED
  BY <1>1, <1>2, <1>4

(* Ending a claim disturbs no other one.                                    *)
LEMMA ReleaseRegime ==
  ASSUME Regime, NEW w \in Worker, phase[w] # "idle", Release(w), Base',
         NEW s \in Status, status' = [status EXCEPT ![current[w]] = s],
         lockedAt' = [lockedAt EXCEPT ![current[w]] = "null"],
         \A r \in Row : r # current[w] => attempts'[r] = attempts[r]
  PROVE  Regime'
<1> USE DEF Regime, Base
<1>1. current[w] \in batch[w] /\ current[w] \in Row
  BY HandFacts
<1>2. ExclusiveClaim'
  <2> SUFFICES ASSUME NEW v \in Worker, NEW r \in batch'[v]
               PROVE  /\ status'[r] = "processing"
                      /\ snapshot'[v][r] = attempts'[r]
                      /\ \A u \in Worker \ {v} : r \notin batch'[u]
    BY DEF ExclusiveClaim
  <2>1. r \in batch[v] /\ r \in Row /\ \A u \in Worker : batch'[u] \subseteq batch[u]
    BY DEF Release, TypeOK
  <2>2. r # current[w]
    BY <1>1, <2>1 DEF ExclusiveClaim, Release, TypeOK
  <2>3. snapshot'[v][r] = snapshot[v][r]
    BY <2>1, <2>2 DEF Release, TypeOK
  <2> QED
    BY <1>1, <2>1, <2>2, <2>3 DEF ExclusiveClaim, TypeOK
<1>3. OldIsOrphaned'
  <2> SUFFICES ASSUME NEW r \in Row, lockedAt'[r] = "old"
               PROVE  Holders(r)' = {}
    BY DEF OldIsOrphaned
  <2>1. r # current[w] /\ lockedAt[r] = "old"
    BY <1>1 DEF TypeOK
  <2> QED
    BY <1>1, <2>1, ReleaseHolders DEF OldIsOrphaned
<1> QED
  BY <1>2, <1>3

(* A claim takes pending rows, which nobody holds.                          *)
LEMMA ClaimRegime ==
  ASSUME Regime, NEW w \in Worker, Claim(w), Base' PROVE Regime'
<1> USE DEF Regime, Base
<1>1. PICK S \in SUBSET Row :
        /\ S \subseteq Claimable
        /\ status' = [r \in Row |-> IF r \in S THEN "processing" ELSE status[r]]
        /\ lockedAt' = [r \in Row |-> IF r \in S THEN "fresh" ELSE lockedAt[r]]
        /\ attempts' = [r \in Row |-> IF r \in S THEN attempts[r] + 1
                                                ELSE attempts[r]]
        /\ batch' = [batch EXCEPT ![w] = S]
        /\ snapshot' = [snapshot EXCEPT ![w] =
                          [r \in Row |-> IF r \in S THEN attempts[r] + 1 ELSE 0]]
  BY DEF Claim, FirstInLine
<1>2. \A r \in S : /\ status[r] = "pending"
                   /\ \A v \in Worker : r \notin batch[v]
  BY <1>1 DEF Claimable, ExclusiveClaim
<1>3. \A v \in Worker : v # w => batch'[v] = batch[v] /\ snapshot'[v] = snapshot[v]
  BY <1>1 DEF TypeOK
<1>4. ExclusiveClaim'
  <2> SUFFICES ASSUME NEW v \in Worker, NEW r \in batch'[v]
               PROVE  /\ status'[r] = "processing"
                      /\ snapshot'[v][r] = attempts'[r]
                      /\ \A u \in Worker \ {v} : r \notin batch'[u]
    BY DEF ExclusiveClaim
  <2>1. CASE v = w
    BY <1>1, <1>2, <1>3, <2>1 DEF TypeOK
  <2>2. CASE v # w
    <3>1. r \in batch[v] /\ r \in Row /\ r \notin S
      BY <1>2, <1>3, <2>2 DEF TypeOK
    <3>2. batch'[w] = S
      BY <1>1 DEF TypeOK
    <3> QED
      BY <1>1, <1>3, <2>2, <3>1, <3>2 DEF ExclusiveClaim
  <2> QED
    BY <2>1, <2>2
<1>5. OldIsOrphaned'
  <2> SUFFICES ASSUME NEW r \in Row, lockedAt'[r] = "old"
               PROVE  Holders(r)' = {}
    BY DEF OldIsOrphaned
  <2>1. r \notin S /\ lockedAt[r] = "old"
    BY <1>1
  <2> QED
    BY <1>1, <1>3, <2>1 DEF OldIsOrphaned, Holders, TypeOK
<1> QED
  BY <1>4, <1>5

(* The sweep touches only rows nobody holds.                                *)
LEMMA SweptUnheld ==
  ASSUME Regime, NEW r \in Stuck \cup Spent(Stuck)
  PROVE  r \in Row /\ Holders(r) = {}
<1>1. CASE r \in Stuck
  BY <1>1 DEF Regime, OldIsOrphaned, Stuck
<1>2. CASE status[r] = "pending" /\ r \in Row
  BY <1>2 DEF Regime, ExclusiveClaim, Holders
<1> QED
  BY <1>1, <1>2 DEF Spent

LEMMA SweepRegime ==
  ASSUME Regime, NEW w \in Worker, Sweep(w), Base' PROVE Regime'
<1> USE DEF Regime, Base
<1>1. /\ batch' = batch /\ snapshot' = snapshot /\ attempts' = attempts
      /\ \A r \in Row : r \notin Stuck \cup Spent(Stuck) =>
           status'[r] = status[r] /\ lockedAt'[r] = lockedAt[r]
      /\ \A r \in Row : r \in Stuck \cup Spent(Stuck) => lockedAt'[r] = "null"
  BY DEF Sweep, worker
<1>2. ExclusiveClaim'
  <2> SUFFICES ASSUME NEW v \in Worker, NEW r \in batch[v]
               PROVE  /\ status'[r] = "processing"
                      /\ snapshot[v][r] = attempts[r]
                      /\ \A u \in Worker \ {v} : r \notin batch[u]
    BY <1>1 DEF ExclusiveClaim
  <2>1. r \in Row /\ v \in Holders(r)
    BY DEF TypeOK, Holders
  <2>2. r \notin Stuck \cup Spent(Stuck)
    BY <2>1, SweptUnheld
  <2> QED
    BY <1>1, <2>1, <2>2 DEF ExclusiveClaim
<1>3. OldIsOrphaned'
  BY <1>1 DEF OldIsOrphaned, Holders
<1> QED
  BY <1>2, <1>3

(* Time passes the timeout only for claims whose worker is dead.            *)
LEMMA AgeRegime ==
  ASSUME Fault = {}, Regime, NEW r \in Row, Age(r), Base' PROVE Regime'
<1>1. Holders(r) = {}
  BY DEF Age, Holders
<1>2. ExclusiveClaim'
  BY DEF Age, Regime, ExclusiveClaim, worker
<1>3. OldIsOrphaned'
  BY <1>1 DEF Age, Regime, Base, OldIsOrphaned, TypeOK, worker, Holders
<1> QED
  BY <1>2, <1>3 DEF Regime

LEMMA CrashRegime ==
  ASSUME Regime, NEW w \in Worker, Crash(w), Base' PROVE Regime'
<1>1. /\ batch'[w] = {}
      /\ \A v \in Worker : v # w => batch'[v] = batch[v] /\ snapshot'[v] = snapshot[v]
      /\ UNCHANGED <<status, attempts, lockedAt>>
  BY DEF Crash, Regime, Base, TypeOK, table
<1>2. ExclusiveClaim'
  BY <1>1 DEF Regime, ExclusiveClaim
<1>3. OldIsOrphaned'
  BY <1>1 DEF Regime, OldIsOrphaned, Holders
<1> QED
  BY <1>2, <1>3 DEF Regime

LEMMA QuietRegime ==
  ASSUME Regime, Base', UNCHANGED <<attempts, lockedAt, batch, snapshot>>,
         \A r \in Row : status[r] # "absent" => status'[r] = status[r]
  PROVE  Regime'
<1>1. ExclusiveClaim'
  BY DEF Regime, Base, TypeOK, ExclusiveClaim
<1>2. OldIsOrphaned'
  BY DEF Regime, OldIsOrphaned, Holders
<1> QED
  BY <1>1, <1>2 DEF Regime

(* MarkForRetry writes one of two statuses; which one decides nothing here.  *)
LEMMA OutcomeRegime ==
  ASSUME Regime, Base', NEW w \in Worker,
         Complete(w) \/ MarkForRetry(w) \/ Defer(w)
  PROVE  Regime'
<1>1. phase[w] # "idle" /\ Release(w)
  BY DEF Complete, MarkDone, MarkForRetry, Defer
<1>2. lockedAt' = [lockedAt EXCEPT ![current[w]] = "null"]
  BY DEF Complete, MarkForRetry, Defer, MarkDone
<1>3. \A r \in Row : r # current[w] => attempts'[r] = attempts[r]
  BY DEF Complete, MarkForRetry, Defer, MarkDone, Regime, Base, TypeOK
<1>4. PICK s \in Status : status' = [status EXCEPT ![current[w]] = s]
  BY DEF Complete, MarkForRetry, Defer, MarkDone, Status
<1> QED
  BY <1>1, <1>2, <1>3, <1>4, ReleaseRegime

LEMMA NextRegime ==
  ASSUME Fault = {}, Regime, [Next]_vars PROVE Regime'
<1>1. Base'
  BY NextBase DEF Regime
<1>2. ASSUME NEW S \in SUBSET Row, Enqueue(S) PROVE Regime'
  BY <1>1, <1>2, QuietRegime DEF Enqueue, worker, Regime, Base, TypeOK
<1>3. ASSUME NEW r \in Row, Age(r) PROVE Regime'
  BY <1>1, <1>3, AgeRegime
<1>4. ASSUME NEW r \in Row, BackoffElapses(r) PROVE Regime'
  BY <1>1, <1>4, QuietRegime DEF BackoffElapses, worker
<1>5. ASSUME NEW w \in Worker, WorkerStep(w) PROVE Regime'
  <2>1. ASSUME NEW r \in Row, Start(w, r) PROVE Regime'
    BY <1>1, <2>1, QuietRegime DEF Start, table
  <2>2. CASE CommitInside(w) \/ Raise(w) \/ RateLimited(w)
    BY <1>1, <2>2, QuietRegime DEF CommitInside, Raise, RateLimited, table
  <2>3. ~LoseAck(w)
    BY DEF LoseAck
  <2>4. CASE Complete(w) \/ MarkForRetry(w) \/ Defer(w)
    BY <1>1, <2>4, OutcomeRegime
  <2>5. CASE Claim(w)
    BY <1>1, <2>5, ClaimRegime
  <2>6. CASE Sweep(w)
    BY <1>1, <2>6, SweepRegime
  <2>7. CASE Crash(w)
    BY <1>1, <2>7, CrashRegime
  <2> QED
    BY <1>5, <2>1, <2>2, <2>3, <2>4, <2>5, <2>6, <2>7 DEF WorkerStep
<1>6. CASE Poll \/ UNCHANGED vars
  BY <1>1, <1>6, QuietRegime DEF Poll, vars, table, worker
<1> QED
  BY <1>2, <1>3, <1>4, <1>5, <1>6 DEF Next

LEMMA RegimeInvariant == ASSUME Fault = {} PROVE Safety => []Regime
<1>1. Init => Regime
  <2> SUFFICES ASSUME Init PROVE Regime
    OBVIOUS
  <2>1. ExclusiveClaim /\ OldIsOrphaned
    BY DEF Init, ExclusiveClaim, OldIsOrphaned
  <2> QED
    BY <2>1, InitBase DEF Regime
<1>2. Regime /\ [Next]_vars => Regime'
  BY NextRegime
<1> QED
  BY <1>1, <1>2, PTL DEF Safety

(* In the documented regime a claimed row belongs to one worker, whose copy *)
(* of the attempt count is current.                                        *)
THEOREM ClaimsAreExclusive == ASSUME Fault = {} PROVE Safety => []ExclusiveClaim
  BY RegimeInvariant, PTL DEF Regime
-------------------------------------------------------------------------------
(***************************************************************************)
(* What a discover_band row may have committed: no more passes than its    *)
(* attempts, fewer while a worker has one of them still to come.           *)
(***************************************************************************)
Passes ==
  /\ \A r \in Committing : applied[r] <= attempts[r]
  /\ \A w \in Worker : \A r \in batch[w] \cap Committing :
       \/ applied[r] < attempts[r]
       \/ r = current[w] /\ phase[w] \in {"committed", "failing"}
  /\ \A w \in Worker : phase[w] = "committed" =>
       current[w] \in Committing /\ applied[current[w]] > 0

LEMMA ClaimPasses ==
  ASSUME Regime, Passes, NEW w \in Worker, Claim(w) PROVE Passes'
<1> USE DEF Regime, Base
<1>1. PICK S \in SUBSET Row :
        /\ attempts' = [r \in Row |-> IF r \in S THEN attempts[r] + 1
                                                ELSE attempts[r]]
        /\ batch' = [batch EXCEPT ![w] = S]
  BY DEF Claim, FirstInLine
<1>2. UNCHANGED <<current, phase, applied>>
  BY DEF Claim
<1>3. \A r \in Committing : r \in Row /\ attempts[r] \in Nat /\ applied[r] \in Nat
  BY ConstantsAssumption DEF TypeOK
<1>4. \A r \in Committing : applied[r] <= attempts'[r]
  BY <1>1, <1>3 DEF Passes
<1>5. ASSUME NEW v \in Worker, NEW r \in batch'[v] \cap Committing
      PROVE  \/ applied[r] < attempts'[r]
             \/ r = current[v] /\ phase[v] \in {"committed", "failing"}
  <2>1. CASE r \in S
    BY <1>1, <1>3, <2>1 DEF Passes
  <2>2. CASE r \notin S
    <3>1. r \in batch[v] /\ attempts'[r] = attempts[r]
      BY <1>1, <1>3, <2>2 DEF TypeOK
    <3> QED
      BY <3>1 DEF Passes
  <2> QED
    BY <2>1, <2>2
<1> QED
  BY <1>2, <1>4, <1>5 DEF Passes

LEMMA CommitPasses ==
  ASSUME Regime, Passes, NEW w \in Worker, CommitInside(w) PROVE Passes'
<1> USE DEF Regime, Base
<1> DEFINE c == current[w]
<1>1. c \in batch[w] /\ c \in Row /\ c \in Committing
  BY HandFacts DEF CommitInside
<1>2. /\ phase[w] = "handling" /\ phase' = [phase EXCEPT ![w] = "committed"]
      /\ applied' = [applied EXCEPT ![c] = applied[c] + 1]
      /\ UNCHANGED <<attempts, batch, current>>
  BY DEF CommitInside, Apply, table
<1>3. \A v \in Worker : v # w => c \notin batch[v] /\ phase'[v] = phase[v]
  BY <1>1, <1>2 DEF ExclusiveClaim, TypeOK
<1>4. applied[c] < attempts[c] /\ applied[c] \in Nat /\ attempts[c] \in Nat
  BY <1>1, <1>2, ConstantsAssumption DEF Passes, TypeOK
<1>5. phase'[w] = "committed" /\ applied'[c] = applied[c] + 1
      /\ \A r \in Row : r # c => applied'[r] = applied[r]
  BY <1>1, <1>2 DEF TypeOK
<1> HIDE DEF c
<1>6. \A r \in Committing : applied'[r] <= attempts[r]
  BY <1>4, <1>5, ConstantsAssumption DEF Passes
<1>7. ASSUME NEW v \in Worker, NEW r \in batch[v] \cap Committing
      PROVE  \/ applied'[r] < attempts[r]
             \/ r = current[v] /\ phase'[v] \in {"committed", "failing"}
  <2>1. CASE r = c
    BY <1>3, <1>5, <2>1 DEF c
  <2>2. CASE r # c
    <3>1. applied'[r] = applied[r]
      BY <1>5, <2>2, ConstantsAssumption
    <3>2. CASE v = w
      BY <1>2, <2>2, <3>1, <3>2 DEF Passes, c
    <3>3. CASE v # w
      BY <1>3, <3>1, <3>3 DEF Passes
    <3> QED
      BY <3>2, <3>3
  <2> QED
    BY <2>1, <2>2
<1>8. ASSUME NEW v \in Worker, phase'[v] = "committed"
      PROVE  current[v] \in Committing /\ applied'[current[v]] > 0
  <2>1. CASE v = w
    BY <1>1, <1>4, <1>5, <2>1 DEF c
  <2>2. CASE v # w
    <3>1. current[v] \in Committing /\ applied[current[v]] > 0
      BY <1>3, <1>8, <2>2 DEF Passes
    <3>2. applied'[current[v]] = applied[current[v]] \/ current[v] = c
      BY <1>5, <3>1, ConstantsAssumption
    <3> QED
      BY <1>4, <1>5, <3>1, <3>2
  <2> QED
    BY <2>1, <2>2
<1> QED
  BY <1>2, <1>6, <1>7, <1>8 DEF Passes

(* An outcome or a crash takes claims away from one worker, and what it     *)
(* applies belongs to no discover_band row.                                *)
LEMMA LetGoPasses ==
  ASSUME Regime, Passes, NEW w \in Worker,
         NEW T \in SUBSET (batch[w] \ {current[w]}),
         batch' = [batch EXCEPT ![w] = T],
         current' = [current EXCEPT ![w] = None],
         phase' = [phase EXCEPT ![w] = "idle"],
         attempts' = attempts,
         \A r \in Committing : applied'[r] = applied[r]
  PROVE  Passes'
<1> USE DEF Regime, Base
<1>1. \A v \in Worker : v # w => /\ batch'[v] = batch[v]
                                 /\ current'[v] = current[v] /\ phase'[v] = phase[v]
  BY DEF TypeOK
<1>2. batch'[w] = T /\ phase'[w] = "idle"
  BY DEF TypeOK
<1>3. \A r \in Committing : applied'[r] <= attempts'[r]
  BY DEF Passes
<1>4. ASSUME NEW v \in Worker, NEW r \in batch'[v] \cap Committing
      PROVE  \/ applied'[r] < attempts'[r]
             \/ r = current'[v] /\ phase'[v] \in {"committed", "failing"}
  <2>1. CASE v = w
    BY <1>2, <2>1 DEF Passes
  <2>2. CASE v # w
    BY <1>1, <2>2 DEF Passes
  <2> QED
    BY <2>1, <2>2
<1>5. \A v \in Worker : phase'[v] = "committed" =>
        current'[v] \in Committing /\ applied'[current'[v]] > 0
  BY <1>1, <1>2 DEF Passes
<1> QED
  BY <1>3, <1>4, <1>5 DEF Passes

(* A deferral gives back an attempt that has committed nothing.             *)
LEMMA DeferPasses ==
  ASSUME Regime, Passes, NEW w \in Worker, Defer(w) PROVE Passes'
<1> USE DEF Regime, Base
<1> DEFINE c == current[w]
<1>1. c \in batch[w] /\ c \in Row
  BY HandFacts DEF Defer
<1>2. /\ phase[w] = "deferring" /\ applied' = applied
      /\ attempts' = [attempts EXCEPT ![c] = attempts[c] - 1]
      /\ batch' = [batch EXCEPT ![w] = batch[w] \ {c}]
      /\ phase' = [phase EXCEPT ![w] = "idle"]
      /\ current' = [current EXCEPT ![w] = None]
  BY DEF Defer, Release
<1>3. \A v \in Worker : v # w => /\ c \notin batch[v] /\ batch'[v] = batch[v]
                                 /\ current'[v] = current[v] /\ phase'[v] = phase[v]
  BY <1>1, <1>2 DEF ExclusiveClaim, TypeOK
<1>4. batch'[w] = batch[w] \ {c} /\ phase'[w] = "idle"
  BY <1>2 DEF TypeOK
<1>5. attempts'[c] = attempts[c] - 1
      /\ \A r \in Row : r # c => attempts'[r] = attempts[r]
  BY <1>1, <1>2 DEF TypeOK
<1>6. \A r \in Committing : r \in Row /\ applied[r] \in Nat /\ attempts[r] \in Nat
  BY ConstantsAssumption DEF TypeOK
<1>7. c \in Committing => applied[c] < attempts[c]
  BY <1>1, <1>2 DEF Passes
<1>8. \A v \in Worker : \A r \in batch'[v] : r # c /\ r \in batch[v]
  BY <1>3, <1>4
<1> HIDE DEF c
<1>9. \A r \in Committing : applied[r] <= attempts'[r]
  BY <1>5, <1>6, <1>7 DEF Passes
<1>10. ASSUME NEW v \in Worker, NEW r \in batch'[v] \cap Committing
       PROVE  \/ applied[r] < attempts'[r]
              \/ r = current'[v] /\ phase'[v] \in {"committed", "failing"}
  <2>1. attempts'[r] = attempts[r] /\ r \in batch[v] /\ r # c
    BY <1>5, <1>6, <1>8
  <2>2. CASE v = w
    BY <2>1, <2>2 DEF Passes, c
  <2>3. CASE v # w
    BY <1>3, <2>1, <2>3 DEF Passes
  <2> QED
    BY <2>2, <2>3
<1>11. \A v \in Worker : phase'[v] = "committed" =>
         current'[v] \in Committing /\ applied[current'[v]] > 0
  BY <1>3, <1>4 DEF Passes
<1> QED
  BY <1>2, <1>9, <1>10, <1>11 DEF Passes

LEMMA StepPasses ==
  ASSUME Fault = {}, Regime, Passes, [Next]_vars PROVE Passes'
<1> USE DEF Regime, Base
<1>1. ASSUME UNCHANGED <<attempts, batch, current, phase, applied>> PROVE Passes'
  BY <1>1 DEF Passes
<1>2. ASSUME NEW w \in Worker, WorkerStep(w) PROVE Passes'
  <2>1. CASE Claim(w)
    BY <2>1, ClaimPasses
  <2>2. ASSUME NEW r \in Row, Start(w, r) PROVE Passes'
    <3>1. /\ phase[w] = "idle" /\ current[w] = None
          /\ phase' = [phase EXCEPT ![w] = "handling"]
          /\ current' = [current EXCEPT ![w] = r]
          /\ UNCHANGED <<attempts, batch, applied>>
      BY <2>2 DEF Start, InHand, table
    <3>2. \A v \in Worker : IF v = w THEN phase'[v] = "handling"
                            ELSE phase'[v] = phase[v] /\ current'[v] = current[v]
      BY <3>1 DEF TypeOK
    <3> QED
      BY <3>1, <3>2, ConstantsAssumption DEF Passes
  <2>3. CASE CommitInside(w)
    BY <2>3, CommitPasses
  <2>4. CASE Raise(w) \/ RateLimited(w)
    <3>1. PICK s \in {"failing", "deferring"} : phase' = [phase EXCEPT ![w] = s]
      BY <2>4 DEF Raise, RateLimited
    <3>2. /\ UNCHANGED <<attempts, batch, current, applied>>
          /\ s = "failing" \/ phase[w] = "handling"
      BY <2>4, <3>1 DEF Raise, RateLimited, table, TypeOK
    <3>3. \A v \in Worker : phase'[v] = IF v = w THEN s ELSE phase[v]
      BY <3>1 DEF TypeOK
    <3> QED
      BY <3>2, <3>3 DEF Passes
  <2>5. ~LoseAck(w)
    BY DEF LoseAck
  <2>6. CASE Complete(w) \/ MarkForRetry(w)
    <3> DEFINE T == batch[w] \ {current[w]}
    <3>1. Release(w) /\ attempts' = attempts
      BY <2>6 DEF Complete, MarkDone, MarkForRetry
    <3>2. \A r \in Committing : applied'[r] = applied[r]
      <4>1. \/ applied' = applied
            \/ /\ current[w] \notin Committing
               /\ applied' = [applied EXCEPT ![current[w]] = applied[current[w]] + 1]
        BY <2>6 DEF Complete, MarkDone, MarkForRetry, Apply
      <4> QED
        BY <4>1, ConstantsAssumption DEF TypeOK
    <3>3. /\ batch' = [batch EXCEPT ![w] = T]
          /\ current' = [current EXCEPT ![w] = None]
          /\ phase' = [phase EXCEPT ![w] = "idle"]
      BY <3>1 DEF Release
    <3>4. T \in SUBSET (batch[w] \ {current[w]})
      OBVIOUS
    <3> HIDE DEF T
    <3> QED
      BY <3>1, <3>2, <3>3, <3>4, LetGoPasses
  <2>7. CASE Defer(w)
    BY <2>7, DeferPasses
  <2>8. CASE Sweep(w)
    BY <1>1, <2>8 DEF Sweep, worker
  <2>9. CASE Crash(w)
    <3>1. /\ batch' = [batch EXCEPT ![w] = {}]
          /\ current' = [current EXCEPT ![w] = None]
          /\ phase' = [phase EXCEPT ![w] = "idle"]
          /\ attempts' = attempts /\ applied' = applied
      BY <2>9 DEF Crash, table
    <3> QED
      BY <3>1, LetGoPasses
  <2> QED
    BY <1>2, <2>1, <2>2, <2>3, <2>4, <2>5, <2>6, <2>7, <2>8, <2>9 DEF WorkerStep
<1>3. CASE Next
  <2>1. ASSUME NEW S \in SUBSET Row, Enqueue(S) PROVE Passes'
    BY <1>1, <2>1 DEF Enqueue, worker
  <2>2. ASSUME NEW r \in Row, Age(r) \/ BackoffElapses(r) PROVE Passes'
    BY <1>1, <2>2 DEF Age, BackoffElapses, worker
  <2>3. CASE Poll
    BY <1>1, <2>3 DEF Poll, vars, table, worker
  <2> QED
    BY <1>2, <1>3, <2>1, <2>2, <2>3 DEF Next
<1>4. CASE UNCHANGED vars
  BY <1>1, <1>4 DEF vars, table, worker
<1> QED
  BY <1>3, <1>4
-------------------------------------------------------------------------------
(***************************************************************************)
(* What a step can do to the status and the effects of a row: the five      *)
(* ways below, and no other.  Refinement and finality follow from it.      *)
(***************************************************************************)
Owed(r) == status[r] \in {"pending", "processing"}

Submits(S)  == /\ S # {}
               /\ \A r \in S : status[r] = "absent"
               /\ status' = [r \in Row |-> IF r \in S THEN "pending" ELSE status[r]]
               /\ UNCHANGED <<applied, charged>>
Commits(r)  == /\ r \in Committing
               /\ status[r] = "processing"
               /\ UNCHANGED status
               /\ Apply(r)
Finishes(r) == /\ status[r] = "processing"
               /\ status' = [status EXCEPT ![r] = "done"]
               /\ IF r \in Committing THEN applied[r] > 0 /\ UNCHANGED applied
                                      ELSE Apply(r)
Abandons(S) == /\ S # {}
               /\ \A r \in S : Owed(r)
               /\ status' \in [Row -> Status]
               /\ \A r \in S : /\ status'[r] = "failed"
                               /\ charged'[r] = MaxAttempts
               /\ \A r \in Row \ S : IF Owed(r) THEN Owed(r)'
                                                 ELSE status'[r] = status[r]
               /\ UNCHANGED applied
Toils       == /\ status' \in [Row -> Status]
               /\ \A r \in Row : IF Owed(r) THEN Owed(r)'
                                            ELSE status'[r] = status[r]
               /\ UNCHANGED applied

LEMMA RetryEffect ==
  ASSUME Regime, Base', NEW w \in Worker, MarkForRetry(w)
  PROVE  Toils \/ Abandons({current[w]})
<1>1. /\ current[w] \in Row /\ status[current[w]] = "processing"
      /\ snapshot[w][current[w]] = attempts[current[w]]
      /\ attempts[current[w]] = charged[current[w]] + 1
  BY HandFacts DEF MarkForRetry
<1>2. UNCHANGED applied /\ status' \in [Row -> Status]
  BY DEF MarkForRetry, Base, TypeOK
<1>3. CASE Exhausted(w)
  <2>1. status' = [status EXCEPT ![current[w]] = "failed"]
    BY <1>3 DEF MarkForRetry
  <2>2. charged'[current[w]] = charged[current[w]] + 1
    BY <1>1 DEF MarkForRetry, Charge, Regime, Base, TypeOK
  <2>3. attempts[current[w]] = MaxAttempts
    <3>1. attempts[current[w]] >= MaxAttempts
      BY <1>1, <1>3 DEF Exhausted
    <3>2. attempts[current[w]] \in 0 .. MaxAttempts /\ MaxAttempts \in Nat
      BY <1>1, ConstantsAssumption DEF Regime, Base, TypeOK
    <3> QED
      BY <3>1, <3>2
  <2> QED
    BY <1>1, <1>2, <2>1, <2>2, <2>3 DEF Abandons, Owed, Regime, Base, TypeOK
<1>4. CASE ~Exhausted(w)
  <2>1. status' = [status EXCEPT ![current[w]] = "pending"]
    BY <1>4 DEF MarkForRetry
  <2> QED
    BY <1>1, <1>2, <2>1 DEF Toils, Owed, Regime, Base, TypeOK
<1> QED
  BY <1>3, <1>4

LEMMA SweepEffect ==
  ASSUME Regime, Base', NEW w \in Worker, Sweep(w)
  PROVE  Toils \/ Abandons(Spent(Stuck))
<1>1. /\ status' = [r \in Row |-> IF r \in Spent(Stuck) THEN "failed"
                                 ELSE IF r \in Stuck THEN "pending"
                                 ELSE status[r]]
      /\ UNCHANGED <<applied, charged>>
      /\ status' \in [Row -> Status]
  BY DEF Sweep, Base, TypeOK
<1>2. Stuck \subseteq Row /\ \A r \in Stuck : Owed(r)
  BY DEF Stuck, Owed
<1>3. \A r \in Spent(Stuck) : r \in Row /\ Owed(r)
  BY <1>2 DEF Spent, Owed
<1>4. ASSUME NEW r \in Spent(Stuck) PROVE charged[r] = MaxAttempts
  <2>1. r \in Row /\ Holders(r) = {}
    BY SweptUnheld
  <2>2. Cardinality(Holders(r)) = 0
    BY <2>1, FS_EmptySet
  <2>3. attempts[r] = charged[r] + Cardinality(Holders(r))
    BY <2>1 DEF Regime, Base, AttemptsAccounted
  <2>4. /\ attempts[r] \in 0 .. MaxAttempts /\ MaxAttempts \in Nat
        /\ charged[r] \in Nat
    BY <2>1, ConstantsAssumption DEF Regime, Base, TypeOK
  <2>5. attempts[r] >= MaxAttempts
    BY DEF Spent
  <2> QED
    BY <2>2, <2>3, <2>4, <2>5
<1>5. CASE Spent(Stuck) = {}
  BY <1>1, <1>2, <1>5 DEF Toils, Owed
<1>6. CASE Spent(Stuck) # {}
  BY <1>1, <1>2, <1>3, <1>4, <1>6 DEF Abandons, Owed
<1> QED
  BY <1>5, <1>6

LEMMA StepEffect ==
  ASSUME Fault = {}, Regime, Passes, [Next]_vars
  PROVE  \/ \E r \in Row : Commits(r) \/ Finishes(r)
         \/ \E S \in SUBSET Row : Submits(S) \/ Abandons(S)
         \/ Toils
<1>1. Base'
  BY NextBase DEF Regime
<1> USE DEF Regime, Base
<1>2. ASSUME NEW S \in SUBSET Row, Enqueue(S) PROVE Submits(S)
  BY <1>2 DEF Enqueue, Submits
<1>3. ASSUME UNCHANGED <<status, applied>> PROVE Toils
  BY <1>3 DEF Toils, Owed, TypeOK
<1>4. ASSUME NEW r \in Row, Age(r) \/ BackoffElapses(r) PROVE Toils
  BY <1>3, <1>4 DEF Age, BackoffElapses
<1>5. ASSUME NEW w \in Worker, WorkerStep(w)
      PROVE  \/ \E r \in Row : Commits(r) \/ Finishes(r)
             \/ \E S \in SUBSET Row : Abandons(S)
             \/ Toils
  <2>1. CASE Raise(w) \/ RateLimited(w) \/ Crash(w) \/ \E r \in Row : Start(w, r)
    BY <1>3, <2>1 DEF Raise, RateLimited, Crash, Start, table
  <2>2. ~LoseAck(w)
    BY DEF LoseAck
  <2>3. CASE Claim(w)
    <3>1. PICK S \in SUBSET Row :
            /\ S \subseteq Claimable
            /\ status' = [r \in Row |-> IF r \in S THEN "processing" ELSE status[r]]
      BY <2>3 DEF Claim, FirstInLine
    <3>2. UNCHANGED applied
      BY <2>3 DEF Claim
    <3> QED
      BY <1>1, <3>1, <3>2 DEF Toils, Owed, Claimable, TypeOK
  <2>4. CASE CommitInside(w) \/ Complete(w)
    <3>1. status[current[w]] = "processing" /\ current[w] \in Row
      BY <2>4, HandFacts DEF CommitInside, Complete, MarkDone
    <3>2. ASSUME CommitInside(w) PROVE Commits(current[w])
      BY <3>1, <3>2 DEF CommitInside, Commits, table
    <3>3. ASSUME Complete(w) PROVE Finishes(current[w])
      BY <3>1, <3>3 DEF Complete, MarkDone, Finishes, Passes
    <3> QED
      BY <2>4, <3>1, <3>2, <3>3
  <2>5. CASE MarkForRetry(w)
    BY <1>1, <2>5, RetryEffect, HandFacts DEF MarkForRetry
  <2>6. CASE Defer(w)
    <3>1. status[current[w]] = "processing" /\ current[w] \in Row
      BY <2>6, HandFacts DEF Defer
    <3> QED
      BY <1>1, <2>6, <3>1 DEF Defer, Toils, Owed, TypeOK
  <2>7. CASE Sweep(w)
    <3>1. Spent(Stuck) \in SUBSET Row
      BY DEF Spent
    <3> QED
      BY <1>1, <2>7, <3>1, SweepEffect
  <2> QED
    BY <1>5, <2>1, <2>2, <2>3, <2>4, <2>5, <2>6, <2>7 DEF WorkerStep
<1>6. CASE Poll \/ UNCHANGED vars
  BY <1>3, <1>6 DEF Poll, vars, table
<1> QED
  BY <1>2, <1>4, <1>5, <1>6 DEF Next

(***************************************************************************)
(* The outcomes: what is done was applied once, nothing else was, except by *)
(* discover_band, and what is dead spent every attempt.                    *)
(***************************************************************************)
Outcomes == Passes /\ ExactlyOnce /\ DeadLetterIsSpent

LEMMA StepOutcomes ==
  ASSUME Fault = {}, Regime, Outcomes, [Next]_vars
  PROVE  Outcomes'
<1>1. Base'
  BY NextBase DEF Regime
<1> USE DEF Regime, Base, Outcomes
<1>2. \A r \in Row : status[r] = "failed" /\ status'[r] = "failed"
        => charged'[r] = charged[r]
  <2> SUFFICES ASSUME NEW r \in Row, status[r] = "failed"
               PROVE  charged'[r] = charged[r]
    OBVIOUS
  <2>1. \A w \in Worker : r \notin batch[w]
    BY DEF ExclusiveClaim
  <2>2. ASSUME NEW w \in Worker, phase[w] # "idle", Charge(current[w])
        PROVE  charged'[r] = charged[r]
    BY <2>1, <2>2, HandFacts DEF Charge, TypeOK
  <2>3. ASSUME NEW w \in Worker, WorkerStep(w)
        PROVE  charged'[r] = charged[r]
    BY <2>1, <2>2, <2>3
    DEF WorkerStep, Claim, Start, CommitInside, Complete, MarkDone, Raise, LoseAck,
        RateLimited, MarkForRetry, Defer, Sweep, Crash
  <2> QED
    BY <2>3 DEF Next, Enqueue, Age, BackoffElapses, Poll, vars
<1>3. Passes'
  BY StepPasses
<1>4. ASSUME (\A r \in Row \ Committing : applied'[r] = IF status'[r] = "done" THEN 1 ELSE 0),
             \A r \in Committing : status'[r] = "done" => applied'[r] > 0
      PROVE  ExactlyOnce'
  BY <1>3, <1>4 DEF Passes, ExactlyOnce
<1>5. ASSUME NEW S \in SUBSET Row, Submits(S) PROVE Outcomes'
  <2>1. ExactlyOnce'
    BY <1>4, <1>5, ConstantsAssumption DEF Submits, ExactlyOnce
  <2>2. DeadLetterIsSpent'
    BY <1>5 DEF Submits, DeadLetterIsSpent, TypeOK
  <2> QED
    BY <1>3, <2>1, <2>2
<1>6. ASSUME NEW r \in Row, Commits(r) PROVE Outcomes'
  <2>1. \A q \in Row \ Committing : applied'[q] = applied[q]
    BY <1>6 DEF Commits, Apply, TypeOK
  <2>2. \A q \in Committing : status[q] = "done" => q # r /\ applied'[q] = applied[q]
    BY <1>6, ConstantsAssumption DEF Commits, Apply, TypeOK
  <2>3. ExactlyOnce'
    BY <1>4, <1>6, <2>1, <2>2, ConstantsAssumption DEF Commits, ExactlyOnce
  <2>4. DeadLetterIsSpent'
    BY <1>2, <1>6 DEF Commits, DeadLetterIsSpent
  <2> QED
    BY <1>3, <2>3, <2>4
<1>7. ASSUME NEW r \in Row, Finishes(r) PROVE Outcomes'
  <2>1. \A q \in Row : status'[q] = IF q = r THEN "done" ELSE status[q]
    BY <1>7 DEF Finishes, TypeOK
  <2>2. \A q \in Row : q # r => applied'[q] = applied[q]
    BY <1>7 DEF Finishes, Apply, TypeOK
  <2>3. CASE r \in Committing
    <3>1. applied'[r] > 0
      BY <1>7, <2>3 DEF Finishes
    <3> QED
      <4>1. ExactlyOnce'
        BY <1>4, <2>1, <2>2, <2>3, <3>1, ConstantsAssumption DEF ExactlyOnce
      <4>2. DeadLetterIsSpent'
        BY <1>2, <2>1 DEF DeadLetterIsSpent
      <4> QED
        BY <1>3, <4>1, <4>2
  <2>4. CASE r \notin Committing
    <3>1. applied[r] = 0
      BY <1>7, <2>4 DEF Finishes, ExactlyOnce
    <3>2. applied'[r] = 1
      BY <1>7, <2>4, <3>1 DEF Finishes, Apply, TypeOK
    <3> QED
      <4>1. ExactlyOnce'
        BY <1>4, <2>1, <2>2, <2>4, <3>2, ConstantsAssumption DEF ExactlyOnce
      <4>2. DeadLetterIsSpent'
        BY <1>2, <2>1 DEF DeadLetterIsSpent
      <4> QED
        BY <1>3, <4>1, <4>2
  <2> QED
    BY <2>3, <2>4
<1>8. ASSUME NEW S \in SUBSET Row, Abandons(S) PROVE Outcomes'
  <2>1. ExactlyOnce'
    BY <1>4, <1>8, ConstantsAssumption DEF Abandons, Owed, ExactlyOnce
  <2>2. DeadLetterIsSpent'
    <3> SUFFICES ASSUME NEW r \in Row, status'[r] = "failed"
                 PROVE  charged'[r] = MaxAttempts
      BY DEF DeadLetterIsSpent
    <3>1. CASE r \in S
      BY <1>8, <3>1 DEF Abandons
    <3>2. CASE r \notin S
      <4>1. status[r] = "failed"
        BY <1>8, <3>2 DEF Abandons, Owed
      <4> QED
        BY <1>2, <4>1 DEF DeadLetterIsSpent
    <3> QED
      BY <3>1, <3>2
  <2> QED
    BY <1>3, <2>1, <2>2
<1>9. CASE Toils
  <2>1. ExactlyOnce'
    BY <1>4, <1>9, ConstantsAssumption DEF Toils, Owed, ExactlyOnce
  <2>2. DeadLetterIsSpent'
    BY <1>2, <1>9 DEF Toils, Owed, DeadLetterIsSpent
  <2> QED
    BY <1>3, <2>1, <2>2
<1> QED
  BY <1>5, <1>6, <1>7, <1>8, <1>9, StepEffect

LEMMA OutcomesInvariant == ASSUME Fault = {} PROVE Safety => [](Regime /\ Outcomes)
<1>1. Init => Outcomes
  BY ConstantsAssumption DEF Init, Outcomes, Passes, ExactlyOnce, DeadLetterIsSpent
<1>2. Regime /\ Outcomes /\ [Next]_vars => Outcomes'
  BY StepOutcomes
<1> QED
  BY <1>1, <1>2, RegimeInvariant, PTL DEF Safety

(* In the documented regime a row's work is committed once if the row is   *)
(* done and not at all otherwise; that of a discover_band row, which is    *)
(* committed apart, at most once for each attempt and at least once if the *)
(* row is done.                                                            *)
THEOREM AppliedExactlyOnce == ASSUME Fault = {} PROVE Safety => []ExactlyOnce
  BY OutcomesInvariant, PTL DEF Outcomes

(* In the documented regime a row is dead-lettered only after max_attempts *)
(* claims of it raised or died with their worker.                          *)
THEOREM DeadLettersAreSpent == ASSUME Fault = {} PROVE Safety => []DeadLetterIsSpent
  BY OutcomesInvariant, PTL DEF Outcomes

(* In the documented regime done and failed are final.                     *)
THEOREM SettledRowsStay == ASSUME Fault = {} PROVE Safety => SettledIsFinal
<1>1. Regime /\ Outcomes /\ [Next]_vars =>
        [\A r \in Row : status[r] \in Settled => status'[r] = status[r]]_vars
  <2> SUFFICES ASSUME Regime, Outcomes, [Next]_vars,
                      NEW r \in Row, status[r] \in Settled
               PROVE  status'[r] = status[r]
    OBVIOUS
  <2> QED
    BY StepEffect
    DEF Submits, Commits, Finishes, Abandons, Toils, Owed, Settled,
        Regime, Base, TypeOK, Outcomes
<1> QED
  BY <1>1, OutcomesInvariant, PTL DEF Safety, SettledIsFinal
-------------------------------------------------------------------------------
(***************************************************************************)
(* EventQueue implements WorkList.                                         *)
(***************************************************************************)
LEMMA InitImplements == Init => Work!Init
  BY DEF Init, Work!Init, Stage

LEMMA StepImplements ==
  ASSUME Fault = {}, Regime, Outcomes, [Next]_vars
  PROVE  [Work!Next]_(Work!vars)
<1>1. Base'
  BY NextBase DEF Regime
<1> USE DEF Regime, Base
<1>2. ASSUME NEW S \in SUBSET Row, Submits(S) PROVE Work!Submit(S)
  BY <1>1, <1>2 DEF Submits, Work!Submit, Stage, TypeOK
<1>3. ASSUME NEW r \in Row, Commits(r) PROVE Work!Part(r)
  BY <1>3 DEF Commits, Apply, Work!Part, Stage
<1>4. ASSUME NEW r \in Row, Finishes(r) PROVE Work!Finish(r)
  <2>1. /\ status[r] = "processing"
        /\ status' = [status EXCEPT ![r] = "done"]
        /\ IF r \in Committing THEN applied[r] > 0 /\ UNCHANGED applied
                               ELSE applied' = [applied EXCEPT ![r] = @ + 1]
    BY <1>4 DEF Finishes, Apply
  <2> QED
    BY <2>1 DEF Work!Finish, Stage, TypeOK
<1>5. ASSUME NEW S \in SUBSET Row, Abandons(S) PROVE Work!Abandon(S)
  BY <1>1, <1>5 DEF Abandons, Work!Abandon, Owed, Stage, TypeOK, Status
<1>6. CASE Toils
  BY <1>1, <1>6 DEF Toils, Work!vars, Owed, Stage, TypeOK, Status
<1>7. Passes
  BY DEF Outcomes
<1> QED
  BY <1>2, <1>3, <1>4, <1>5, <1>6, <1>7, StepEffect DEF Work!Next

(* In the documented regime every behaviour of the queue is one of the work *)
(* list: claims, retries, deferrals, crashes and reaps stutter, and what   *)
(* discover_band commits before its row is marked done is a part of it.    *)
THEOREM QueueImplementsWorkList == ASSUME Fault = {} PROVE Safety => Work!Safety
<1>1. Init => Work!Init
  BY InitImplements
<1>2. Regime /\ Outcomes /\ [Next]_vars => [Work!Next]_(Work!vars)
  BY StepImplements
<1> QED
  BY <1>1, <1>2, OutcomesInvariant, PTL DEF Safety, Work!Safety
===============================================================================
