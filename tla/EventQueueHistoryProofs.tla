------------------------ MODULE EventQueueHistoryProofs ------------------------
(***************************************************************************)
(* Proofs about the order of service, for any finite number of rows and of *)
(* workers, any ranks, any batch size and under every fault.               *)
(***************************************************************************)
EXTENDS EventQueueHistory, EventQueueProofs

(* The rows that may yet be started before r although they rank behind it. *)
Load(r) ==
  {p \in Worker \X Row : /\ p[2] \in batch[p[1]] /\ p[2] # current[p[1]]
                         /\ Rank[p[2]] > Rank[r]}

(* Every start that overtakes r takes one row out of r's load.             *)
Spare ==
  \A r \in Row :
    IF r \in Claimable THEN overtaken[r] + Cardinality(Load(r)) <= InFlightBound
                       ELSE overtaken[r] = 0

SmallBatches ==
  \A w \in Worker : IsFiniteSet(batch[w]) /\ Cardinality(batch[w]) <= BatchSize

Served == /\ Base /\ SmallBatches /\ Spare
          /\ overtaken \in [Row -> Nat]
-------------------------------------------------------------------------------
LEMMA BoundIsNat ==
  /\ IsFiniteSet(Worker) /\ BatchSize \in Nat
  /\ IsFiniteSet(1 .. BatchSize) /\ Cardinality(1 .. BatchSize) = BatchSize
  /\ InFlightBound \in Nat
<1>1. IsFiniteSet(Worker) /\ BatchSize \in Nat
  BY ConstantsAssumption
<1>2. IsFiniteSet(1 .. BatchSize) /\ Cardinality(1 .. BatchSize) = BatchSize
  BY <1>1, FS_Interval
<1>3. Cardinality(Worker) \in Nat
  BY <1>1, FS_CardinalityType
<1>4. IsFiniteSet(Worker \X (1 .. BatchSize))
      /\ Cardinality(Worker \X (1 .. BatchSize)) = Cardinality(Worker) * BatchSize
  BY <1>1, <1>2, FS_Product
<1>5. Cardinality(Worker) * BatchSize \in Nat
  BY <1>4, FS_CardinalityType
<1> QED
  BY <1>1, <1>2, <1>5 DEF InFlightBound

(* The rows of a small batch can be numbered.                              *)
LEMMA Numbered ==
  ASSUME NEW S, IsFiniteSet(S), Cardinality(S) <= BatchSize
  PROVE  Injection(S, 1 .. BatchSize) # {}
<1> DEFINE n == Cardinality(S)
<1>1. n \in Nat
  BY FS_CardinalityType
<1>2. ExistsBijection(1 .. n, S)
  BY FS_CardinalityType
<1>3. PICK b : b \in Bijection(1 .. n, S)
  BY <1>2 DEF ExistsBijection
<1>4. /\ b \in [1 .. n -> S]
      /\ \A q \in S : \E i \in 1 .. n : b[i] = q
  BY <1>3 DEF Bijection, Surjection, Injection
<1> DEFINE g == [q \in S |-> CHOOSE i \in 1 .. n : b[i] = q]
<1>5. \A q \in S : g[q] \in 1 .. n /\ b[g[q]] = q
  BY <1>4
<1> HIDE DEF g, n
<1>6. 1 .. n \subseteq 1 .. BatchSize
  BY <1>1, BoundIsNat DEF n
<1>7. g \in [S -> 1 .. BatchSize]
  BY <1>5, <1>6 DEF g
<1>8. \A p, q \in S : g[p] = g[q] => p = q
  BY <1>5
<1> QED
  BY <1>7, <1>8 DEF Injection, IsInjective

LEMMA LoadIsBounded ==
  ASSUME SmallBatches, NEW r
  PROVE  /\ IsFiniteSet(Load(r)) /\ Cardinality(Load(r)) \in Nat
         /\ Cardinality(Load(r)) <= InFlightBound
<1> DEFINE Place == [w \in Worker |-> CHOOSE f : f \in Injection(batch[w], 1 .. BatchSize)]
           Seats == Worker \X (1 .. BatchSize)
           seat == [p \in Load(r) |-> <<p[1], Place[p[1]][p[2]]>>]
<1>1. \A w \in Worker : Place[w] \in Injection(batch[w], 1 .. BatchSize)
  BY Numbered DEF SmallBatches
<1> HIDE DEF Place
<1>2. \A p \in Load(r) : /\ p[1] \in Worker /\ p[2] \in batch[p[1]] /\ p = <<p[1], p[2]>>
  BY DEF Load
<1>3. \A p \in Load(r) : Place[p[1]][p[2]] \in 1 .. BatchSize
  BY <1>1, <1>2 DEF Injection
<1>4. seat \in [Load(r) -> Seats]
  BY <1>2, <1>3
<1>5. \A p, q \in Load(r) : seat[p] = seat[q] => p = q
  <2> TAKE p, q \in Load(r)
  <2> HAVE seat[p] = seat[q]
  <2>1. p[1] = q[1] /\ Place[p[1]][p[2]] = Place[q[1]][q[2]]
    OBVIOUS
  <2>2. p[2] = q[2]
    BY <1>1, <1>2, <2>1 DEF Injection, IsInjective
  <2> QED
    BY <1>2, <2>1, <2>2
<1> HIDE DEF seat
<1>6. seat \in Injection(Load(r), Seats)
  BY <1>4, <1>5 DEF Injection, IsInjective
<1>7. IsFiniteSet(Seats) /\ Cardinality(Seats) = InFlightBound
  BY BoundIsNat, FS_Product DEF InFlightBound
<1>8. IsFiniteSet(Load(r)) /\ Cardinality(Load(r)) <= Cardinality(Seats)
  BY <1>6, <1>7, FS_Injection
<1> QED
  BY <1>7, <1>8, FS_CardinalityType
-------------------------------------------------------------------------------
(* Steps that start no row: loads only shrink, and the counter stands.     *)
LEMMA NoStart ==
  ASSUME Served, SmallBatches', StartedNow = {}, NEW r \in Row,
         overtaken'[r] = Count(r),
         r \in Claimable /\ r \in Claimable' => Load(r)' \subseteq Load(r)
  PROVE  /\ overtaken'[r] \in Nat
         /\ IF r \in Claimable' THEN overtaken'[r] + Cardinality(Load(r))' <= InFlightBound
                                ELSE overtaken'[r] = 0
<1>1. overtaken[r] \in Nat
  BY DEF Served
<1>2. overtaken'[r] = IF r \in Claimable' THEN overtaken[r] ELSE 0
  BY DEF Count
<1>3. CASE r \notin Claimable'
  BY <1>2, <1>3
<1>4. CASE r \in Claimable /\ r \in Claimable'
  <2>1. Cardinality(Load(r)') <= Cardinality(Load(r))
    BY <1>4, LoadIsBounded, FS_Subset DEF Served
  <2>2. overtaken[r] + Cardinality(Load(r)) <= InFlightBound
    BY <1>4 DEF Served, Spare
  <2>3. Cardinality(Load(r)) \in Nat /\ InFlightBound \in Nat
    BY LoadIsBounded, BoundIsNat DEF Served
  <2>4. Cardinality(Load(r))' \in Nat
    <3>1. (SmallBatches => Cardinality(Load(r)) \in Nat)'
      BY LoadIsBounded, PTL
    <3> QED
      BY <3>1
  <2> QED
    BY <1>1, <1>2, <1>4, <2>1, <2>2, <2>3, <2>4
<1>5. CASE r \notin Claimable /\ r \in Claimable'
  <2>1. overtaken[r] = 0
    BY <1>5 DEF Served, Spare
  <2>2. (SmallBatches => Cardinality(Load(r)) \in Nat /\ Cardinality(Load(r)) <= InFlightBound)'
    BY LoadIsBounded, PTL
  <2>3. Cardinality(Load(r))' \in Nat /\ Cardinality(Load(r))' <= InFlightBound'
    BY <2>2
  <2>4. InFlightBound' = InFlightBound /\ InFlightBound \in Nat
    BY BoundIsNat DEF InFlightBound
  <2> QED
    BY <1>2, <1>5, <2>1, <2>3, <2>4
<1> QED
  BY <1>3, <1>4, <1>5

LEMMA StartServes ==
  ASSUME Served, NEW w \in Worker, NEW q \in Row, Start(w, q), NEW r \in Row,
         overtaken'[r] = Count(r)
  PROVE  /\ overtaken'[r] \in Nat
         /\ IF r \in Claimable' THEN overtaken'[r] + Cardinality(Load(r))' <= InFlightBound
                                ELSE overtaken'[r] = 0
<1>1. /\ phase[w] = "idle" /\ q \in batch[w] /\ current' = [current EXCEPT ![w] = q]
      /\ UNCHANGED <<table, batch>>
  BY DEF Start
<1>2. current[w] = None /\ q # None /\ current \in [Worker -> Row \cup {None}]
  BY <1>1, ConstantsAssumption DEF Served, Base, InHand, TypeOK
<1>3. Claimable' = Claimable
  BY <1>1 DEF Claimable, table
<1>4. StartedNow = {q}
  BY <1>1, <1>2 DEF StartedNow
<1>5. overtaken[r] \in Nat
  BY DEF Served
<1>6. Load(r)' = Load(r) \ {<<w, q>>}
  BY <1>1, <1>2, ConstantsAssumption DEF Load
<1>7. IsFiniteSet(Load(r)) /\ Cardinality(Load(r)) \in Nat
      /\ Cardinality(Load(r)) <= InFlightBound /\ InFlightBound \in Nat
  BY LoadIsBounded, BoundIsNat DEF Served
<1>8. CASE r \notin Claimable
  BY <1>3, <1>8 DEF Count
<1>9. CASE r \in Claimable /\ Rank[q] > Rank[r]
  <2>1. <<w, q>> \in Load(r)
    BY <1>1, <1>2, <1>9, ConstantsAssumption DEF Load
  <2>2. Cardinality(Load(r))' = Cardinality(Load(r)) - 1
    BY <1>6, <1>7, <2>1, FS_RemoveElement
  <2>3. overtaken[r] + Cardinality(Load(r)) <= InFlightBound
    BY <1>9 DEF Served, Spare
  <2>4. overtaken'[r] = overtaken[r] + 1
    <3>1. overtaken[r] <= InFlightBound
      BY <1>5, <1>7, <2>3
    <3>2. r \in Claimable' /\ \E p \in StartedNow : Rank[p] > Rank[r]
      BY <1>3, <1>4, <1>9
    <3> QED
      BY <3>1, <3>2 DEF Count
  <2>5. Cardinality(Load(r)) # 0
    BY <1>7, <2>1, FS_EmptySet
  <2> QED
    BY <1>3, <1>5, <1>7, <1>9, <2>2, <2>3, <2>4, <2>5
<1>10. CASE r \in Claimable /\ ~(Rank[q] > Rank[r])
  <2>1. Load(r)' = Load(r)
    BY <1>6, <1>10 DEF Load
  <2>2. overtaken'[r] = overtaken[r]
    BY <1>3, <1>4, <1>10 DEF Count
  <2>3. overtaken[r] + Cardinality(Load(r)) <= InFlightBound
    BY <1>10 DEF Served, Spare
  <2> QED
    BY <1>3, <1>5, <1>10, <2>1, <2>2, <2>3
<1> QED
  BY <1>8, <1>9, <1>10

(* A worker that lets rows go takes them out of every load.                *)
LEMMA LetsGo ==
  ASSUME Served, NEW w \in Worker, NEW T \in SUBSET (batch[w] \ {current[w]}),
         batch' = [batch EXCEPT ![w] = T], current' = [current EXCEPT ![w] = None]
  PROVE  SmallBatches' /\ StartedNow = {} /\ \A r \in Row : Load(r)' \subseteq Load(r)
<1>1. batch \in [Worker -> SUBSET Row] /\ current \in [Worker -> Row \cup {None}]
  BY DEF Served, Base, TypeOK
<1>2. SmallBatches'
  <2> SUFFICES ASSUME NEW v \in Worker
               PROVE  IsFiniteSet(batch'[v]) /\ Cardinality(batch'[v]) <= BatchSize
    BY DEF SmallBatches
  <2>1. batch'[v] \subseteq batch[v]
    BY <1>1
  <2>2. /\ IsFiniteSet(batch[v]) /\ Cardinality(batch[v]) <= BatchSize
        /\ Cardinality(batch[v]) \in Nat
    BY FS_CardinalityType DEF Served, SmallBatches
  <2>3. /\ IsFiniteSet(batch'[v]) /\ Cardinality(batch'[v]) <= Cardinality(batch[v])
        /\ Cardinality(batch'[v]) \in Nat
    BY <2>1, <2>2, FS_Subset, FS_CardinalityType
  <2> QED
    BY <2>2, <2>3, BoundIsNat
<1>3. StartedNow = {}
  BY <1>1 DEF StartedNow
<1>4. \A r \in Row : Load(r)' \subseteq Load(r)
  BY <1>1 DEF Load
<1> QED
  BY <1>2, <1>3, <1>4

LEMMA Idles ==
  ASSUME Served, UNCHANGED <<batch, current>>
  PROVE  SmallBatches' /\ StartedNow = {} /\ \A r \in Row : Load(r)' \subseteq Load(r)
  BY DEF Served, SmallBatches, StartedNow, Load

(* A claim takes the first rows in line: nobody it leaves is outranked.    *)
LEMMA ClaimServes ==
  ASSUME IsFiniteSet(Row), Served, NEW w \in Worker, Claim(w)
  PROVE  /\ SmallBatches' /\ StartedNow = {}
         /\ \A r \in Row : r \in Claimable /\ r \in Claimable' => Load(r)' \subseteq Load(r)
<1>1. PICK S \in SUBSET Row :
        /\ FirstInLine(S)
        /\ status' = [r \in Row |-> IF r \in S THEN "processing" ELSE status[r]]
        /\ batch' = [batch EXCEPT ![w] = S]
  BY DEF Claim
<1>2. current' = current
  BY DEF Claim
<1>3. batch \in [Worker -> SUBSET Row]
  BY DEF Served, Base, TypeOK
<1>4. IsFiniteSet(S) /\ Cardinality(S) <= BatchSize
  BY <1>1, FS_Subset DEF FirstInLine
<1>5. SmallBatches'
  BY <1>1, <1>3, <1>4 DEF Served, SmallBatches
<1>6. StartedNow = {}
  BY <1>2 DEF StartedNow
<1>7. ASSUME NEW r \in Row, r \in Claimable, r \in Claimable'
      PROVE  Load(r)' \subseteq Load(r)
  <2>1. r \notin S
    BY <1>1, <1>7 DEF Claimable
  <2>2. \A q \in S : Rank[q] <= Rank[r]
    BY <1>1, <1>7, <2>1 DEF FirstInLine
  <2>3. \A q \in S : ~(Rank[q] > Rank[r])
    BY <2>2, ConstantsAssumption
  <2> QED
    BY <1>1, <1>2, <1>3, <2>3 DEF Load
<1> QED
  BY <1>5, <1>6, <1>7

LEMMA StartsNothing ==
  ASSUME IsFiniteSet(Row), Served, [Next]_vars,
         \A w \in Worker, q \in Row : ~Start(w, q)
  PROVE  /\ SmallBatches' /\ StartedNow = {}
         /\ \A r \in Row : r \in Claimable /\ r \in Claimable' => Load(r)' \subseteq Load(r)
<1>1. ASSUME NEW w \in Worker, Claim(w)
      PROVE  /\ SmallBatches' /\ StartedNow = {}
             /\ \A r \in Row : r \in Claimable /\ r \in Claimable' => Load(r)' \subseteq Load(r)
  BY <1>1, ClaimServes
<1>2. ASSUME NEW w \in Worker,
             Complete(w) \/ MarkForRetry(w) \/ Defer(w) \/ Crash(w)
      PROVE  SmallBatches' /\ StartedNow = {} /\ \A r \in Row : Load(r)' \subseteq Load(r)
  <2>1. CASE Complete(w) \/ MarkForRetry(w) \/ Defer(w)
    <3>1. Release(w)
      BY <2>1 DEF Complete, MarkForRetry, Defer
    <3> DEFINE T == batch[w] \ {current[w]}
    <3>2. batch' = [batch EXCEPT ![w] = T] /\ current' = [current EXCEPT ![w] = None]
      BY <3>1 DEF Release
    <3> QED
      BY <3>2, LetsGo
  <2>2. CASE Crash(w)
    <3>1. batch' = [batch EXCEPT ![w] = {}] /\ current' = [current EXCEPT ![w] = None]
      BY <2>2 DEF Crash
    <3> QED
      BY <3>1, LetsGo
  <2> QED
    BY <1>2, <2>1, <2>2
<1>3. CASE UNCHANGED <<batch, current>>
  BY <1>3, Idles
<1>4. ASSUME Next PROVE \/ \E w \in Worker : \/ Claim(w) \/ Complete(w) \/ MarkForRetry(w)
                                          \/ Defer(w) \/ Crash(w)
                        \/ UNCHANGED <<batch, current>>
  BY <1>4 DEF Next, WorkerStep, Enqueue, Age, BackoffElapses, Poll, Raise, LoseAck,
              RateLimited, CommitInside, Sweep, worker, vars
<1> QED
  BY <1>1, <1>2, <1>3, <1>4 DEF vars, worker

LEMMA InitServed == HistoryInit => Served
<1> SUFFICES ASSUME HistoryInit PROVE Served
  OBVIOUS
<1>1. Base
  BY InitBase DEF HistoryInit
<1>2. \A w \in Worker : batch[w] = {}
  BY DEF HistoryInit, Init
<1>3. SmallBatches
  BY <1>2, FS_EmptySet, BoundIsNat DEF SmallBatches
<1>4. overtaken \in [Row -> Nat] /\ \A r \in Row : overtaken[r] = 0
  BY DEF HistoryInit
<1>5. Spare
  <2> SUFFICES ASSUME NEW r \in Row PROVE overtaken[r] + Cardinality(Load(r)) <= InFlightBound
    BY <1>4 DEF Spare
  <2> QED
    BY <1>3, <1>4, LoadIsBounded, BoundIsNat
<1> QED
  BY <1>1, <1>3, <1>4, <1>5 DEF Served

LEMMA NextServed ==
  ASSUME IsFiniteSet(Row), Served, [HistoryNext]_historyVars PROVE Served'
<1>1. CASE HistoryNext
  <2>1. Next /\ Base' /\ overtaken' = [r \in Row |-> Count(r)]
    BY <1>1, NextBase DEF HistoryNext, Served
  <2>2. ASSUME SmallBatches',
               \A r \in Row :
                 /\ overtaken'[r] \in Nat
                 /\ IF r \in Claimable'
                      THEN overtaken'[r] + Cardinality(Load(r))' <= InFlightBound
                      ELSE overtaken'[r] = 0
        PROVE  Served'
    <3>1. overtaken' \in [Row -> Nat]
      BY <2>1, <2>2
    <3>2. Spare'
      BY <2>2 DEF Spare, InFlightBound
    <3> QED
      BY <2>1, <2>2, <3>1, <3>2 DEF Served
  <2>3. CASE \E w \in Worker, q \in Row : Start(w, q)
    <3>1. PICK w \in Worker, q \in Row : Start(w, q)
      BY <2>3
    <3>2. SmallBatches'
      BY <3>1 DEF Start, Served, SmallBatches
    <3> QED
      BY <2>1, <2>2, <3>1, <3>2, StartServes
  <2>4. CASE \A w \in Worker, q \in Row : ~Start(w, q)
    <3>1. /\ SmallBatches' /\ StartedNow = {}
          /\ \A r \in Row : r \in Claimable /\ r \in Claimable' => Load(r)' \subseteq Load(r)
      BY <2>1, <2>4, StartsNothing
    <3> QED
      BY <2>1, <2>2, <3>1, NoStart
  <2> QED
    BY <2>3, <2>4
<1>2. CASE UNCHANGED historyVars
  <2>1. UNCHANGED vars /\ UNCHANGED overtaken
    BY <1>2 DEF historyVars
  <2>2. Base'
    BY <2>1, NextBase DEF Served
  <2>3. SmallBatches' /\ \A r \in Row : Load(r)' = Load(r)
    BY <2>1 DEF Served, SmallBatches, Load, vars, worker
  <2>4. Claimable' = Claimable
    BY <2>1 DEF Claimable, vars, table
  <2> QED
    BY <2>1, <2>2, <2>3, <2>4 DEF Served, Spare, InFlightBound
<1> QED
  BY <1>1, <1>2

(* Under every fault, a row that may be claimed is overtaken only by rows  *)
(* that were in the workers' batches when it became so: every later claim  *)
(* takes it before them.                                                   *)
THEOREM OvertakingIsBounded ==
  ASSUME IsFiniteSet(Row) PROVE HistorySafety => []BoundedOvertaking
<1>1. Served => BoundedOvertaking
  <2> SUFFICES ASSUME Served, NEW r \in Row PROVE overtaken[r] <= InFlightBound
    BY DEF BoundedOvertaking
  <2>1. overtaken[r] \in Nat /\ Cardinality(Load(r)) \in Nat /\ InFlightBound \in Nat
    BY LoadIsBounded, BoundIsNat DEF Served
  <2> QED
    BY <2>1 DEF Served, Spare
<1>2. Served /\ [HistoryNext]_historyVars => Served'
  BY NextServed
<1> QED
  BY <1>1, <1>2, InitServed, PTL DEF HistorySafety
===============================================================================
