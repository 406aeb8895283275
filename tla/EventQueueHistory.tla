--------------------------- MODULE EventQueueHistory ---------------------------
(***************************************************************************)
(* EventQueue with two history variables, for what its order of service    *)
(* and its crash recovery promise over many steps.                         *)
(***************************************************************************)
EXTENDS EventQueue

VARIABLES overtaken,  \* overtaken[r]: later-ranked rows started while r waits
          blamed      \* rows that may be the cause of an attempt they lost: they
                      \* were started, or their worker died holding no row

historyVars == <<vars, overtaken, blamed>>

(* Rows in workers' hands when r becomes claimable: nobody can do worse.    *)
InFlightBound == Cardinality(Worker) * BatchSize

HistoryInit == Init /\ overtaken = [r \in Row |-> 0] /\ blamed = {}

StartedNow == {current'[w] : w \in {v \in Worker : current'[v] # current[v]}}
              \ {None}

(* The counter of r runs while r is claimable; it is capped past the bound. *)
Count(r) ==
  IF r \notin Claimable' THEN 0
  ELSE IF /\ \E q \in StartedNow : Rank[q] > Rank[r]
          /\ overtaken[r] <= InFlightBound
       THEN overtaken[r] + 1
       ELSE overtaken[r]

(* The batches of workers that die between two rows.                        *)
LostBetweenRows ==
  UNION {batch[w] : w \in {v \in Worker : current[v] = None /\ batch'[v] = {}}}

HistoryNext == /\ Next
               /\ overtaken' = [r \in Row |-> Count(r)]
               /\ blamed' = blamed \cup StartedNow \cup LostBetweenRows

HistorySafety == HistoryInit /\ [][HistoryNext]_historyVars

HistorySpec == HistorySafety /\ Fairness
-------------------------------------------------------------------------------
(* A row that may be claimed is overtaken by later-ranked rows only as     *)
(* often as the workers' present batches allow: every later claim takes it *)
(* first, however many rows keep arriving, failing and being reaped.       *)
BoundedOvertaking ==
  \A r \in Row : overtaken[r] <= InFlightBound

(* test_reaper.py:122, a killed worker loses no work, and queue.py:49, it  *)
(* is the row that keeps killing its worker that stops being selected.     *)
KilledWorkerLosesNoWork ==
  \A r \in Row : status[r] = "failed" => r \in blamed
===============================================================================
