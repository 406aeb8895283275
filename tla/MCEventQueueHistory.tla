-------------------------- MODULE MCEventQueueHistory --------------------------
(* Small instances of EventQueueHistory for TLC. *)
EXTENDS EventQueueHistory, TLC

CONSTANTS r1, r2, r3, r4, w1, w2

(* r1 is a band to discover, which ranks with the live webhooks; the others *)
(* are history work of one transaction.                                     *)
RankLiveFirst == [r \in Row |-> IF r = r1 THEN 0 ELSE 1]

Interchangeable == Permutations(Worker) \cup Permutations(Row \ {r1})
===============================================================================
