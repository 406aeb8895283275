----------------------------- MODULE MCEventQueue -----------------------------
(* Small instances of EventQueue for TLC. *)
EXTENDS EventQueue, TLC

CONSTANTS r1, r2, r3, w1, w2, w3

(* r1 is a band to discover, which ranks with the live webhooks; the others *)
(* are history work of one transaction.                                     *)
RankLiveFirst == [r \in Row |-> IF r = r1 THEN 0 ELSE 1]

(* Workers are interchangeable, and so are the rows of equal Rank.          *)
Interchangeable == Permutations(Worker) \cup Permutations(Row \ {r1})
===============================================================================
